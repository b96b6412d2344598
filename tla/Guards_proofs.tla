--------------------------- MODULE Guards_proofs ---------------------------
(***************************************************************************)
(* Theorems about what stands before a request: the rate limiter and the   *)
(* lockout, for any limit, window, backoff and number of clients; the IP   *)
(* allowlist, for addresses of any length and any list of entries; and the *)
(* settings that say where to listen and for how long things last.         *)
(***************************************************************************)
EXTENDS RateLimit, Cidr, Settings, FiniteSetTheorems, SequenceTheorems, WellFoundedInduction, TLAPS

-----------------------------------------------------------------------------
(* The constants are numbers. *)
LEMMA Constants ==
  /\ Limit \in Nat \ {0} /\ Window \in Nat \ {0} /\ Threshold \in Nat \ {0}
  /\ BaseMs \in Nat \ {0} /\ MaxMs \in Nat \ {0} /\ MaxFails \in Nat \ {0}
  /\ IdleMs \in Nat /\ MaxTime \in Nat /\ BaseMs <= MaxMs /\ Window < MaxTime
BY ConstantsAssumption

(* Two raised to a number, which is the size of a powerset, grows with it. *)
LEMMA PowersGrow == \A n \in Nat : \A k \in 0 .. n : 2 ^ k \in Nat /\ 2 ^ n \in Nat /\ 2 ^ k <= 2 ^ n
<1>. SUFFICES ASSUME NEW n \in Nat, NEW k \in 0 .. n
              PROVE  2 ^ k \in Nat /\ 2 ^ n \in Nat /\ 2 ^ k <= 2 ^ n
  OBVIOUS
<1>1. ASSUME NEW i \in Nat
      PROVE  IsFiniteSet(SUBSET (1 .. i)) /\ Cardinality(SUBSET (1 .. i)) = 2 ^ i
             /\ Cardinality(SUBSET (1 .. i)) \in Nat
  <2>1. IsFiniteSet(1 .. i) /\ Cardinality(1 .. i) = i
    BY FS_Interval
  <2>2. IsFiniteSet(SUBSET (1 .. i)) /\ Cardinality(SUBSET (1 .. i)) = 2 ^ i
    BY <2>1, FS_SUBSET
  <2>. QED
    BY <2>2, FS_CardinalityType
<1>2. SUBSET (1 .. k) \subseteq SUBSET (1 .. n)
  OBVIOUS
<1>3. Cardinality(SUBSET (1 .. k)) <= Cardinality(SUBSET (1 .. n))
  BY <1>1, <1>2, FS_Subset
<1>4. Cardinality(SUBSET (1 .. k)) = 2 ^ k /\ Cardinality(SUBSET (1 .. k)) \in Nat
  BY <1>1
<1>5. Cardinality(SUBSET (1 .. n)) = 2 ^ n /\ Cardinality(SUBSET (1 .. n)) \in Nat
  BY <1>1
<1>. QED
  BY <1>3, <1>4, <1>5

(* A lockout is no longer than its cap, and further failures do not shorten it. *)
LEMMA LockoutsGrow ==
  \A g \in Nat : \A f \in 0 .. g : f >= Threshold =>
    Lockout(f) \in 0 .. MaxMs /\ Lockout(g) \in 0 .. MaxMs /\ Lockout(f) <= Lockout(g)
<1>. SUFFICES ASSUME NEW g \in Nat, NEW f \in 0 .. g, f >= Threshold
              PROVE  Lockout(f) \in 0 .. MaxMs /\ Lockout(g) \in 0 .. MaxMs /\ Lockout(f) <= Lockout(g)
  OBVIOUS
<1>1. g - Threshold \in Nat /\ f - Threshold \in 0 .. g - Threshold
  BY Constants
<1>2. 2 ^ (f - Threshold) \in Nat /\ 2 ^ (g - Threshold) \in Nat
      /\ 2 ^ (f - Threshold) <= 2 ^ (g - Threshold)
  BY <1>1, PowersGrow
<1>3. PICK p \in Nat : p = 2 ^ (f - Threshold)
  BY <1>2
<1>4. PICK q \in Nat : q = 2 ^ (g - Threshold)
  BY <1>2
<1>5. \A b \in Nat : b * p \in Nat /\ b * q \in Nat /\ b * p <= b * q
  <2>1. PICK e \in Nat : q = p + e
    <3>1. p <= q
      BY <1>2, <1>3, <1>4
    <3>2. q - p \in Nat /\ q = p + (q - p)
      BY <3>1
    <3>. QED
      BY <3>2
  <2>2. \A b \in Nat : b * q = b * p + b * e /\ b * p \in Nat /\ b * e \in Nat
    BY <2>1
  <2>. QED
    BY <2>2
<1>6. PICK x \in Nat : x = BaseMs * p
  BY <1>5, Constants
<1>7. PICK y \in Nat : y = BaseMs * q
  BY <1>5, Constants
<1>8. x <= y
  BY <1>5, <1>6, <1>7, Constants
<1>9. Lockout(f) = Capped(x) /\ Lockout(g) = Capped(y)
  BY <1>3, <1>4, <1>6, <1>7 DEF Lockout
<1>. QED
  BY <1>8, <1>9, Constants DEF Capped

-----------------------------------------------------------------------------
(* The order of the natural numbers, as a relation, is well-founded. *)
LEMMA LessWellFounded == IsWellFoundedOn({p \in Nat \X Nat : p[1] < p[2]}, Nat)
BY NatLessThanWellFounded, Zenon DEF OpToRel

(* A set of numbers has a least one. *)
LEMMA Least == \A S \in SUBSET Nat : S # {} => \E x \in S : \A y \in S : x <= y
<1>. SUFFICES ASSUME NEW S \in SUBSET Nat, S # {}
              PROVE  \E x \in S : \A y \in S : x <= y
  OBVIOUS
<1>. DEFINE R == {p \in Nat \X Nat : p[1] < p[2]}
<1>1. IsWellFoundedOn(R, Nat)
  BY LessWellFounded
<1>. HIDE DEF R
<1>2. PICK x \in S : \A y \in S : ~(<<y, x>> \in R)
  BY <1>1, WFMin
<1>3. ASSUME NEW y \in S
      PROVE  x <= y
  <2>1. x \in Nat /\ y \in Nat
    OBVIOUS
  <2>2. y < x => <<y, x>> \in R
    BY <2>1 DEF R
  <2>. QED
    BY <1>2, <2>1, <2>2
<1>. QED
  BY <1>3

(* Induction up to a bound, over a set of numbers rather than a predicate. *)
LEMMA UpTo ==
  \A m \in Nat : \A G :
    0 \in G /\ (\A n \in 1 .. m : n - 1 \in G => n \in G) => 0 .. m \subseteq G
<1>. SUFFICES ASSUME NEW m \in Nat, NEW G, 0 \in G, \A n \in 1 .. m : n - 1 \in G => n \in G,
                     NEW z \in 0 .. m, z \notin G
              PROVE  FALSE
  OBVIOUS
<1>1. PICK x \in (0 .. m) \ G : \A y \in (0 .. m) \ G : x <= y
  <2>1. (0 .. m) \ G \in SUBSET Nat /\ (0 .. m) \ G # {}
    OBVIOUS
  <2>. QED
    BY <2>1, Least
<1>2. x # 0
  OBVIOUS
<1>3. x \in 1 .. m /\ x - 1 \in 0 .. m /\ ~(x <= x - 1)
  BY <1>2
<1>. QED
  BY <1>1, <1>3

-----------------------------------------------------------------------------
(* Counts by age, and their sums. *)
Counts(m) == [0 .. m -> Nat]

(* f sums the counts up to an age. *)
SumsUpTo(c, n, f) ==
  f \in [0 .. n -> Nat] /\ \A a \in 0 .. n : f[a] = c[a] + IF a = 0 THEN 0 ELSE f[a - 1]

(* There is such a function for all ages: the recursion of Total is sound. *)
LEMMA SumsExist ==
  \A m \in Nat : \A c \in Counts(m) : \E f : SumsUpTo(c, m, f)
<1>. SUFFICES ASSUME NEW m \in Nat, NEW c \in Counts(m)
              PROVE  \E f : SumsUpTo(c, m, f)
  OBVIOUS
<1>. DEFINE G == {n \in 0 .. m : \E f : SumsUpTo(c, n, f)}
<1>1. 0 \in G
  <2>1. SumsUpTo(c, 0, [a \in 0 .. 0 |-> c[0]])
    BY DEF SumsUpTo, Counts
  <2>. QED
    BY <2>1
<1>2. ASSUME NEW n \in 1 .. m, n - 1 \in G
      PROVE  n \in G
  <2>1. PICK f : SumsUpTo(c, n - 1, f)
    BY <1>2
  <2>2. PICK t : t = c[n] + f[n - 1]
    OBVIOUS
  <2>3. t \in Nat /\ n - 1 \in 0 .. n - 1
    BY <2>1, <2>2 DEF SumsUpTo, Counts
  <2>4. PICK g : g = [a \in 0 .. n |-> IF a = n THEN t ELSE f[a]]
    OBVIOUS
  <2>5. \A a \in 0 .. n : a # n => a \in 0 .. n - 1
    OBVIOUS
  <2>6. g \in [0 .. n -> Nat] /\ g[n] = t /\ \A a \in 0 .. n - 1 : g[a] = f[a] /\ a \in 0 .. n
    BY <2>1, <2>3, <2>4, <2>5 DEF SumsUpTo
  <2>7. ASSUME NEW a \in 0 .. n
        PROVE  g[a] = c[a] + IF a = 0 THEN 0 ELSE g[a - 1]
    <3>1. CASE a = n
      BY <2>2, <2>3, <2>6, <3>1
    <3>2. CASE a # n
      <4>1. a \in 0 .. n - 1 /\ (a # 0 => a - 1 \in 0 .. n - 1)
        BY <3>2
      <4>. QED
        BY <2>1, <2>6, <4>1 DEF SumsUpTo
    <3>. QED
      BY <3>1, <3>2
  <2>8. SumsUpTo(c, n, g)
    BY <2>6, <2>7 DEF SumsUpTo
  <2>. QED
    BY <2>8
<1>. HIDE DEF G
<1>3. m \in G
  BY <1>1, <1>2, UpTo
<1>. QED
  BY <1>3 DEF G

(* What Total computes. *)
LEMMA TotalStep ==
  \A m \in Nat : \A c \in Counts(m) :
    \A n \in 0 .. m : Total(c, n) = c[n] + IF n = 0 THEN 0 ELSE Total(c, n - 1)
<1>. SUFFICES ASSUME NEW m \in Nat, NEW c \in Counts(m)
              PROVE  \A n \in 0 .. m : Total(c, n) = c[n] + IF n = 0 THEN 0 ELSE Total(c, n - 1)
  OBVIOUS
<1>. DEFINE s == CHOOSE s : s = [a \in DOMAIN c |-> c[a] + IF a = 0 THEN 0 ELSE s[a - 1]]
<1>1. \A n : Total(c, n) = s[n]
  BY DEF Total
<1>2. DOMAIN c = 0 .. m
  BY DEF Counts
<1>3. \E f : f = [a \in DOMAIN c |-> c[a] + IF a = 0 THEN 0 ELSE f[a - 1]]
  <2>1. PICK f : SumsUpTo(c, m, f)
    BY SumsExist
  <2>2. f = [a \in 0 .. m |-> c[a] + IF a = 0 THEN 0 ELSE f[a - 1]]
    BY <2>1 DEF SumsUpTo
  <2>. QED
    BY <1>2, <2>2
<1>4. s = [a \in DOMAIN c |-> c[a] + IF a = 0 THEN 0 ELSE s[a - 1]]
  BY <1>3
<1>. HIDE DEF s
<1>. QED
  BY <1>1, <1>2, <1>4

(* A total is a number. *)
LEMMA TotalIsNat ==
  \A m \in Nat : \A c \in Counts(m) : \A n \in 0 .. m : c[n] \in Nat /\ Total(c, n) \in Nat
<1>. SUFFICES ASSUME NEW m \in Nat, NEW c \in Counts(m)
              PROVE  \A n \in 0 .. m : c[n] \in Nat /\ Total(c, n) \in Nat
  OBVIOUS
<1>. DEFINE G == {n \in 0 .. m : Total(c, n) \in Nat}
<1>1. \A n \in 0 .. m : c[n] \in Nat
  BY DEF Counts
<1>2. 0 \in G
  BY <1>1, TotalStep
<1>3. ASSUME NEW n \in 1 .. m, n - 1 \in G
      PROVE  n \in G
  <2>1. Total(c, n) = c[n] + Total(c, n - 1) /\ n \in 0 .. m
    BY TotalStep
  <2>. QED
    BY <1>1, <1>3, <2>1
<1>. HIDE DEF G
<1>4. 0 .. m \subseteq G
  BY <1>2, <1>3, UpTo
<1>. QED
  BY <1>1, <1>4 DEF G

(* Totals grow with the age, by what is counted there. *)
LEMMA TotalGrows ==
  \A m \in Nat : \A c \in Counts(m) : \A i \in 0 .. m : \A j \in i .. m : Total(c, i) <= Total(c, j)
<1>. SUFFICES ASSUME NEW m \in Nat, NEW c \in Counts(m), NEW i \in 0 .. m
              PROVE  \A j \in i .. m : Total(c, i) <= Total(c, j)
  OBVIOUS
<1>. DEFINE G == {n \in 0 .. m : n >= i => Total(c, i) <= Total(c, n)}
<1>1. \A n \in 0 .. m : c[n] \in Nat /\ Total(c, n) \in Nat
  BY TotalIsNat
<1>2. 0 \in G
  BY <1>1
<1>3. ASSUME NEW n \in 1 .. m, n - 1 \in G
      PROVE  n \in G
  <2>1. Total(c, n) = c[n] + Total(c, n - 1) /\ n \in 0 .. m /\ n - 1 \in 0 .. m
    BY TotalStep
  <2>2. CASE n = i
    BY <1>1, <2>1, <2>2
  <2>3. CASE n # i
    BY <1>1, <1>3, <2>1, <2>3
  <2>. QED
    BY <2>2, <2>3
<1>. HIDE DEF G
<1>4. 0 .. m \subseteq G
  BY <1>2, <1>3, UpTo
<1>. QED
  BY <1>4 DEF G

(* One more now is one more in every total. *)
LEMMA TotalBumped ==
  \A m \in Nat : \A c \in Counts(m) :
    /\ [c EXCEPT ![0] = @ + 1] \in Counts(m)
    /\ \A n \in 0 .. m : Total([c EXCEPT ![0] = @ + 1], n) = Total(c, n) + 1
<1>. SUFFICES ASSUME NEW m \in Nat, NEW c \in Counts(m)
              PROVE  /\ [c EXCEPT ![0] = @ + 1] \in Counts(m)
                     /\ \A n \in 0 .. m : Total([c EXCEPT ![0] = @ + 1], n) = Total(c, n) + 1
  OBVIOUS
<1>1. PICK d : d = [c EXCEPT ![0] = @ + 1]
  OBVIOUS
<1>2. \A n \in 0 .. m : c[n] \in Nat /\ Total(c, n) \in Nat
  BY TotalIsNat
<1>3. d \in Counts(m) /\ d[0] = c[0] + 1 /\ \A n \in 1 .. m : d[n] = c[n]
  BY <1>1, <1>2 DEF Counts
<1>. DEFINE G == {n \in 0 .. m : Total(d, n) = Total(c, n) + 1}
<1>4. 0 \in G
  BY <1>2, <1>3, TotalStep
<1>5. ASSUME NEW n \in 1 .. m, n - 1 \in G
      PROVE  n \in G
  <2>1. Total(c, n) = c[n] + Total(c, n - 1) /\ n \in 0 .. m /\ n - 1 \in 0 .. m
    BY TotalStep
  <2>2. Total(d, n) = d[n] + Total(d, n - 1)
    BY <1>3, <2>1, TotalStep
  <2>. QED
    BY <1>2, <1>3, <1>5, <2>1, <2>2
<1>. HIDE DEF G
<1>6. 0 .. m \subseteq G
  BY <1>4, <1>5, UpTo
<1>. QED
  BY <1>1, <1>3, <1>6 DEF G

(* A tick later every total is that of one tick less. *)
LEMMA TotalAged ==
  \A m \in Nat : \A c \in Counts(m) :
    /\ Aged(c) \in Counts(m) /\ Aged(c)[0] = 0 /\ Total(Aged(c), 0) = 0
    /\ \A n \in 1 .. m : Aged(c)[n] = c[n - 1] /\ Total(Aged(c), n) = Total(c, n - 1)
<1>. SUFFICES ASSUME NEW m \in Nat, NEW c \in Counts(m)
              PROVE  /\ Aged(c) \in Counts(m) /\ Aged(c)[0] = 0 /\ Total(Aged(c), 0) = 0
                     /\ \A n \in 1 .. m : Aged(c)[n] = c[n - 1] /\ Total(Aged(c), n) = Total(c, n - 1)
  OBVIOUS
<1>1. PICK d : d = Aged(c)
  OBVIOUS
<1>2. \A n \in 0 .. m : c[n] \in Nat /\ Total(c, n) \in Nat
  BY TotalIsNat
<1>3. d \in Counts(m) /\ d[0] = 0 /\ \A n \in 1 .. m : d[n] = c[n - 1]
  <2>1. d = [a \in 0 .. m |-> IF a = 0 THEN 0 ELSE c[a - 1]]
    BY <1>1 DEF Aged, Counts
  <2>2. \A a \in 0 .. m : a # 0 => a - 1 \in 0 .. m /\ c[a - 1] \in Nat
    BY <1>2
  <2>. QED
    BY <2>1, <2>2 DEF Counts
<1>4. Total(d, 0) = 0
  BY <1>3, TotalStep
<1>. DEFINE G == {n \in 0 .. m : n # 0 => Total(d, n) = Total(c, n - 1)}
<1>5. 0 \in G
  OBVIOUS
<1>6. ASSUME NEW n \in 1 .. m, n - 1 \in G
      PROVE  n \in G
  <2>1. Total(d, n) = c[n - 1] + Total(d, n - 1) /\ n \in 0 .. m /\ n - 1 \in 0 .. m
    BY <1>3, TotalStep
  <2>2. Total(c, n - 1) = c[n - 1] + IF n - 1 = 0 THEN 0 ELSE Total(c, n - 1 - 1)
    BY <2>1, TotalStep
  <2>. QED
    BY <1>2, <1>4, <1>6, <2>1, <2>2
<1>. HIDE DEF G
<1>7. 0 .. m \subseteq G
  BY <1>5, <1>6, UpTo
<1>. QED
  BY <1>1, <1>3, <1>4, <1>7 DEF G

(* Nothing counted, nothing in the total. *)
LEMMA TotalOfNothing ==
  \A m \in Nat : \A c \in Counts(m) : \A n \in 0 .. m : (\A a \in 0 .. n : c[a] = 0) => Total(c, n) = 0
<1>. SUFFICES ASSUME NEW m \in Nat, NEW c \in Counts(m)
              PROVE  \A n \in 0 .. m : (\A a \in 0 .. n : c[a] = 0) => Total(c, n) = 0
  OBVIOUS
<1>. DEFINE G == {n \in 0 .. m : (\A a \in 0 .. n : c[a] = 0) => Total(c, n) = 0}
<1>1. 0 \in G
  BY TotalStep
<1>2. ASSUME NEW n \in 1 .. m, n - 1 \in G
      PROVE  n \in G
  <2>1. Total(c, n) = c[n] + Total(c, n - 1) /\ n \in 0 .. m
    BY TotalStep
  <2>2. \A a \in 0 .. n - 1 : a \in 0 .. n
    OBVIOUS
  <2>. QED
    BY <1>2, <2>1, <2>2
<1>. HIDE DEF G
<1>3. 0 .. m \subseteq G
  BY <1>1, <1>2, UpTo
<1>. QED
  BY <1>3 DEF G

-----------------------------------------------------------------------------
(* Beyond the types: the last sweep is not in the future. *)
Inv == TypeOK /\ lastSweep <= now /\ WindowsSwept

(* What a guard does to the limiter: it sweeps, and spends slots of windows *)
(* that are not full.                                                       *)
Spends(spent) ==
  /\ \A k \in spent : ~Full(WindowsAfterSweep[k])
  /\ lastSweep' = IF SweepDue THEN now ELSE lastSweep
  /\ locks' = LocksAfterSweep
  /\ windows' = [k \in WindowKey |-> IF k \in spent THEN Hit(WindowsAfterSweep[k])
                                     ELSE WindowsAfterSweep[k]]
  /\ hits' = [k \in WindowKey |-> IF k \in spent THEN [hits[k] EXCEPT ![0] = @ + 1] ELSE hits[k]]

(* The keys that are hit are not full. *)
LEMMA HitKeysNotFull ==
  \A keys : DOMAIN keys \subseteq Nat \ {0} =>
    \A k \in HitKeys(keys) : ~Full(WindowsAfterSweep[k])
BY DEF HitKeys

(* Both guards are of that form. *)
LEMMA GuardsSpend ==
  \A r \in Request : \A addr \in Ip \cup {None} : \A h \in Handle :
    TypeOK /\ (Challenge(r, addr, h) \/ Token(r, addr, h)) =>
      /\ \E spent : Spends(spent)
      /\ now' = now /\ failed' = failed
      /\ req' \in [Request -> [pc : {"idle", "challenge", "token"},
                               ip : Ip \cup {None}, handle : Handle \cup {None}]]
<1>. SUFFICES ASSUME NEW r \in Request, NEW addr \in Ip \cup {None}, NEW h \in Handle, TypeOK,
                     Challenge(r, addr, h) \/ Token(r, addr, h)
              PROVE  /\ \E spent : Spends(spent)
                     /\ now' = now /\ failed' = failed
                     /\ req' \in [Request -> [pc : {"idle", "challenge", "token"},
                                              ip : Ip \cup {None}, handle : Handle \cup {None}]]
  OBVIOUS
<1>1. PICK subjects, keys, q :
        /\ DOMAIN keys \subseteq Nat \ {0}
        /\ q \in [pc : {"idle", "challenge", "token"},
                  ip : Ip \cup {None}, handle : Handle \cup {None}]
        /\ Guard(subjects, keys, req' = [req EXCEPT ![r] = q], UNCHANGED req)
  <2>1. CASE Challenge(r, addr, h)
    <3>1. PICK q : q = [pc |-> "challenge", ip |-> addr, handle |-> h]
      OBVIOUS
    <3>2. PICK keys : keys = IF addr = None THEN << <<"ch", h>> >> ELSE << <<"ch", addr>>, <<"ch", h>> >>
      OBVIOUS
    <3>3. DOMAIN keys \subseteq Nat \ {0}
      BY <3>2
    <3>4. Guard(FailKeys(addr, h), keys, req' = [req EXCEPT ![r] = q], UNCHANGED req)
      BY <2>1, <3>1, <3>2 DEF Challenge, Guard
    <3>. QED
      BY <3>1, <3>3, <3>4
  <2>2. CASE Token(r, addr, h)
    <3>1. PICK q : q = [pc |-> "token", ip |-> addr, handle |-> h]
      OBVIOUS
    <3>2. PICK keys : keys = IF addr = None THEN << >> ELSE << <<"tok", addr>> >>
      OBVIOUS
    <3>3. DOMAIN keys \subseteq Nat \ {0}
      BY <3>2
    <3>4. Guard(FailKeys(addr, None), keys, req' = [req EXCEPT ![r] = q], UNCHANGED req)
      BY <2>2, <3>1, <3>2 DEF Token, Guard
    <3>. QED
      BY <3>1, <3>3, <3>4
  <2>. QED
    BY <2>1, <2>2
<1>2. PICK spent : spent = IF Locked(subjects) THEN {} ELSE HitKeys(keys)
  OBVIOUS
<1>3. Spends(spent)
  <2>1. \A k \in spent : ~Full(WindowsAfterSweep[k])
    BY <1>1, <1>2, HitKeysNotFull
  <2>. QED
    BY <1>1, <1>2, <2>1 DEF Guard, Spends
<1>4. req' \in [Request -> [pc : {"idle", "challenge", "token"},
                            ip : Ip \cup {None}, handle : Handle \cup {None}]]
  BY <1>1 DEF Guard, TypeOK
<1>. QED
  BY <1>3, <1>4 DEF Challenge, Token

-----------------------------------------------------------------------------
(* A sweep leaves windows and locks of their types, and no window whose end *)
(* is not after the time of the last sweep.                                 *)
LEMMA SweepKeeps ==
  Inv =>
    \A k \in WindowKey :
      /\ WindowsAfterSweep[k] \in [count : 0 .. Limit, resetAt : Later]
      /\ WindowsAfterSweep[k] # NoWindow =>
           WindowsAfterSweep[k].resetAt > IF SweepDue THEN now ELSE lastSweep
<1>. SUFFICES ASSUME Inv, NEW k \in WindowKey
              PROVE  /\ WindowsAfterSweep[k] \in [count : 0 .. Limit, resetAt : Later]
                     /\ WindowsAfterSweep[k] # NoWindow =>
                          WindowsAfterSweep[k].resetAt > IF SweepDue THEN now ELSE lastSweep
  OBVIOUS
<1>1. /\ windows[k] \in [count : 0 .. Limit, resetAt : Later]
      /\ now \in Nat /\ lastSweep \in Nat /\ windows[k].resetAt \in Nat
  BY Constants DEF Inv, TypeOK, Time, Later
<1>2. NoWindow \in [count : 0 .. Limit, resetAt : Later]
  BY Constants DEF NoWindow, Later
<1>3. windows[k] # NoWindow => windows[k].resetAt > lastSweep
  BY DEF Inv, WindowsSwept
<1>4. WindowsAfterSweep[k] = IF SweepDue /\ now >= windows[k].resetAt THEN NoWindow ELSE windows[k]
  BY DEF WindowsAfterSweep
<1>5. CASE SweepDue /\ now >= windows[k].resetAt
  BY <1>2, <1>4, <1>5
<1>6. CASE ~(SweepDue /\ now >= windows[k].resetAt)
  BY <1>1, <1>3, <1>4, <1>6
<1>. QED
  BY <1>5, <1>6

(* A hit on a window that is not full. *)
LEMMA HitKeeps ==
  \A w \in [count : 0 .. Limit, resetAt : Later] :
    Inv /\ ~Full(w) =>
      /\ Hit(w) \in [count : 0 .. Limit, resetAt : Later]
      /\ Hit(w).resetAt > now
<1>. SUFFICES ASSUME NEW w \in [count : 0 .. Limit, resetAt : Later], Inv, ~Full(w)
              PROVE  /\ Hit(w) \in [count : 0 .. Limit, resetAt : Later]
                     /\ Hit(w).resetAt > now
  OBVIOUS
<1>1. now \in 0 .. MaxTime /\ w.resetAt \in Later /\ w.resetAt \in Nat /\ w.count \in 0 .. Limit
  BY Constants DEF Inv, TypeOK, Time, Later
<1>2. CASE now >= w.resetAt
  <2>1. now + Window \in Later /\ now + Window > now /\ 1 \in 0 .. Limit
    BY <1>1, Constants DEF Later
  <2>. QED
    BY <1>2, <2>1 DEF Hit
<1>3. CASE ~(now >= w.resetAt)
  <2>1. w.count + 1 \in 0 .. Limit
    BY <1>1, <1>3, Constants DEF Full
  <2>2. Hit(w) = [w EXCEPT !.count = @ + 1]
    BY <1>3 DEF Hit
  <2>3. Hit(w).resetAt = w.resetAt /\ Hit(w) \in [count : 0 .. Limit, resetAt : Later]
    BY <2>1, <2>2
  <2>. QED
    BY <1>1, <1>3, <2>3
<1>. QED
  BY <1>2, <1>3

(* A guard keeps the invariant. *)
LEMMA GuardSteps ==
  \A r \in Request : \A addr \in Ip \cup {None} : \A h \in Handle :
    Inv /\ (Challenge(r, addr, h) \/ Token(r, addr, h)) => Inv'
<1>. SUFFICES ASSUME NEW r \in Request, NEW addr \in Ip \cup {None}, NEW h \in Handle, Inv,
                     Challenge(r, addr, h) \/ Token(r, addr, h)
              PROVE  Inv'
  OBVIOUS
<1>1. TypeOK /\ now \in Nat /\ lastSweep \in Nat /\ now \in Time
  BY Constants DEF Inv, TypeOK, Time
<1>2. PICK spent : Spends(spent)
  BY <1>1, GuardsSpend
<1>3. /\ now' = now /\ failed' = failed
      /\ req' \in [Request -> [pc : {"idle", "challenge", "token"},
                               ip : Ip \cup {None}, handle : Handle \cup {None}]]
  BY <1>1, GuardsSpend
<1>4. lastSweep' \in Time /\ lastSweep' <= now' /\ lastSweep' = IF SweepDue THEN now ELSE lastSweep
  BY <1>1, <1>2, <1>3 DEF Spends, Inv, TypeOK
<1>5. ASSUME NEW k \in WindowKey
      PROVE  /\ windows'[k] \in [count : 0 .. Limit, resetAt : Later]
             /\ windows'[k] # NoWindow => windows'[k].resetAt > lastSweep'
  <2>1. PICK w \in [count : 0 .. Limit, resetAt : Later] :
               /\ w = WindowsAfterSweep[k]
               /\ w # NoWindow => w.resetAt > IF SweepDue THEN now ELSE lastSweep
    BY SweepKeeps
  <2>2. CASE k \in spent
    <3>1. windows'[k] = Hit(w) /\ ~Full(w)
      BY <1>2, <2>1, <2>2 DEF Spends
    <3>2. Hit(w) \in [count : 0 .. Limit, resetAt : Later] /\ Hit(w).resetAt > now
      BY <3>1, HitKeeps
    <3>3. Hit(w).resetAt \in Nat
      BY <3>2, Constants DEF Later
    <3>. QED
      BY <1>1, <1>3, <1>4, <3>1, <3>2, <3>3
  <2>3. CASE k \notin spent
    BY <1>2, <1>4, <2>1, <2>3 DEF Spends
  <2>. QED
    BY <2>2, <2>3
<1>6. windows' \in [WindowKey -> [count : 0 .. Limit, resetAt : Later]]
  BY <1>2, <1>5 DEF Spends
<1>7. locks' \in [Subject -> [fails : 0 .. MaxFails, until : Later]]
  <2>1. NoLock \in [fails : 0 .. MaxFails, until : Later]
    BY Constants DEF NoLock, Later
  <2>. QED
    BY <1>1, <1>2, <2>1 DEF Spends, LocksAfterSweep, TypeOK
<1>8. hits' \in [WindowKey -> [0 .. Window - 1 -> Nat]]
  <2>1. ASSUME NEW k \in WindowKey
        PROVE  hits'[k] \in [0 .. Window - 1 -> Nat]
    <3>1. hits[k] \in [0 .. Window - 1 -> Nat] /\ 0 \in 0 .. Window - 1
      BY <1>1, Constants DEF TypeOK
    <3>2. [hits[k] EXCEPT ![0] = @ + 1] \in [0 .. Window - 1 -> Nat]
      BY <3>1, Constants, TotalBumped DEF Counts
    <3>. QED
      BY <1>2, <3>1, <3>2 DEF Spends
  <2>. QED
    BY <1>2, <2>1 DEF Spends
<1>. QED
  BY <1>1, <1>3, <1>4, <1>5, <1>6, <1>7, <1>8 DEF Inv, TypeOK, WindowsSwept

-----------------------------------------------------------------------------
(* The outcome of a request is recorded, or it has none. *)
LEMMA OutcomeSteps == \A r \in Request : Inv /\ (Fail(r) \/ Succeed(r) \/ End(r)) => Inv'
<1>. SUFFICES ASSUME NEW r \in Request, Inv, Fail(r) \/ Succeed(r) \/ End(r)
              PROVE  Inv'
  OBVIOUS
<1>1. /\ now' = now /\ windows' = windows /\ lastSweep' = lastSweep /\ hits' = hits
      /\ req' = [req EXCEPT ![r] = Idle]
  BY DEF Fail, Succeed, End
<1>2. TypeOK
  BY DEF Inv
<1>3. req' \in [Request -> [pc : {"idle", "challenge", "token"},
                            ip : Ip \cup {None}, handle : Handle \cup {None}]]
  BY <1>1, <1>2 DEF TypeOK, Idle
<1>4. /\ NoLock \in [fails : 0 .. MaxFails, until : Later]
      /\ NeverFailed \in [0 .. IdleMs + MaxMs -> Nat]
      /\ 0 \in 0 .. IdleMs + MaxMs
  BY Constants DEF NoLock, Later, NeverFailed
<1>5. locks' \in [Subject -> [fails : 0 .. MaxFails, until : Later]]
  <2>1. CASE Fail(r)
    <3>1. ASSUME NEW s \in Subject, locks[s].fails < MaxFails
          PROVE  LockAfter(locks[s]) \in [fails : 0 .. MaxFails, until : Later]
      <4>1. /\ locks[s] \in [fails : 0 .. MaxFails, until : Later]
            /\ locks[s].fails \in Nat /\ now \in 0 .. MaxTime
        BY <1>2, Constants DEF TypeOK, Time
      <4>2. locks[s].fails + 1 \in 0 .. MaxFails
        BY <3>1, <4>1, Constants
      <4>3. CASE locks[s].fails + 1 < Threshold
        BY <4>1, <4>2, <4>3 DEF LockAfter
      <4>4. CASE ~(locks[s].fails + 1 < Threshold)
        <5>1. Lockout(locks[s].fails + 1) \in 0 .. MaxMs
          BY <4>1, <4>4, LockoutsGrow, Constants
        <5>2. now + Lockout(locks[s].fails + 1) \in Later
          BY <4>1, <5>1, Constants DEF Later
        <5>. QED
          BY <4>2, <4>4, <5>2 DEF LockAfter
      <4>. QED
        BY <4>3, <4>4
    <3>. QED
      BY <1>2, <2>1, <3>1 DEF Fail, TypeOK
  <2>2. CASE Succeed(r)
    BY <1>2, <1>4, <2>2 DEF Succeed, TypeOK
  <2>3. CASE End(r)
    BY <1>2, <2>3 DEF End, TypeOK
  <2>. QED
    BY <2>1, <2>2, <2>3
<1>6. failed' \in [Subject -> [0 .. IdleMs + MaxMs -> Nat]]
  <2>1. CASE Fail(r)
    <3>1. ASSUME NEW s \in Subject
          PROVE  [failed[s] EXCEPT ![0] = @ + 1] \in [0 .. IdleMs + MaxMs -> Nat]
      <4>1. failed[s] \in [0 .. IdleMs + MaxMs -> Nat]
        BY <1>2 DEF TypeOK
      <4>2. PICK m \in Nat : m = IdleMs + MaxMs
        BY Constants
      <4>3. failed[s] \in Counts(m)
        BY <4>1, <4>2 DEF Counts
      <4>4. [failed[s] EXCEPT ![0] = @ + 1] \in Counts(m)
        BY <4>2, <4>3, TotalBumped
      <4>. QED
        BY <4>2, <4>4 DEF Counts
    <3>. QED
      BY <1>2, <2>1, <3>1 DEF Fail, TypeOK
  <2>2. CASE Succeed(r)
    BY <1>2, <1>4, <2>2 DEF Succeed, TypeOK
  <2>3. CASE End(r)
    BY <1>2, <2>3 DEF End, TypeOK
  <2>. QED
    BY <2>1, <2>2, <2>3
<1>. QED
  BY <1>1, <1>2, <1>3, <1>5, <1>6 DEF Inv, TypeOK, WindowsSwept

(* Time passes. *)
LEMMA TickStep == Inv /\ Tick => Inv'
<1>. SUFFICES ASSUME Inv, Tick
              PROVE  Inv'
  OBVIOUS
<1>1. TypeOK /\ Window - 1 \in Nat /\ IdleMs + MaxMs \in Nat
  BY Constants DEF Inv
<1>2. now' \in Time /\ lastSweep' = lastSweep /\ lastSweep' <= now'
  BY <1>1, Constants DEF Tick, Inv, TypeOK, Time
<1>3. hits' \in [WindowKey -> [0 .. Window - 1 -> Nat]]
  BY <1>1, TotalAged DEF Tick, TypeOK, Counts
<1>4. failed' \in [Subject -> [0 .. IdleMs + MaxMs -> Nat]]
  BY <1>1, TotalAged DEF Tick, TypeOK, Counts
<1>. QED
  BY <1>1, <1>2, <1>3, <1>4 DEF Tick, Inv, TypeOK, WindowsSwept

(* Initially nothing is counted and the first sweep is due. *)
LEMMA InitInv == Init => Inv
<1>. SUFFICES ASSUME Init
              PROVE  Inv
  OBVIOUS
<1>1. /\ NoWindow \in [count : 0 .. Limit, resetAt : Later]
      /\ NoLock \in [fails : 0 .. MaxFails, until : Later]
      /\ NeverFailed \in [0 .. IdleMs + MaxMs -> Nat]
      /\ now \in Time /\ lastSweep \in Time /\ lastSweep <= now
  BY Constants DEF Init, NoWindow, NoLock, NeverFailed, Later, Time
<1>. QED
  BY <1>1 DEF Init, Inv, TypeOK, WindowsSwept, Idle

(* The invariant is inductive. *)
LEMMA NextInv == Inv /\ [Next]_vars => Inv'
<1>. SUFFICES ASSUME Inv, [Next]_vars
              PROVE  Inv'
  OBVIOUS
<1>1. CASE UNCHANGED vars
  BY <1>1 DEF vars, Inv, TypeOK, WindowsSwept
<1>2. CASE Next
  BY <1>2, GuardSteps, OutcomeSteps, TickStep DEF Next
<1>. QED
  BY <1>1, <1>2

-----------------------------------------------------------------------------
(* What a window knows of the slots its key got.  Once it is over, its      *)
(* first hit is out of the stretch; while it lasts, what came since it      *)
(* began is what it counts, and all before is less than a limit.            *)
BurstOf(w, c, t) ==
  IF t >= w.resetAt
    THEN c[0] = 0 /\ Total(c, Window - 1) <= Limit - 1
    ELSE \E age \in 0 .. Window - 1 :
           /\ w.resetAt = t + Window - age
           /\ c[age] > 0 /\ Total(c, age) <= w.count
           /\ Total(c, Window - 1) <= Total(c, age) + Limit - 1

WindowRow == [count : 0 .. Limit, resetAt : Later]

(* In any state of a window, the bound holds. *)
LEMMA BurstIsBounded ==
  \A w \in WindowRow : \A c \in Counts(Window - 1) : \A t \in Nat :
    BurstOf(w, c, t) => Total(c, Window - 1) <= 2 * Limit - 1
<1>. SUFFICES ASSUME NEW w \in WindowRow, NEW c \in Counts(Window - 1), NEW t \in Nat,
                     BurstOf(w, c, t)
              PROVE  Total(c, Window - 1) <= 2 * Limit - 1
  OBVIOUS
<1>1. Window - 1 \in Nat /\ w.count \in 0 .. Limit /\ Limit \in Nat \ {0}
  BY Constants DEF WindowRow
<1>2. \A n \in 0 .. Window - 1 : Total(c, n) \in Nat
  BY <1>1, TotalIsNat
<1>. QED
  BY <1>1, <1>2 DEF BurstOf

(* A swept window was over. *)
LEMMA BurstSwept ==
  \A w, c : \A t \in Nat : BurstOf(w, c, t) /\ t >= w.resetAt => BurstOf(NoWindow, c, t)
BY DEF BurstOf, NoWindow

(* A hit begins a window or is counted by the one that lasts. *)
LEMMA BurstHit ==
  \A w \in WindowRow : \A c \in Counts(Window - 1) :
    now \in Nat /\ BurstOf(w, c, now) => BurstOf(Hit(w), [c EXCEPT ![0] = @ + 1], now)
<1>. SUFFICES ASSUME NEW w \in WindowRow, NEW c \in Counts(Window - 1), now \in Nat,
                     BurstOf(w, c, now)
              PROVE  BurstOf(Hit(w), [c EXCEPT ![0] = @ + 1], now)
  OBVIOUS
<1>1. /\ Window - 1 \in Nat /\ Window \in Nat /\ Limit \in Nat
      /\ w.count \in Nat /\ w.resetAt \in Nat
  BY Constants DEF WindowRow, Later
<1>2. \A n \in 0 .. Window - 1 : c[n] \in Nat /\ Total(c, n) \in Nat
  BY <1>1, TotalIsNat
<1>3. PICK d : d = [c EXCEPT ![0] = @ + 1]
  OBVIOUS
<1>4. \A n \in 0 .. Window - 1 : Total(d, n) = Total(c, n) + 1
  BY <1>1, <1>3, TotalBumped
<1>5. d[0] = c[0] + 1 /\ \A n \in 1 .. Window - 1 : d[n] = c[n]
  BY <1>1, <1>3 DEF Counts
<1>6. CASE now >= w.resetAt
  <2>1. c[0] = 0 /\ Total(c, Window - 1) <= Limit - 1 /\ Total(c, 0) = 0
    BY <1>1, <1>6, TotalStep DEF BurstOf
  <2>2. Hit(w).count = 1 /\ Hit(w).resetAt = now + Window - 0
    BY <1>1, <1>6 DEF Hit
  <2>3. ~(now >= now + Window - 0) /\ 0 \in 0 .. Window - 1 /\ Window - 1 \in 0 .. Window - 1
    BY <1>1
  <2>4. d[0] > 0 /\ Total(d, 0) <= 1 /\ Total(d, Window - 1) <= Total(d, 0) + Limit - 1
    BY <1>1, <1>2, <1>4, <1>5, <2>1, <2>3
  <2>. QED
    BY <1>3, <2>2, <2>3, <2>4 DEF BurstOf
<1>7. CASE ~(now >= w.resetAt)
  <2>1. Hit(w).count = w.count + 1 /\ Hit(w).resetAt = w.resetAt
    BY <1>7 DEF Hit, WindowRow
  <2>2. PICK age \in 0 .. Window - 1 :
          /\ w.resetAt = now + Window - age
          /\ c[age] > 0 /\ Total(c, age) <= w.count
          /\ Total(c, Window - 1) <= Total(c, age) + Limit - 1
    BY <1>7 DEF BurstOf
  <2>3. d[age] > 0
    BY <1>2, <1>5, <2>2
  <2>4. Total(d, age) <= w.count + 1 /\ Total(d, Window - 1) <= Total(d, age) + Limit - 1
    BY <1>1, <1>2, <1>4, <2>2
  <2>. QED
    BY <1>3, <1>7, <2>1, <2>2, <2>3, <2>4 DEF BurstOf
<1>. QED
  BY <1>6, <1>7

(* A tick: what came first in the window leaves the stretch when it ends. *)
LEMMA BurstAges ==
  \A w \in WindowRow : \A c \in Counts(Window - 1) : \A t \in Nat :
    BurstOf(w, c, t) => BurstOf(w, Aged(c), t + 1)
<1>. SUFFICES ASSUME NEW w \in WindowRow, NEW c \in Counts(Window - 1), NEW t \in Nat,
                     BurstOf(w, c, t)
              PROVE  BurstOf(w, Aged(c), t + 1)
  OBVIOUS
<1>1. /\ Window - 1 \in Nat /\ Window \in Nat /\ Limit \in Nat \ {0}
      /\ w.count \in 0 .. Limit /\ w.resetAt \in Nat
  BY Constants DEF WindowRow, Later
<1>2. \A n \in 0 .. Window - 1 : c[n] \in Nat /\ Total(c, n) \in Nat
  BY <1>1, TotalIsNat
<1>3. PICK d : d = Aged(c)
  OBVIOUS
<1>4. /\ d[0] = 0 /\ Total(d, 0) = 0
      /\ \A n \in 1 .. Window - 1 : d[n] = c[n - 1] /\ Total(d, n) = Total(c, n - 1)
  BY <1>1, <1>3, TotalAged
<1>5. Total(d, Window - 1) + c[Window - 1] = Total(c, Window - 1)
  <2>1. Total(c, Window - 1) = c[Window - 1] + IF Window - 1 = 0 THEN 0 ELSE Total(c, Window - 1 - 1)
    BY <1>1, TotalStep
  <2>2. CASE Window - 1 = 0
    BY <1>2, <1>4, <2>1, <2>2
  <2>3. CASE Window - 1 # 0
    <3>1. Total(d, Window - 1) = Total(c, Window - 1 - 1)
      BY <1>1, <1>4, <2>3
    <3>2. Total(c, Window - 1 - 1) \in Nat /\ c[Window - 1] \in Nat
      BY <1>1, <1>2, <2>3
    <3>. QED
      BY <2>1, <2>3, <3>1, <3>2
  <2>. QED
    BY <2>2, <2>3
<1>6. c[Window - 1] \in Nat /\ Total(c, Window - 1) \in Nat /\ Total(d, Window - 1) \in Int
      /\ Total(d, Window - 1) <= Total(c, Window - 1)
  <2>1. c[Window - 1] \in Nat /\ Total(c, Window - 1) \in Nat
    BY <1>1, <1>2
  <2>2. Total(d, Window - 1) \in Nat
    BY <1>1, <1>3, TotalAged, TotalIsNat
  <2>. QED
    BY <1>5, <2>1, <2>2
<1>7. CASE t >= w.resetAt
  <2>1. Total(c, Window - 1) <= Limit - 1
    BY <1>7 DEF BurstOf
  <2>2. Total(d, Window - 1) <= Limit - 1 /\ t + 1 >= w.resetAt
    BY <1>1, <1>6, <1>7, <2>1
  <2>. QED
    BY <1>3, <1>4, <2>2 DEF BurstOf
<1>8. CASE ~(t >= w.resetAt)
  <2>1. PICK age \in 0 .. Window - 1 :
          /\ w.resetAt = t + Window - age
          /\ c[age] > 0 /\ Total(c, age) <= w.count
          /\ Total(c, Window - 1) <= Total(c, age) + Limit - 1
    BY <1>8 DEF BurstOf
  <2>2. CASE age = Window - 1
    <3>1. t + 1 >= w.resetAt
      BY <1>1, <2>1, <2>2
    <3>2. Total(d, Window - 1) <= Limit - 1
      BY <1>1, <1>5, <1>6, <2>1, <2>2
    <3>. QED
      BY <1>3, <1>4, <3>1, <3>2 DEF BurstOf
  <2>3. CASE age # Window - 1
    <3>1. age + 1 \in 1 .. Window - 1 /\ age + 1 \in 0 .. Window - 1 /\ age + 1 - 1 = age
      BY <1>1, <2>3
    <3>2. w.resetAt = t + 1 + Window - (age + 1) /\ ~(t + 1 >= w.resetAt)
      BY <1>1, <2>1, <3>1
    <3>3. d[age + 1] = c[age] /\ Total(d, age + 1) = Total(c, age)
      BY <1>4, <3>1
    <3>4. Total(c, age) \in Nat
      BY <1>2
    <3>5. Total(d, Window - 1) <= Total(d, age + 1) + Limit - 1
      BY <1>1, <1>6, <2>1, <3>3, <3>4
    <3>. QED
      BY <1>3, <2>1, <3>1, <3>2, <3>3, <3>5 DEF BurstOf
  <2>. QED
    BY <2>2, <2>3
<1>. QED
  BY <1>7, <1>8

-----------------------------------------------------------------------------
(* What a lock knows of the failures of its subject: it counts the recent   *)
(* ones, and past the threshold it lasts a lockout from the last one.       *)
First(c, a) == c[a] > 0 /\ \A b \in 0 .. a - 1 : c[b] = 0

BackoffOf(l, c, t) ==
  /\ Total(c, IdleMs) <= l.fails
  /\ l.fails < Threshold => l.until = 0
  /\ l.fails >= Threshold =>
       \A a \in 0 .. IdleMs + MaxMs : First(c, a) => l.until + a = t + Lockout(l.fails)

LockRow == [fails : 0 .. MaxFails, until : Later]

(* The fields of a lock are numbers. *)
LEMMA LockRows == \A l \in LockRow : l.fails \in Nat /\ l.until \in Nat
BY Constants DEF LockRow, Later

(* If anything is counted there is a first count. *)
LEMMA FirstExists ==
  \A m \in Nat : \A c \in Counts(m) : \A n \in 0 .. m :
    Total(c, n) # 0 => \E a \in 0 .. n : First(c, a)
<1>. SUFFICES ASSUME NEW m \in Nat, NEW c \in Counts(m), NEW n \in 0 .. m, Total(c, n) # 0
              PROVE  \E a \in 0 .. n : First(c, a)
  OBVIOUS
<1>1. \A a \in 0 .. m : c[a] \in Nat
  BY DEF Counts
<1>. DEFINE S == {a \in 0 .. n : c[a] # 0}
<1>2. S \in SUBSET Nat /\ S # {}
  BY TotalOfNothing
<1>3. PICK a \in S : \A b \in S : a <= b
  BY <1>2, Least
<1>4. a \in 0 .. n /\ a \in 0 .. m /\ c[a] > 0
  BY <1>1, <1>3
<1>5. ASSUME NEW b \in 0 .. a - 1
      PROVE  c[b] = 0
  <2>1. b \in 0 .. n /\ ~(a <= b)
    BY <1>4
  <2>. QED
    BY <1>3, <2>1
<1>. QED
  BY <1>4, <1>5 DEF First

(* There is one first count. *)
LEMMA FirstIsUnique ==
  \A c : \A a \in Nat : \A b \in Nat : First(c, a) /\ First(c, b) => a = b
<1>. SUFFICES ASSUME NEW c, NEW a \in Nat, NEW b \in Nat, First(c, a), First(c, b)
              PROVE  a = b
  OBVIOUS
<1>1. CASE a < b
  <2>1. a \in 0 .. b - 1
    BY <1>1
  <2>. QED
    BY <2>1 DEF First
<1>2. CASE b < a
  <2>1. b \in 0 .. a - 1
    BY <1>2
  <2>. QED
    BY <2>1 DEF First
<1>. QED
  BY <1>1, <1>2

(* Another failure. *)
LEMMA BackoffFails ==
  \A l \in LockRow : \A c \in Counts(IdleMs + MaxMs) :
    now \in Nat /\ BackoffOf(l, c, now) => BackoffOf(LockAfter(l), [c EXCEPT ![0] = @ + 1], now)
<1>. SUFFICES ASSUME NEW l \in LockRow, NEW c \in Counts(IdleMs + MaxMs), now \in Nat,
                     BackoffOf(l, c, now)
              PROVE  BackoffOf(LockAfter(l), [c EXCEPT ![0] = @ + 1], now)
  OBVIOUS
<1>1. IdleMs + MaxMs \in Nat /\ IdleMs \in 0 .. IdleMs + MaxMs /\ 0 \in 0 .. IdleMs + MaxMs
  BY Constants
<1>2. l.fails \in Nat /\ l.until \in Nat
  BY LockRows
<1>3. PICK d : d = [c EXCEPT ![0] = @ + 1]
  OBVIOUS
<1>4. \A n \in 0 .. IdleMs + MaxMs : c[n] \in Nat /\ Total(c, n) \in Nat
  BY <1>1, TotalIsNat
<1>5. d[0] > 0 /\ Total(d, IdleMs) = Total(c, IdleMs) + 1
  <2>1. d[0] = c[0] + 1
    BY <1>1, <1>3 DEF Counts
  <2>2. Total(d, IdleMs) = Total(c, IdleMs) + 1
    BY <1>1, <1>3, TotalBumped
  <2>3. c[0] \in Nat
    BY <1>1, <1>4
  <2>. QED
    BY <2>1, <2>2, <2>3
<1>6. LockAfter(l).fails = l.fails + 1
  BY DEF LockAfter, LockRow
<1>7. Total(d, IdleMs) <= LockAfter(l).fails
  BY <1>1, <1>2, <1>4, <1>5, <1>6 DEF BackoffOf
<1>8. CASE l.fails + 1 < Threshold
  <2>1. LockAfter(l).until = l.until /\ l.until = 0 /\ ~(l.fails + 1 >= Threshold)
    BY <1>2, <1>8, Constants DEF LockAfter, BackoffOf, LockRow
  <2>. QED
    BY <1>3, <1>6, <1>7, <2>1 DEF BackoffOf
<1>9. CASE ~(l.fails + 1 < Threshold)
  <2>1. LockAfter(l).until = now + Lockout(l.fails + 1)
    BY <1>9 DEF LockAfter
  <2>2. Lockout(l.fails + 1) \in Nat
    BY <1>2, <1>9, Constants, LockoutsGrow
  <2>3. ASSUME NEW a \in 0 .. IdleMs + MaxMs, First(d, a)
        PROVE  LockAfter(l).until + a = now + Lockout(LockAfter(l).fails)
    <3>1. a = 0
      <4>1. a # 0 => 0 \in 0 .. a - 1
        BY <1>1
      <4>. QED
        BY <1>5, <2>3, <4>1 DEF First
    <3>. QED
      BY <1>6, <2>1, <2>2, <3>1
  <2>. QED
    BY <1>3, <1>6, <1>7, <1>9, <2>3 DEF BackoffOf
<1>. QED
  BY <1>8, <1>9

(* A success forgets all. *)
LEMMA BackoffForgets == \A t : BackoffOf(NoLock, NeverFailed, t) /\ NeverFailed \in Counts(IdleMs + MaxMs)
<1>1. IdleMs + MaxMs \in Nat /\ IdleMs \in 0 .. IdleMs + MaxMs
  BY Constants
<1>2. NeverFailed \in Counts(IdleMs + MaxMs) /\ \A a \in 0 .. IdleMs + MaxMs : NeverFailed[a] = 0
  BY <1>1 DEF NeverFailed, Counts
<1>3. \A a \in 0 .. IdleMs : a \in 0 .. IdleMs + MaxMs
  BY <1>1, Constants
<1>4. Total(NeverFailed, IdleMs) = 0
  BY <1>1, <1>2, <1>3, TotalOfNothing
<1>. QED
  BY <1>2, <1>4, Constants DEF BackoffOf, NoLock

(* Time passes. *)
LEMMA BackoffAges ==
  \A l \in LockRow : \A c \in Counts(IdleMs + MaxMs) : \A t \in Nat :
    BackoffOf(l, c, t) => BackoffOf(l, Aged(c), t + 1)
<1>. SUFFICES ASSUME NEW l \in LockRow, NEW c \in Counts(IdleMs + MaxMs), NEW t \in Nat,
                     BackoffOf(l, c, t)
              PROVE  BackoffOf(l, Aged(c), t + 1)
  OBVIOUS
<1>1. IdleMs + MaxMs \in Nat /\ IdleMs \in 0 .. IdleMs + MaxMs
  BY Constants
<1>2. l.fails \in Nat /\ l.until \in Nat
  BY LockRows
<1>3. PICK d : d = Aged(c)
  OBVIOUS
<1>4. /\ d[0] = 0 /\ Total(d, 0) = 0
      /\ \A n \in 1 .. IdleMs + MaxMs : d[n] = c[n - 1] /\ Total(d, n) = Total(c, n - 1)
  BY <1>1, <1>3, TotalAged
<1>5. Total(d, IdleMs) <= l.fails
  <2>1. CASE IdleMs = 0
    BY <1>2, <1>4, <2>1
  <2>2. CASE IdleMs # 0
    <3>1. IdleMs \in 1 .. IdleMs + MaxMs /\ IdleMs - 1 \in 0 .. IdleMs + MaxMs
          /\ IdleMs \in IdleMs - 1 .. IdleMs + MaxMs
      BY <2>2, Constants
    <3>2. Total(d, IdleMs) = Total(c, IdleMs - 1)
      BY <1>4, <3>1
    <3>3. Total(c, IdleMs - 1) <= Total(c, IdleMs)
      BY <1>1, <3>1, TotalGrows
    <3>4. Total(c, IdleMs - 1) \in Nat /\ Total(c, IdleMs) \in Nat
      BY <1>1, <3>1, TotalIsNat
    <3>. QED
      BY <1>2, <3>2, <3>3, <3>4 DEF BackoffOf
  <2>. QED
    BY <2>1, <2>2
<1>6. ASSUME l.fails >= Threshold, NEW a \in 0 .. IdleMs + MaxMs, First(d, a)
      PROVE  l.until + a = t + 1 + Lockout(l.fails)
  <2>1. a # 0
    BY <1>4, <1>6 DEF First
  <2>2. a \in 1 .. IdleMs + MaxMs /\ a - 1 \in 0 .. IdleMs + MaxMs
    BY <1>1, <2>1
  <2>3. c[a - 1] > 0
    BY <1>4, <1>6, <2>2 DEF First
  <2>4. ASSUME NEW b \in 0 .. a - 1 - 1
        PROVE  c[b] = 0
    <3>1. b + 1 \in 0 .. a - 1 /\ b + 1 \in 1 .. IdleMs + MaxMs /\ b + 1 - 1 = b
      BY <1>1, <2>2
    <3>. QED
      BY <1>4, <1>6, <3>1 DEF First
  <2>5. First(c, a - 1)
    BY <2>3, <2>4 DEF First
  <2>6. l.until + (a - 1) = t + Lockout(l.fails)
    BY <1>6, <2>2, <2>5 DEF BackoffOf
  <2>7. Lockout(l.fails) \in Nat
    BY <1>2, <1>6, Constants, LockoutsGrow
  <2>. QED
    BY <1>2, <2>2, <2>6, <2>7
<1>. QED
  BY <1>3, <1>5, <1>6 DEF BackoffOf

(* A sweep drops the lock of a subject without recent failures. *)
LEMMA BackoffSwept ==
  \A l \in LockRow : \A c \in Counts(IdleMs + MaxMs) : \A t \in Nat :
    BackoffOf(l, c, t) /\ l.until > 0 /\ t - l.until > IdleMs =>
      Total(c, IdleMs) = 0 /\ BackoffOf(NoLock, c, t)
<1>. SUFFICES ASSUME NEW l \in LockRow, NEW c \in Counts(IdleMs + MaxMs), NEW t \in Nat,
                     BackoffOf(l, c, t), l.until > 0, t - l.until > IdleMs
              PROVE  Total(c, IdleMs) = 0 /\ BackoffOf(NoLock, c, t)
  OBVIOUS
<1>1. IdleMs + MaxMs \in Nat /\ IdleMs \in 0 .. IdleMs + MaxMs /\ IdleMs \in Nat
  BY Constants
<1>2. l.fails \in Nat /\ l.until \in Nat /\ l.fails >= Threshold
  BY LockRows, Constants DEF BackoffOf
<1>3. Lockout(l.fails) \in Nat
  BY <1>2, Constants, LockoutsGrow
<1>4. ASSUME Total(c, IdleMs) # 0
      PROVE  FALSE
  <2>1. PICK a \in 0 .. IdleMs : First(c, a)
    BY <1>1, <1>4, FirstExists
  <2>2. a \in 0 .. IdleMs + MaxMs
    BY Constants
  <2>3. l.until + a = t + Lockout(l.fails)
    BY <1>2, <2>1, <2>2 DEF BackoffOf
  <2>. QED
    BY <1>1, <1>2, <1>3, <2>3
<1>. QED
  BY <1>4, Constants DEF BackoffOf, NoLock

(* Past its lock, a subject has waited. *)
LEMMA BackoffWaited ==
  \A l \in LockRow : \A c \in Counts(IdleMs + MaxMs) : \A t \in Nat :
    BackoffOf(l, c, t) /\ l.until <= t /\ Total(c, IdleMs) >= Threshold =>
      \E a \in 0 .. IdleMs : First(c, a) /\ a >= Lockout(Total(c, IdleMs))
<1>. SUFFICES ASSUME NEW l \in LockRow, NEW c \in Counts(IdleMs + MaxMs), NEW t \in Nat,
                     BackoffOf(l, c, t), l.until <= t, Total(c, IdleMs) >= Threshold
              PROVE  \E a \in 0 .. IdleMs : First(c, a) /\ a >= Lockout(Total(c, IdleMs))
  OBVIOUS
<1>1. IdleMs + MaxMs \in Nat /\ IdleMs \in 0 .. IdleMs + MaxMs
  BY Constants
<1>2. PICK n \in Nat : n = Total(c, IdleMs)
  BY <1>1, TotalIsNat
<1>3. l.fails \in Nat /\ l.until \in Nat /\ l.fails >= Threshold /\ n \in 0 .. l.fails /\ n # 0
  BY <1>2, LockRows, Constants DEF BackoffOf
<1>4. PICK a \in 0 .. IdleMs : First(c, a)
  BY <1>1, <1>2, <1>3, FirstExists
<1>5. a \in 0 .. IdleMs + MaxMs
  BY Constants
<1>6. l.until + a = t + Lockout(l.fails)
  BY <1>3, <1>4, <1>5 DEF BackoffOf
<1>7. Lockout(n) \in 0 .. MaxMs /\ Lockout(l.fails) \in 0 .. MaxMs /\ Lockout(n) <= Lockout(l.fails)
  BY <1>2, <1>3, LockoutsGrow
<1>8. a >= Lockout(n)
  <2>1. \A x, y \in 0 .. MaxMs : l.until + a = t + y /\ x <= y => a >= x
    BY <1>3, Constants
  <2>. QED
    BY <1>6, <1>7, <2>1
<1>. QED
  BY <1>2, <1>4, <1>8

-----------------------------------------------------------------------------
(* Both together, for every key and every subject. *)
Bursts == \A k \in WindowKey : BurstOf(windows[k], hits[k], now)
Backoffs == \A s \in Subject : BackoffOf(locks[s], failed[s], now)

HistInv == Inv /\ Bursts /\ Backoffs

(* The types that the lemmas on windows and locks ask for. *)
LEMMA HistTypes ==
  Inv =>
    /\ now \in Nat
    /\ \A k \in WindowKey : windows[k] \in WindowRow /\ hits[k] \in Counts(Window - 1)
    /\ \A s \in Subject : locks[s] \in LockRow /\ failed[s] \in Counts(IdleMs + MaxMs)
BY Constants DEF Inv, TypeOK, Time, WindowRow, LockRow, Counts

(* A guard sweeps and hits. *)
LEMMA GuardHist ==
  \A r \in Request : \A addr \in Ip \cup {None} : \A h \in Handle :
    HistInv /\ (Challenge(r, addr, h) \/ Token(r, addr, h)) => Bursts' /\ Backoffs'
<1>. SUFFICES ASSUME NEW r \in Request, NEW addr \in Ip \cup {None}, NEW h \in Handle, HistInv,
                     Challenge(r, addr, h) \/ Token(r, addr, h)
              PROVE  Bursts' /\ Backoffs'
  OBVIOUS
<1>1. TypeOK /\ Inv
  BY DEF HistInv, Inv
<1>2. PICK spent : Spends(spent)
  BY <1>1, GuardsSpend
<1>3. now' = now /\ failed' = failed
  BY <1>1, GuardsSpend
<1>4. ASSUME NEW k \in WindowKey
      PROVE  BurstOf(windows'[k], hits'[k], now)
  <2>1. PICK w \in WindowRow : w = WindowsAfterSweep[k]
    BY <1>1, SweepKeeps DEF WindowRow
  <2>2. hits[k] \in Counts(Window - 1) /\ now \in Nat
    BY <1>1, HistTypes
  <2>3. BurstOf(windows[k], hits[k], now)
    BY DEF HistInv, Bursts
  <2>4. w = IF SweepDue /\ now >= windows[k].resetAt THEN NoWindow ELSE windows[k]
    BY <2>1 DEF WindowsAfterSweep
  <2>5. BurstOf(w, hits[k], now)
    BY <2>2, <2>3, <2>4, BurstSwept
  <2>6. CASE k \in spent
    <3>1. windows'[k] = Hit(w) /\ hits'[k] = [hits[k] EXCEPT ![0] = @ + 1]
      BY <1>2, <2>1, <2>6 DEF Spends
    <3>. QED
      BY <2>2, <2>5, <3>1, BurstHit
  <2>7. CASE k \notin spent
    <3>1. windows'[k] = w /\ hits'[k] = hits[k]
      BY <1>2, <2>1, <2>7 DEF Spends
    <3>. QED
      BY <2>5, <3>1
  <2>. QED
    BY <2>6, <2>7
<1>5. ASSUME NEW s \in Subject
      PROVE  BackoffOf(locks'[s], failed[s], now)
  <2>1. locks'[s] = IF SweepDue /\ locks[s].until > 0 /\ now - locks[s].until > IdleMs
                      THEN NoLock ELSE locks[s]
    BY <1>2 DEF Spends, LocksAfterSweep
  <2>2. locks[s] \in LockRow /\ failed[s] \in Counts(IdleMs + MaxMs) /\ now \in Nat
    BY <1>1, HistTypes
  <2>3. BackoffOf(locks[s], failed[s], now)
    BY DEF HistInv, Backoffs
  <2>. QED
    BY <2>1, <2>2, <2>3, BackoffSwept
<1>. QED
  BY <1>3, <1>4, <1>5 DEF Bursts, Backoffs

(* An outcome is recorded or not. *)
LEMMA OutcomeHist ==
  \A r \in Request : HistInv /\ (Fail(r) \/ Succeed(r) \/ End(r)) => Bursts' /\ Backoffs'
<1>. SUFFICES ASSUME NEW r \in Request, HistInv, Fail(r) \/ Succeed(r) \/ End(r)
              PROVE  Bursts' /\ Backoffs'
  OBVIOUS
<1>1. now' = now /\ windows' = windows /\ hits' = hits
  BY DEF Fail, Succeed, End
<1>2. Bursts'
  BY <1>1 DEF HistInv, Bursts
<1>3. ASSUME NEW s \in Subject
      PROVE  BackoffOf(locks'[s], failed'[s], now)
  <2>1. locks[s] \in LockRow /\ failed[s] \in Counts(IdleMs + MaxMs) /\ now \in Nat
    BY HistTypes DEF HistInv
  <2>2. BackoffOf(locks[s], failed[s], now)
    BY DEF HistInv, Backoffs
  <2>3. CASE Fail(r)
    <3>1. \/ locks'[s] = LockAfter(locks[s]) /\ failed'[s] = [failed[s] EXCEPT ![0] = @ + 1]
          \/ locks'[s] = locks[s] /\ failed'[s] = failed[s]
      BY <2>3 DEF Fail
    <3>. QED
      BY <2>1, <2>2, <3>1, BackoffFails
  <2>4. CASE Succeed(r)
    <3>1. \/ locks'[s] = NoLock /\ failed'[s] = NeverFailed
          \/ locks'[s] = locks[s] /\ failed'[s] = failed[s]
      BY <2>4 DEF Succeed
    <3>. QED
      BY <2>2, <3>1, BackoffForgets
  <2>5. CASE End(r)
    BY <2>2, <2>5 DEF End
  <2>. QED
    BY <2>3, <2>4, <2>5
<1>. QED
  BY <1>1, <1>2, <1>3 DEF Backoffs

(* Time passes for the history too. *)
LEMMA TickHist == HistInv /\ Tick => Bursts' /\ Backoffs'
<1>. SUFFICES ASSUME HistInv, Tick
              PROVE  Bursts' /\ Backoffs'
  OBVIOUS
<1>1. now \in Nat /\ now' = now + 1 /\ windows' = windows /\ locks' = locks
  BY HistTypes DEF HistInv, Tick
<1>2. ASSUME NEW k \in WindowKey
      PROVE  BurstOf(windows[k], Aged(hits[k]), now + 1)
  <2>1. windows[k] \in WindowRow /\ hits[k] \in Counts(Window - 1) /\ BurstOf(windows[k], hits[k], now)
    BY HistTypes DEF HistInv, Bursts
  <2>. QED
    BY <1>1, <2>1, BurstAges
<1>3. ASSUME NEW s \in Subject
      PROVE  BackoffOf(locks[s], Aged(failed[s]), now + 1)
  <2>1. /\ locks[s] \in LockRow /\ failed[s] \in Counts(IdleMs + MaxMs)
        /\ BackoffOf(locks[s], failed[s], now)
    BY HistTypes DEF HistInv, Backoffs
  <2>. QED
    BY <1>1, <2>1, BackoffAges
<1>4. (\A k \in WindowKey : hits'[k] = Aged(hits[k])) /\ \A s \in Subject : failed'[s] = Aged(failed[s])
  BY DEF Tick
<1>. QED
  BY <1>1, <1>2, <1>3, <1>4 DEF Bursts, Backoffs

(* Initially nothing came and nothing failed. *)
LEMMA InitHist == Init => HistInv
<1>. SUFFICES ASSUME Init
              PROVE  HistInv
  OBVIOUS
<1>1. Inv
  BY InitInv
<1>2. ASSUME NEW k \in WindowKey
      PROVE  BurstOf(windows[k], hits[k], now)
  <2>1. Window - 1 \in Nat /\ hits[k] \in Counts(Window - 1)
        /\ \A a \in 0 .. Window - 1 : hits[k][a] = 0
    BY Constants DEF Init, Counts
  <2>2. Total(hits[k], Window - 1) = 0
    BY <2>1, TotalOfNothing
  <2>. QED
    BY <2>1, <2>2, Constants DEF Init, NoWindow, BurstOf
<1>3. Backoffs
  BY BackoffForgets DEF Init, Backoffs
<1>. QED
  BY <1>1, <1>2, <1>3 DEF HistInv, Bursts

(* With the history, the invariant is inductive too. *)
LEMMA NextHist == HistInv /\ [Next]_vars => HistInv'
<1>. SUFFICES ASSUME HistInv, [Next]_vars
              PROVE  HistInv'
  OBVIOUS
<1>1. Inv'
  BY NextInv DEF HistInv
<1>2. CASE UNCHANGED vars
  BY <1>1, <1>2 DEF vars, HistInv, Bursts, Backoffs
<1>3. CASE Next
  <2>1. Bursts' /\ Backoffs'
    BY <1>3, GuardHist, OutcomeHist, TickHist DEF Next
  <2>. QED
    BY <1>1, <2>1 DEF HistInv
<1>. QED
  BY <1>2, <1>3

(* A guard admits no subject that is locked: each has waited out the        *)
(* backoff of its recent failures.                                          *)
LEMMA AdmissionWaits ==
  \A subjects \in SUBSET Subject :
    HistInv /\ ~Locked(subjects) =>
      \A s \in subjects : Recent(s) >= Threshold => SinceFailed(s) >= Lockout(Recent(s))
<1>. SUFFICES ASSUME NEW subjects \in SUBSET Subject, HistInv, ~Locked(subjects),
                     NEW s \in subjects, Recent(s) >= Threshold
              PROVE  SinceFailed(s) >= Lockout(Recent(s))
  OBVIOUS
<1>1. /\ locks[s] \in LockRow /\ failed[s] \in Counts(IdleMs + MaxMs) /\ now \in Nat
      /\ BackoffOf(locks[s], failed[s], now)
  BY HistTypes DEF HistInv, Backoffs
<1>2. Total(failed[s], IdleMs) >= Threshold
  BY DEF Recent
<1>3. ~(locks[s].until > 0 /\ now - locks[s].until > IdleMs)
  <2>1. ~(0 >= Threshold)
    BY Constants
  <2>. QED
    BY <1>1, <1>2, <2>1, BackoffSwept
<1>4. locks[s].until <= now
  <2>1. LocksAfterSweep[s] = locks[s]
    BY <1>3 DEF LocksAfterSweep
  <2>2. ~(LocksAfterSweep[s].until > now)
    BY DEF Locked
  <2>. QED
    BY <1>1, <2>1, <2>2, LockRows
<1>5. PICK a \in 0 .. IdleMs : First(failed[s], a) /\ a >= Lockout(Total(failed[s], IdleMs))
  BY <1>1, <1>2, <1>4, BackoffWaited
<1>6. DOMAIN failed[s] = 0 .. IdleMs + MaxMs /\ a \in 0 .. IdleMs + MaxMs
  BY <1>1, Constants DEF Counts
<1>7. SinceFailed(s) \in 0 .. IdleMs + MaxMs /\ First(failed[s], SinceFailed(s))
  BY <1>5, <1>6 DEF SinceFailed, First
<1>8. SinceFailed(s) = a
  <2>1. SinceFailed(s) \in Nat /\ a \in Nat
    BY <1>7
  <2>. QED
    BY <1>5, <1>7, <2>1, FirstIsUnique
<1>. QED
  BY <1>5, <1>8 DEF Recent

(* A request that is admitted was not locked. *)
LEMMA AdmittedUnlocked ==
  \A r \in Request : \A addr \in Ip \cup {None} : \A h \in Handle :
    TypeOK /\ req'[r] # req[r] =>
      /\ Challenge(r, addr, h) => /\ ~Locked(FailKeys(addr, h))
                                  /\ req'[r] = [pc |-> "challenge", ip |-> addr, handle |-> h]
      /\ Token(r, addr, h) => /\ ~Locked(FailKeys(addr, None))
                              /\ req'[r] = [pc |-> "token", ip |-> addr, handle |-> h]
<1>. SUFFICES ASSUME NEW r \in Request, NEW addr \in Ip \cup {None}, NEW h \in Handle,
                     TypeOK, req'[r] # req[r]
              PROVE  /\ Challenge(r, addr, h) =>
                          /\ ~Locked(FailKeys(addr, h))
                          /\ req'[r] = [pc |-> "challenge", ip |-> addr, handle |-> h]
                     /\ Token(r, addr, h) =>
                          /\ ~Locked(FailKeys(addr, None))
                          /\ req'[r] = [pc |-> "token", ip |-> addr, handle |-> h]
  OBVIOUS
<1>1. \A q : req' = [req EXCEPT ![r] = q] => req'[r] = q
  BY DEF TypeOK
<1>2. CASE Challenge(r, addr, h)
  BY <1>1, <1>2 DEF Challenge, Token, Guard
<1>3. CASE Token(r, addr, h)
  BY <1>1, <1>3 DEF Challenge, Token, Guard
<1>. QED
  BY <1>2, <1>3

(* A step that admits a request is its guard, which found it unlocked. *)
LEMMA StepsWait ==
  HistInv /\ Next =>
    \A r \in Request : req[r] = Idle /\ req'[r] # Idle =>
      \A s \in FailKeys(req'[r].ip, IF req'[r].pc = "challenge" THEN req'[r].handle ELSE None) :
        Recent(s) >= Threshold => SinceFailed(s) >= Lockout(Recent(s))
<1>. SUFFICES ASSUME HistInv, Next, NEW r \in Request, req[r] = Idle, req'[r] # Idle
              PROVE  \A s \in FailKeys(req'[r].ip,
                                       IF req'[r].pc = "challenge" THEN req'[r].handle ELSE None) :
                       Recent(s) >= Threshold => SinceFailed(s) >= Lockout(Recent(s))
  OBVIOUS
<1>1. TypeOK /\ \A o \in Request : \A q : req' = [req EXCEPT ![o] = q] => o = r \/ req'[r] = req[r]
  BY DEF HistInv, Inv, TypeOK
<1>2. PICK addr \in Ip \cup {None}, h \in Handle : Challenge(r, addr, h) \/ Token(r, addr, h)
  <2>1. ASSUME NEW o \in Request, NEW addr \in Ip \cup {None}, NEW h \in Handle,
               Challenge(o, addr, h) \/ Token(o, addr, h)
        PROVE  o = r
    BY <1>1, <2>1 DEF Challenge, Token, Guard
  <2>2. ASSUME NEW o \in Request, Fail(o) \/ Succeed(o) \/ End(o)
        PROVE  FALSE
    <3>1. req' = [req EXCEPT ![o] = Idle]
      BY <2>2 DEF Fail, Succeed, End
    <3>. QED
      BY <1>1, <3>1 DEF TypeOK
  <2>3. ~Tick
    BY DEF Tick
  <2>. QED
    BY <2>1, <2>2, <2>3 DEF Next
<1>3. FailKeys(addr, h) \in SUBSET Subject /\ FailKeys(addr, None) \in SUBSET Subject
  BY DEF FailKeys, Subject
<1>4. CASE Challenge(r, addr, h)
  <2>1. ~Locked(FailKeys(addr, h)) /\ req'[r] = [pc |-> "challenge", ip |-> addr, handle |-> h]
    BY <1>1, <1>4, AdmittedUnlocked
  <2>2. FailKeys(req'[r].ip, IF req'[r].pc = "challenge" THEN req'[r].handle ELSE None)
          = FailKeys(addr, h)
    BY <2>1
  <2>. QED
    BY <1>3, <2>1, <2>2, AdmissionWaits
<1>5. CASE Token(r, addr, h)
  <2>1. ~Locked(FailKeys(addr, None)) /\ req'[r] = [pc |-> "token", ip |-> addr, handle |-> h]
    BY <1>1, <1>5, AdmittedUnlocked
  <2>2. FailKeys(req'[r].ip, IF req'[r].pc = "challenge" THEN req'[r].handle ELSE None)
          = FailKeys(addr, None)
    BY <2>1
  <2>. QED
    BY <1>3, <2>1, <2>2, AdmissionWaits
<1>. QED
  BY <1>2, <1>4, <1>5

(* Every reachable state of the limiter is well typed: no window counts     *)
(* past its limit, no lock is longer than the cap.                          *)
THEOREM LimiterTypeCorrect == Spec => []TypeOK
<1>1. Inv => TypeOK
  BY DEF Inv
<1>. QED
  BY <1>1, InitInv, NextInv, PTL DEF Spec

(* A sweep leaves no window that is over, and no hit after it brings one    *)
(* back: the windows kept are those of about two window lengths.            *)
THEOREM SweepsBoundWindows == Spec => []WindowsSwept
<1>1. Inv => WindowsSwept
  BY DEF Inv
<1>. QED
  BY <1>1, InitInv, NextInv, PTL DEF Spec

(* A fixed window lets bursts through around its end, but fewer than two    *)
(* limits in any stretch of a window's length (ratelimit-core.ts:31).       *)
THEOREM BurstsAreBounded == Spec => []BurstBounded
<1>1. HistInv => BurstBounded
  <2>. SUFFICES ASSUME HistInv, NEW k \in WindowKey
                PROVE  Total(hits[k], Window - 1) <= 2 * Limit - 1
    BY DEF BurstBounded
  <2>1. /\ windows[k] \in WindowRow /\ hits[k] \in Counts(Window - 1) /\ now \in Nat
        /\ BurstOf(windows[k], hits[k], now)
    BY HistTypes DEF HistInv, Bursts
  <2>. QED
    BY <2>1, BurstIsBounded
<1>. QED
  BY <1>1, InitHist, NextHist, PTL DEF Spec

(* A request of a subject with recent failures, enough for a lockout, is    *)
(* admitted only when the lockout that so many failures earn is over,       *)
(* whatever the sweep dropped and whichever requests ended meanwhile        *)
(* (ratelimit.ts:41, ratelimit-core.ts:47-62).                              *)
THEOREM BackoffIsServed == Spec => BackoffHonoured
<1>1. HistInv /\ [Next]_vars =>
        [\A r \in Request : req[r] = Idle /\ req'[r] # Idle =>
           \A s \in FailKeys(req'[r].ip,
                             IF req'[r].pc = "challenge" THEN req'[r].handle ELSE None) :
             Recent(s) >= Threshold => SinceFailed(s) >= Lockout(Recent(s))]_vars
  BY StepsWait
<1>. QED
  BY <1>1, InitHist, NextHist, PTL DEF Spec, BackoffHonoured

-----------------------------------------------------------------------------
(* One more power of two is twice as much: half of the subsets have the     *)
(* last element.                                                            *)
LEMMA PowersDouble ==
  \A n \in Nat : 2 ^ n \in Nat \ {0} /\ 2 ^ (n + 1) = 2 * 2 ^ n
<1>1. ASSUME NEW i \in Nat
      PROVE  IsFiniteSet(SUBSET (1 .. i)) /\ Cardinality(SUBSET (1 .. i)) = 2 ^ i
             /\ Cardinality(SUBSET (1 .. i)) \in Nat \ {0}
  <2>1. IsFiniteSet(1 .. i) /\ Cardinality(1 .. i) = i
    BY FS_Interval
  <2>2. IsFiniteSet(SUBSET (1 .. i)) /\ Cardinality(SUBSET (1 .. i)) = 2 ^ i
    BY <2>1, FS_SUBSET
  <2>3. SUBSET (1 .. i) # {}
    OBVIOUS
  <2>. QED
    BY <2>2, <2>3, FS_CardinalityType, FS_EmptySet
<1>. SUFFICES ASSUME NEW n \in Nat
              PROVE  2 ^ n \in Nat \ {0} /\ 2 ^ (n + 1) = 2 * 2 ^ n
  OBVIOUS
<1>. DEFINE A == SUBSET (1 .. n)
            B == {T \cup {n + 1} : T \in A}
<1>2. IsFiniteSet(A) /\ Cardinality(A) = 2 ^ n /\ Cardinality(A) \in Nat \ {0}
  BY <1>1
<1>3. IsFiniteSet(B) /\ Cardinality(B) = Cardinality(A)
  <2>. DEFINE f == [T \in A |-> T \cup {n + 1}]
  <2>1. \A T \in A : n + 1 \notin T
    OBVIOUS
  <2>2. f \in [A -> B] /\ \A T \in A : f[T] = T \cup {n + 1}
    OBVIOUS
  <2>3. \A T, U \in A : f[T] = f[U] => T = U
    <3>1. ASSUME NEW T \in A, NEW U \in A, T \cup {n + 1} = U \cup {n + 1}
          PROVE  T = U
      BY <2>1, <3>1
    <3>. QED
      BY <2>2, <3>1
  <2>4. \A b \in B : \E T \in A : f[T] = b
    BY <2>2
  <2>. HIDE DEF A, B, f
  <2>5. f \in Bijection(A, B)
    BY <2>2, <2>3, <2>4 DEF Bijection, Injection, Surjection, IsInjective
  <2>. QED
    BY <1>2, <2>5, FS_Bijection DEF ExistsBijection
<1>4. A \cap B = {}
  <2>1. \A T \in A : n + 1 \notin T
    OBVIOUS
  <2>2. \A T \in B : n + 1 \in T
    OBVIOUS
  <2>. QED
    BY <2>1, <2>2
<1>5. SUBSET (1 .. (n + 1)) = A \cup B
  <2>1. ASSUME NEW U \in SUBSET (1 .. (n + 1)), n + 1 \notin U
        PROVE  U \in A
    <3>1. \A x \in U : x \in 1 .. n
      BY <2>1
    <3>. QED
      BY <3>1
  <2>2. ASSUME NEW U \in SUBSET (1 .. (n + 1)), n + 1 \in U
        PROVE  U \in B
    <3>1. \A x \in U : x = n + 1 \/ x \in 1 .. n
      OBVIOUS
    <3>2. U \ {n + 1} \in A
      BY <3>1
    <3>3. U = (U \ {n + 1}) \cup {n + 1}
      BY <2>2
    <3>. QED
      BY <3>2, <3>3
  <2>3. \A T \in A : T \in SUBSET (1 .. (n + 1)) /\ T \cup {n + 1} \in SUBSET (1 .. (n + 1))
    OBVIOUS
  <2>4. ASSUME NEW T \in B
        PROVE  T \in SUBSET (1 .. (n + 1))
    BY <2>3, <2>4
  <2>. HIDE DEF A, B
  <2>5. SUBSET (1 .. (n + 1)) \subseteq A \cup B
    BY <2>1, <2>2
  <2>6. A \cup B \subseteq SUBSET (1 .. (n + 1))
    BY <2>3, <2>4
  <2>. QED
    BY <2>5, <2>6
<1>. HIDE DEF A, B
<1>6. Cardinality(A \cup B) = 2 ^ (n + 1)
  BY <1>1, <1>5
<1>7. Cardinality(A \cup B) = Cardinality(A) + Cardinality(B) - 0
  BY <1>2, <1>3, <1>4, FS_Union, FS_EmptySet
<1>. QED
  BY <1>2, <1>3, <1>6, <1>7

(* Exponents add. *)
LEMMA PowersMultiply ==
  \A m \in Nat : \A n \in Nat : 2 ^ (m + n) = 2 ^ m * 2 ^ n
<1>. SUFFICES ASSUME NEW m \in Nat, NEW n \in Nat
              PROVE  2 ^ (m + n) = 2 ^ m * 2 ^ n
  OBVIOUS
<1>. DEFINE G == {i \in 0 .. n : 2 ^ (m + i) = 2 ^ m * 2 ^ i}
<1>1. PICK p \in Nat : p = 2 ^ m
  BY PowersDouble
<1>2. 0 \in G
  <2>1. 2 ^ 0 = 1 /\ m + 0 = m
    OBVIOUS
  <2>. QED
    BY <1>1, <2>1
<1>3. ASSUME NEW i \in 1 .. n, i - 1 \in G
      PROVE  i \in G
  <2>1. PICK j \in Nat : i = j + 1 /\ m + i = (m + j) + 1 /\ m + j \in Nat
    <3>1. i - 1 \in Nat /\ i = (i - 1) + 1 /\ m + i = (m + (i - 1)) + 1 /\ m + (i - 1) \in Nat
      OBVIOUS
    <3>. QED
      BY <3>1
  <2>2. 2 ^ (m + j) = 2 ^ m * 2 ^ j
    <3>1. i - 1 = j
      BY <2>1
    <3>. QED
      BY <1>3, <3>1
  <2>3. PICK q \in Nat : q = 2 ^ j
    BY PowersDouble
  <2>4. 2 ^ i = 2 * q /\ 2 ^ (m + i) = 2 * (p * q)
    BY <1>1, <2>1, <2>2, <2>3, PowersDouble
  <2>5. 2 * (p * q) = p * (2 * q)
    OBVIOUS
  <2>. QED
    BY <1>1, <2>4, <2>5
<1>. HIDE DEF G
<1>4. n \in G
  BY <1>2, <1>3, UpTo
<1>. QED
  BY <1>4 DEF G

-----------------------------------------------------------------------------
(* Quotients and remainders. *)
LEMMA Quotients ==
  \A a \in Nat : \A d \in Nat \ {0} :
    a \div d \in Nat /\ a % d \in 0 .. d - 1 /\ a = d * (a \div d) + (a % d)
OBVIOUS

(* A quotient is recognised by its remainder. *)
LEMMA QuotientIs ==
  \A d \in Nat \ {0} : \A q \in Nat : \A r \in 0 .. d - 1 : (d * q + r) \div d = q
OBVIOUS

(* One bit less of a number is half of it, and the bit is the remainder. *)
LEMMA Halves ==
  \A a \in Nat : \A d \in Nat \ {0} : a \div d = 2 * (a \div (2 * d)) + ((a \div d) % 2)
<1>. SUFFICES ASSUME NEW a \in Nat, NEW d \in Nat \ {0}
              PROVE  a \div d = 2 * (a \div (2 * d)) + ((a \div d) % 2)
  OBVIOUS
<1>1. PICK q \in Nat, r \in 0 .. d - 1 : a = d * q + r /\ q = a \div d
  BY Quotients
<1>2. PICK h \in Nat, b \in 0 .. 1 : q = 2 * h + b /\ b = q % 2
  BY Quotients
<1>3. a = (2 * d) * h + (d * b + r)
  <2>1. d * q = d * (2 * h + b)
    BY <1>2
  <2>2. d * (2 * h + b) = (2 * d) * h + d * b
    OBVIOUS
  <2>3. PICK x \in Int, y \in Int : x = (2 * d) * h /\ y = d * b
    OBVIOUS
  <2>4. d * q = x + y
    BY <2>1, <2>2, <2>3
  <2>5. a = (x + y) + r
    BY <1>1, <2>4
  <2>6. a = x + (y + r)
    BY <2>5
  <2>. QED
    BY <2>3, <2>6
<1>4. d * b + r \in 0 .. 2 * d - 1
  <2>1. CASE b = 0
    BY <2>1
  <2>2. CASE b = 1
    BY <2>2
  <2>. QED
    BY <2>1, <2>2
<1>5. a \div (2 * d) = h
  BY <1>3, <1>4, QuotientIs
<1>. QED
  BY <1>1, <1>2, <1>5

(* Two numbers of the same width have the same leading bits exactly when    *)
(* they are the same without the others.                                    *)
LEMMA PrefixesAgree ==
  \A w \in Nat : \A a, b \in 0 .. 2 ^ w - 1 : \A p \in 0 .. w :
    a \div 2 ^ (w - p) = b \div 2 ^ (w - p)
      <=> \A i \in 1 .. p : (a \div 2 ^ (w - i)) % 2 = (b \div 2 ^ (w - i)) % 2
<1>. SUFFICES ASSUME NEW w \in Nat, NEW a \in 0 .. 2 ^ w - 1, NEW b \in 0 .. 2 ^ w - 1
              PROVE  \A p \in 0 .. w :
                       a \div 2 ^ (w - p) = b \div 2 ^ (w - p)
                         <=> \A i \in 1 .. p : (a \div 2 ^ (w - i)) % 2 = (b \div 2 ^ (w - i)) % 2
  OBVIOUS
<1>. DEFINE G == {p \in 0 .. w :
                    a \div 2 ^ (w - p) = b \div 2 ^ (w - p)
                      <=> \A i \in 1 .. p : (a \div 2 ^ (w - i)) % 2 = (b \div 2 ^ (w - i)) % 2}
<1>0. a \in Nat /\ b \in Nat
  BY PowersDouble
<1>1. 0 \in G
  <2>1. PICK d \in Nat \ {0} : d = 2 ^ w
    BY PowersDouble
  <2>2. a = d * 0 + a /\ b = d * 0 + b /\ a \in 0 .. d - 1 /\ b \in 0 .. d - 1
    BY <1>0, <2>1
  <2>3. a \div d = 0 /\ b \div d = 0
    BY <2>2, QuotientIs
  <2>4. w - 0 = w
    OBVIOUS
  <2>. QED
    BY <2>1, <2>3, <2>4
<1>2. ASSUME NEW p \in 1 .. w, p - 1 \in G
      PROVE  p \in G
  <2>1. PICK q \in Nat : q = p - 1 /\ w - q = (w - p) + 1 /\ w - p \in Nat
    OBVIOUS
  <2>2. PICK d \in Nat \ {0} : d = 2 ^ (w - p)
    BY <2>1, PowersDouble
  <2>3. 2 ^ (w - q) = 2 * d
    BY <2>1, <2>2, PowersDouble
  <2>4. /\ a \div d = 2 * (a \div (2 * d)) + ((a \div d) % 2)
        /\ b \div d = 2 * (b \div (2 * d)) + ((b \div d) % 2)
    BY <1>0, Halves
  <2>5. PICK m \in Nat, n \in Nat : m = a \div (2 * d) /\ n = b \div (2 * d)
    <3>1. 2 * d \in Nat \ {0}
      OBVIOUS
    <3>. QED
      BY <1>0, <3>1, Quotients
  <2>6. PICK x \in 0 .. 1, y \in 0 .. 1 : x = (a \div d) % 2 /\ y = (b \div d) % 2
    BY <1>0, Quotients
  <2>7. a \div d = b \div d <=> m = n /\ x = y
    BY <2>4, <2>5, <2>6
  <2>8. m = n <=> \A i \in 1 .. q : (a \div 2 ^ (w - i)) % 2 = (b \div 2 ^ (w - i)) % 2
    BY <1>2, <2>1, <2>3, <2>5
  <2>9. \A i : i \in 1 .. p <=> i \in 1 .. q \/ i = p
    BY <2>1
  <2>10. x = y <=> (a \div 2 ^ (w - p)) % 2 = (b \div 2 ^ (w - p)) % 2
    BY <2>2, <2>6
  <2>11. (\A i \in 1 .. p : (a \div 2 ^ (w - i)) % 2 = (b \div 2 ^ (w - i)) % 2)
           <=> x = y /\ \A i \in 1 .. q : (a \div 2 ^ (w - i)) % 2 = (b \div 2 ^ (w - i)) % 2
    BY <2>9, <2>10, Zenon
  <2>12. p \in 0 .. w
    OBVIOUS
  <2>. QED
    BY <2>2, <2>7, <2>8, <2>11, <2>12
<1>. HIDE DEF G
<1>3. 0 .. w \subseteq G
  BY <1>1, <1>2, UpTo
<1>. QED
  BY <1>3 DEF G

-----------------------------------------------------------------------------
(* What is accumulated after each digit: the recursion of Shifted.          *)
Accumulates(xs, bits, n, f) ==
  /\ f \in [0 .. n -> Nat]
  /\ \A i \in 0 .. n : f[i] = IF i = 0 THEN 0 ELSE f[i - 1] * 2 ^ bits + xs[i]

(* There is such a function for all digits: the recursion is sound. *)
LEMMA AccumulationExists ==
  \A xs \in Seq(Nat) : \A bits \in Nat : \E f : Accumulates(xs, bits, Len(xs), f)
<1>. SUFFICES ASSUME NEW xs \in Seq(Nat), NEW bits \in Nat
              PROVE  \E f : Accumulates(xs, bits, Len(xs), f)
  OBVIOUS
<1>0. Len(xs) \in Nat /\ \A i \in 1 .. Len(xs) : xs[i] \in Nat
  BY ElementOfSeq, LenProperties
<1>. PICK m \in Nat : m = Len(xs)
  BY <1>0
<1>. DEFINE G == {n \in 0 .. m : \E f : Accumulates(xs, bits, n, f)}
<1>1. 0 \in G
  <2>1. Accumulates(xs, bits, 0, [a \in 0 .. 0 |-> 0])
    BY DEF Accumulates
  <2>. QED
    BY <1>0, <2>1
<1>2. ASSUME NEW n \in 1 .. m, n - 1 \in G
      PROVE  n \in G
  <2>1. PICK f : Accumulates(xs, bits, n - 1, f)
    BY <1>2
  <2>2. PICK b \in Nat : b = 2 ^ bits
    BY PowersDouble
  <2>3. f[n - 1] \in Nat /\ xs[n] \in Nat
    BY <1>0, <2>1 DEF Accumulates
  <2>4. PICK t \in Nat : t = f[n - 1] * 2 ^ bits + xs[n]
    BY <2>2, <2>3
  <2>5. PICK g : g = [a \in 0 .. n |-> IF a = n THEN t ELSE f[a]]
    OBVIOUS
  <2>6. \A a \in 0 .. n : a # n => a \in 0 .. n - 1
    BY <1>0
  <2>7. g \in [0 .. n -> Nat] /\ g[n] = t /\ \A a \in 0 .. n - 1 : g[a] = f[a] /\ a \in 0 .. n
    BY <1>0, <2>1, <2>4, <2>5, <2>6 DEF Accumulates
  <2>8. ASSUME NEW a \in 0 .. n
        PROVE  g[a] = IF a = 0 THEN 0 ELSE g[a - 1] * 2 ^ bits + xs[a]
    <3>1. CASE a = n
      BY <1>0, <2>4, <2>7, <3>1
    <3>2. CASE a # n
      <4>1. a \in 0 .. n - 1 /\ (a # 0 => a - 1 \in 0 .. n - 1)
        BY <1>0, <3>2
      <4>. QED
        BY <2>1, <2>7, <4>1 DEF Accumulates
    <3>. QED
      BY <3>1, <3>2
  <2>9. Accumulates(xs, bits, n, g)
    BY <2>7, <2>8 DEF Accumulates
  <2>. QED
    BY <2>9
<1>. HIDE DEF G
<1>3. 0 .. m \subseteq G
  BY <1>1, <1>2, UpTo
<1>4. m \in 0 .. m
  OBVIOUS
<1>. QED
  BY <1>3, <1>4 DEF G

(* Shifted is what is accumulated in the end. *)
LEMMA ShiftedAccumulates ==
  \A xs \in Seq(Nat) : \A bits \in Nat :
    \E f : Accumulates(xs, bits, Len(xs), f) /\ Shifted(xs, bits) = f[Len(xs)]
<1>. SUFFICES ASSUME NEW xs \in Seq(Nat), NEW bits \in Nat
              PROVE  \E f : Accumulates(xs, bits, Len(xs), f) /\ Shifted(xs, bits) = f[Len(xs)]
  OBVIOUS
<1>. DEFINE Step(f) == [n \in 0 .. Len(xs) |-> IF n = 0 THEN 0 ELSE f[n - 1] * 2 ^ bits + xs[n]]
            v == CHOOSE v : v = [n \in 0 .. Len(xs) |-> IF n = 0 THEN 0 ELSE v[n - 1] * 2 ^ bits + xs[n]]
<1>1. Shifted(xs, bits) = v[Len(xs)]
  BY DEF Shifted
<1>2. PICK f : Accumulates(xs, bits, Len(xs), f)
  BY AccumulationExists
<1>3. f = [n \in 0 .. Len(xs) |-> IF n = 0 THEN 0 ELSE f[n - 1] * 2 ^ bits + xs[n]]
  BY <1>2 DEF Accumulates
<1>4. v = [n \in 0 .. Len(xs) |-> IF n = 0 THEN 0 ELSE v[n - 1] * 2 ^ bits + xs[n]]
  BY <1>3
<1>. HIDE DEF v
<1>5. /\ DOMAIN v = 0 .. Len(xs)
      /\ \A n \in 0 .. Len(xs) : v[n] = IF n = 0 THEN 0 ELSE v[n - 1] * 2 ^ bits + xs[n]
  BY <1>4
<1>6. PICK m \in Nat : m = Len(xs)
  BY LenProperties
<1>. DEFINE G == {n \in 0 .. m : v[n] = f[n]}
<1>7. 0 \in G
  BY <1>2, <1>5, <1>6 DEF Accumulates
<1>8. ASSUME NEW n \in 1 .. m, n - 1 \in G
      PROVE  n \in G
  <2>1. n \in 0 .. m /\ n # 0
    OBVIOUS
  <2>. QED
    BY <1>2, <1>5, <1>6, <1>8, <2>1 DEF Accumulates
<1>. HIDE DEF G
<1>9. 0 .. m \subseteq G
  BY <1>7, <1>8, UpTo
<1>10. m \in 0 .. m
  OBVIOUS
<1>. QED
  BY <1>1, <1>2, <1>6, <1>9, <1>10 DEF G

(* The same digits accumulate to the same. *)
LEMMA AccumulateAlike ==
  \A xs, ys \in Seq(Nat) : \A bits \in Nat : \A m, n \in Nat : \A f, g : \A l \in 0 .. m :
    /\ Accumulates(xs, bits, m, f) /\ Accumulates(ys, bits, n, g)
    /\ l <= n /\ (\A i \in 1 .. l : xs[i] = ys[i])
    => f[l] = g[l]
<1>. SUFFICES ASSUME NEW xs \in Seq(Nat), NEW ys \in Seq(Nat), NEW bits \in Nat,
                     NEW m \in Nat, NEW n \in Nat, NEW f, NEW g,
                     NEW l \in 0 .. m,
                     Accumulates(xs, bits, m, f), Accumulates(ys, bits, n, g),
                     l <= n, \A i \in 1 .. l : xs[i] = ys[i]
              PROVE  f[l] = g[l]
  OBVIOUS
<1>. DEFINE G == {i \in 0 .. l : f[i] = g[i]}
<1>1. 0 \in G
  BY DEF Accumulates
<1>2. ASSUME NEW i \in 1 .. l, i - 1 \in G
      PROVE  i \in G
  <2>1. i \in 0 .. m /\ i \in 0 .. n /\ i # 0
    OBVIOUS
  <2>. QED
    BY <1>2, <2>1 DEF Accumulates
<1>. HIDE DEF G
<1>3. l \in Nat /\ l \in 0 .. l
  OBVIOUS
<1>4. 0 .. l \subseteq G
  BY <1>1, <1>2, <1>3, UpTo
<1>. QED
  BY <1>3, <1>4 DEF G

(* As many digits of some bits are a number of so many bits. *)
LEMMA AccumulateBounded ==
  \A xs \in Seq(Nat) : \A bits, n \in Nat : \A f :
    Accumulates(xs, bits, n, f) /\ (\A i \in 1 .. n : xs[i] \in 0 .. 2 ^ bits - 1)
      => \A i \in 0 .. n : f[i] < 2 ^ (bits * i)
<1>. SUFFICES ASSUME NEW xs \in Seq(Nat), NEW bits \in Nat, NEW n \in Nat, NEW f,
                     Accumulates(xs, bits, n, f), \A i \in 1 .. n : xs[i] \in 0 .. 2 ^ bits - 1
              PROVE  \A i \in 0 .. n : f[i] < 2 ^ (bits * i)
  OBVIOUS
<1>. DEFINE G == {i \in 0 .. n : f[i] < 2 ^ (bits * i)}
<1>1. 0 \in G
  <2>1. f[0] = 0
    BY DEF Accumulates
  <2>2. 2 ^ (bits * 0) = 1
    <3>1. bits * 0 = 0 /\ 2 ^ 0 = 1
      OBVIOUS
    <3>. QED
      BY <3>1
  <2>. QED
    BY <2>1, <2>2
<1>2. ASSUME NEW i \in 1 .. n, i - 1 \in G
      PROVE  i \in G
  <2>1. PICK b \in Nat \ {0} : b = 2 ^ bits
    BY PowersDouble
  <2>2. i - 1 \in 0 .. n /\ i \in 0 .. n /\ i # 0
    OBVIOUS
  <2>3. PICK v \in Nat : v = f[i - 1]
    BY <2>2 DEF Accumulates
  <2>4. PICK x \in 0 .. b - 1 : x = xs[i]
    BY <2>1
  <2>5. f[i] = v * b + x
    BY <2>1, <2>2, <2>3, <2>4 DEF Accumulates
  <2>6. bits * (i - 1) \in Nat /\ bits * i = bits * (i - 1) + bits
    OBVIOUS
  <2>7. PICK c \in Nat : c = 2 ^ (bits * (i - 1))
    BY <2>6, PowersDouble
  <2>8. 2 ^ (bits * i) = c * b
    BY <2>1, <2>6, <2>7, PowersMultiply
  <2>9. v < c
    BY <1>2, <2>3, <2>7
  <2>10. v * b + x < c * b
    <3>1. PICK e \in Nat : c = v + 1 + e
      <4>1. c - v - 1 \in Nat /\ c = v + 1 + (c - v - 1)
        BY <2>9
      <4>. QED
        BY <4>1
    <3>2. c * b = v * b + b + e * b
      BY <3>1
    <3>3. e * b \in Nat
      OBVIOUS
    <3>. QED
      BY <3>2, <3>3
  <2>. QED
    BY <2>5, <2>8, <2>10
<1>. HIDE DEF G
<1>3. 0 .. n \subseteq G
  BY <1>1, <1>2, UpTo
<1>. QED
  BY <1>3 DEF G

(* The sizes, as numbers. *)
LEMMA Formats ==
  /\ Half \in Nat \ {0} /\ Groups \in Nat /\ Groups >= 2
  /\ Null \notin Nat /\ Null \notin Seq(Nat) /\ Null \notin BOOLEAN
  /\ Part = 0 .. (2 ^ Half - 1) /\ Part \subseteq Nat /\ 0 \in Part
  /\ Group = 0 .. (2 ^ (2 * Half) - 1) /\ Group \subseteq Nat /\ 0 \in Group
<1>1. Half \in Nat \ {0} /\ Groups \in Nat /\ Groups >= 2 /\ 2 * Half \in Nat
  BY TextsAssumption
<1>2. 2 ^ Half \in Nat \ {0} /\ 2 ^ (2 * Half) \in Nat \ {0}
  BY <1>1, PowersDouble
<1>. QED
  BY <1>1, <1>2, TextsAssumption DEF Part, Group

(* A number takes no more bits than its digits have. *)
LEMMA ShiftedBounded ==
  \A xs \in Seq(Nat) : \A bits \in Nat :
    (\A i \in 1 .. Len(xs) : xs[i] \in 0 .. 2 ^ bits - 1)
      => Shifted(xs, bits) \in Nat /\ Shifted(xs, bits) < 2 ^ (bits * Len(xs))
<1>. SUFFICES ASSUME NEW xs \in Seq(Nat), NEW bits \in Nat,
                     \A i \in 1 .. Len(xs) : xs[i] \in 0 .. 2 ^ bits - 1
              PROVE  Shifted(xs, bits) \in Nat /\ Shifted(xs, bits) < 2 ^ (bits * Len(xs))
  OBVIOUS
<1>1. PICK f : Accumulates(xs, bits, Len(xs), f) /\ Shifted(xs, bits) = f[Len(xs)]
  BY ShiftedAccumulates
<1>2. Len(xs) \in Nat /\ Len(xs) \in 0 .. Len(xs)
  BY LenProperties
<1>3. f[Len(xs)] \in Nat
  BY <1>1, <1>2 DEF Accumulates
<1>4. \A i \in 0 .. Len(xs) : f[i] < 2 ^ (bits * i)
  BY <1>1, <1>2, AccumulateBounded
<1>. QED
  BY <1>1, <1>2, <1>3, <1>4

(* The members of a sequence. *)
LEMMA RangeWithin ==
  \A S : \A xs \in Seq(S) : \A T : Range(xs) \subseteq T <=> \A i \in 1 .. Len(xs) : xs[i] \in T
<1>. SUFFICES ASSUME NEW S, NEW xs \in Seq(S), NEW T
              PROVE  Range(xs) \subseteq T <=> \A i \in 1 .. Len(xs) : xs[i] \in T
  OBVIOUS
<1>1. DOMAIN xs = 1 .. Len(xs)
  BY LenProperties
<1>. QED
  BY <1>1, Zenon DEF Range

(* Four good parts are an IPv4 address of their bits, anything else is none. *)
LEMMA Ipv4Parsed ==
  \A parts \in Seq(Nat) :
    LET good == Len(parts) = 4 /\ \A i \in 1 .. 4 : parts[i] \in Part
    IN /\ ~good => ParseIpv4(parts) = Null
       /\ good => /\ ParseIpv4(parts) = Shifted(parts, Half)
                  /\ ParseIpv4(parts) \in 0 .. 2 ^ (4 * Half) - 1
<1>. SUFFICES ASSUME NEW parts \in Seq(Nat)
              PROVE  LET good == Len(parts) = 4 /\ \A i \in 1 .. 4 : parts[i] \in Part
                     IN /\ ~good => ParseIpv4(parts) = Null
                        /\ good => /\ ParseIpv4(parts) = Shifted(parts, Half)
                                   /\ ParseIpv4(parts) \in 0 .. 2 ^ (4 * Half) - 1
  OBVIOUS
<1>. DEFINE good == Len(parts) = 4 /\ \A i \in 1 .. 4 : parts[i] \in Part
<1>1. Range(parts) \subseteq Part <=> \A i \in 1 .. Len(parts) : parts[i] \in Part
  BY RangeWithin
<1>2. ~good => ParseIpv4(parts) = Null
  BY <1>1 DEF ParseIpv4
<1>3. ASSUME good
      PROVE  /\ ParseIpv4(parts) = Shifted(parts, Half)
             /\ ParseIpv4(parts) \in 0 .. 2 ^ (4 * Half) - 1
  <2>1. ParseIpv4(parts) = Shifted(parts, Half)
    BY <1>1, <1>3 DEF ParseIpv4
  <2>2. \A i \in 1 .. Len(parts) : parts[i] \in 0 .. 2 ^ Half - 1
    BY <1>3 DEF Part
  <2>3. Shifted(parts, Half) \in Nat /\ Shifted(parts, Half) < 2 ^ (Half * Len(parts))
    BY <2>2, ShiftedBounded, Formats
  <2>4. Half * Len(parts) = 4 * Half /\ 4 * Half \in Nat
    BY <1>3, Formats
  <2>5. 2 ^ (4 * Half) \in Nat
    BY <2>4, PowersDouble
  <2>6. Shifted(parts, Half) < 2 ^ (4 * Half)
    BY <2>3, <2>4
  <2>. QED
    BY <2>1, <2>3, <2>5, <2>6
<1>. QED
  BY <1>2, <1>3

-----------------------------------------------------------------------------
(* The groups before and after the "::", with those a dotted ending takes. *)
HeadOf(t) == t.head \o Placeholder(t, ~t.compressed)
TailOf(t) == t.tail \o Placeholder(t, t.compressed)

Fits(t) ==
  /\ \A i \in 1 .. Len(HeadOf(t)) : HeadOf(t)[i] \in Group
  /\ \A i \in 1 .. Len(TailOf(t)) : TailOf(t)[i] \in Group
  /\ Len(HeadOf(t)) + Len(TailOf(t)) <= Groups
  /\ ~t.compressed => Len(HeadOf(t)) + Len(TailOf(t)) = Groups

(* They are sequences of numbers, long or short. *)
LEMMA HeadTail ==
  \A t \in V6Text :
    /\ HeadOf(t) \in Seq(Nat) /\ TailOf(t) \in Seq(Nat)
    /\ Len(HeadOf(t)) \in Nat /\ Len(TailOf(t)) \in Nat
<1>. SUFFICES ASSUME NEW t \in V6Text
              PROVE  HeadOf(t) \in Seq(Nat) /\ TailOf(t) \in Seq(Nat)
  BY LenProperties
<1>1. t.head \in Seq(Nat) /\ t.tail \in Seq(Nat)
  BY DEF V6Text
<1>2. \A b \in BOOLEAN : Placeholder(t, b) \in Seq(Nat)
  <2>1. << >> \in Seq(Nat) /\ <<0, 0>> \in Seq(Nat)
    OBVIOUS
  <2>. QED
    BY <2>1 DEF Placeholder
<1>3. t.compressed \in BOOLEAN
  BY DEF V6Text
<1>. QED
  BY <1>1, <1>2, <1>3, ConcatProperties DEF HeadOf, TailOf

(* Expanding fills the gap with zeros, when the groups are good. *)
LEMMA Expands ==
  \A t \in V6Text :
    /\ ~Fits(t) => Expand(t) = Null
    /\ Fits(t) =>
         /\ Expand(t) \in Seq(Nat) /\ Expand(t) # Null /\ Len(Expand(t)) = Groups
         /\ \A i \in 1 .. Groups :
              /\ Expand(t)[i] \in Group
              /\ Expand(t)[i] = CASE i <= Len(HeadOf(t)) -> HeadOf(t)[i]
                                  [] i > Groups - Len(TailOf(t)) ->
                                       TailOf(t)[i - (Groups - Len(TailOf(t)))]
                                  [] OTHER -> 0
<1>. SUFFICES ASSUME NEW t \in V6Text
              PROVE  /\ ~Fits(t) => Expand(t) = Null
                     /\ Fits(t) =>
                          /\ Expand(t) \in Seq(Nat) /\ Expand(t) # Null /\ Len(Expand(t)) = Groups
                          /\ \A i \in 1 .. Groups :
                               /\ Expand(t)[i] \in Group
                               /\ Expand(t)[i] = CASE i <= Len(HeadOf(t)) -> HeadOf(t)[i]
                                                   [] i > Groups - Len(TailOf(t)) ->
                                                        TailOf(t)[i - (Groups - Len(TailOf(t)))]
                                                   [] OTHER -> 0
  OBVIOUS
<1>1. PICK h \in Seq(Nat), e \in Seq(Nat) : h = HeadOf(t) /\ e = TailOf(t)
  BY HeadTail
<1>2. PICK m \in Nat, n \in Nat : m = Len(h) /\ n = Len(e)
  BY LenProperties
<1>3. Groups \in Nat /\ t.compressed \in BOOLEAN
  BY Formats DEF V6Text
<1>4. Expand(t) = IF ~(Range(h) \cup Range(e) \subseteq Group) \/ Groups - m - n < 0
                       \/ (~t.compressed /\ Groups - m - n # 0)
                    THEN Null ELSE h \o Zeros(Groups - m - n) \o e
  BY <1>1, <1>2 DEF Expand, HeadOf, TailOf
<1>5. /\ Range(h) \subseteq Group <=> \A i \in 1 .. m : h[i] \in Group
      /\ Range(e) \subseteq Group <=> \A i \in 1 .. n : e[i] \in Group
  BY <1>2, RangeWithin
<1>6. Fits(t) <=> /\ Range(h) \cup Range(e) \subseteq Group
                  /\ Groups - m - n >= 0
                  /\ ~t.compressed => Groups - m - n = 0
  <2>1. /\ m + n <= Groups <=> Groups - m - n >= 0
        /\ m + n = Groups <=> Groups - m - n = 0
    BY <1>3
  <2>2. Range(h) \cup Range(e) \subseteq Group
          <=> (\A i \in 1 .. m : h[i] \in Group) /\ (\A i \in 1 .. n : e[i] \in Group)
    BY <1>5
  <2>3. Fits(t) <=> /\ \A i \in 1 .. m : h[i] \in Group
                    /\ \A i \in 1 .. n : e[i] \in Group
                    /\ m + n <= Groups
                    /\ ~t.compressed => m + n = Groups
    BY <1>1, <1>2 DEF Fits
  <2>. QED
    BY <2>1, <2>2, <2>3
<1>7. ~Fits(t) => Expand(t) = Null
  <2>1. Groups - m - n >= 0 <=> ~(Groups - m - n < 0)
    BY <1>3
  <2>. QED
    BY <1>4, <1>6, <2>1
<1>8. ASSUME Fits(t)
      PROVE  /\ Expand(t) \in Seq(Nat) /\ Expand(t) # Null /\ Len(Expand(t)) = Groups
             /\ \A i \in 1 .. Groups :
                  /\ Expand(t)[i] \in Group
                  /\ Expand(t)[i] = CASE i <= m -> h[i]
                                      [] i > Groups - n -> e[i - (Groups - n)]
                                      [] OTHER -> 0
  <2>1. PICK k \in Nat : k = Groups - m - n /\ Groups = m + k + n
    BY <1>3, <1>6, <1>8
  <2>2. /\ \A i \in 1 .. m : h[i] \in Group
        /\ \A i \in 1 .. n : e[i] \in Group
    BY <1>5, <1>6, <1>8
  <2>3. Expand(t) = h \o Zeros(k) \o e
    BY <1>3, <1>4, <1>6, <1>8, <2>1
  <2>4. Zeros(k) \in Seq(Nat) /\ Len(Zeros(k)) = k /\ \A i \in 1 .. k : Zeros(k)[i] = 0
    BY DEF Zeros
  <2>5. PICK z \in Seq(Nat) : z = Zeros(k)
    BY <2>4
  <2>6. PICK hz \in Seq(Nat) : hz = h \o z
    BY ConcatProperties
  <2>7. Len(hz) = m + k /\ \A i \in 1 .. (m + k) : hz[i] = IF i <= m THEN h[i] ELSE z[i - m]
    BY <1>2, <2>4, <2>5, <2>6, ConcatProperties
  <2>8. /\ hz \o e \in Seq(Nat) /\ Len(hz \o e) = m + k + n
        /\ \A i \in 1 .. (m + k + n) : (hz \o e)[i] = IF i <= m + k THEN hz[i] ELSE e[i - (m + k)]
    <3>1. /\ hz \o e \in Seq(Nat) /\ Len(hz \o e) = Len(hz) + Len(e)
          /\ \A i \in 1 .. Len(hz) + Len(e) : (hz \o e)[i] = IF i <= Len(hz) THEN hz[i] ELSE e[i - Len(hz)]
      BY ConcatProperties
    <3>2. Len(hz) = m + k /\ Len(e) = n
      BY <1>2, <2>7
    <3>. QED
      BY <3>1, <3>2
  <2>9. Expand(t) = hz \o e
    BY <2>3, <2>5, <2>6
  <2>10. PICK x \in Seq(Nat) : x = Expand(t)
    BY <2>8, <2>9
  <2>11. /\ Len(x) = m + k + n
         /\ \A i \in 1 .. (m + k + n) : x[i] = IF i <= m + k THEN hz[i] ELSE e[i - (m + k)]
    BY <2>8, <2>9, <2>10
  <2>12. ASSUME NEW i \in 1 .. Groups
         PROVE  /\ x[i] \in Group
                /\ x[i] = CASE i <= m -> h[i]
                            [] i > Groups - n -> e[i - (Groups - n)]
                            [] OTHER -> 0
    <3>1. CASE i <= m
      <4>1. i \in 1 .. m /\ i \in 1 .. (m + k) /\ i \in 1 .. (m + k + n) /\ i <= m + k
        BY <2>1, <3>1
      <4>2. x[i] = h[i] /\ h[i] \in Group
        BY <2>2, <2>7, <2>11, <4>1
      <4>3. ~(i > Groups - n)
        BY <2>1, <3>1
      <4>. QED
        BY <3>1, <4>2, <4>3
    <3>2. CASE i > Groups - n
      <4>1. /\ i \in 1 .. (m + k + n) /\ ~(i <= m + k) /\ ~(i <= m)
            /\ i - (Groups - n) = i - (m + k) /\ i - (m + k) \in 1 .. n
        BY <2>1, <3>2
      <4>2. x[i] = e[i - (m + k)] /\ e[i - (m + k)] \in Group
        BY <2>2, <2>11, <4>1
      <4>. QED
        BY <3>2, <4>1, <4>2
    <3>3. CASE ~(i <= m) /\ ~(i > Groups - n)
      <4>1. i \in 1 .. (m + k) /\ i \in 1 .. (m + k + n) /\ i <= m + k /\ i - m \in 1 .. k
        BY <2>1, <3>3
      <4>2. x[i] = 0
        BY <2>4, <2>5, <2>7, <2>11, <3>3, <4>1
      <4>. QED
        BY <3>3, <4>2, Formats
    <3>. QED
      BY <3>1, <3>2, <3>3
  <2>13. x # Null
    BY Formats
  <2>. QED
    BY <2>1, <2>10, <2>11, <2>12, <2>13
<1>. QED
  BY <1>1, <1>2, <1>7, <1>8

(* An address has room for the four parts of a dotted ending. *)
LEMMA Room ==
  \E rest \in Nat :
    /\ Groups = rest + 2
    /\ (2 * Half) * Groups = (2 * Half) * rest + 4 * Half
    /\ Width(6) = (2 * Half) * Groups
<1>1. PICK rest \in Nat : Groups = rest + 2
  <2>1. Groups - 2 \in Nat /\ Groups = (Groups - 2) + 2
    BY Formats
  <2>. QED
    BY <2>1
<1>2. PICK b \in Nat : b = 2 * Half
  BY Formats
<1>3. b * (rest + 2) = b * rest + 2 * b /\ 2 * b = 4 * Half
  BY <1>2, Formats
<1>4. Groups * 2 * Half = Groups * b /\ Groups * b = b * Groups
  BY <1>2, Formats
<1>. QED
  BY <1>1, <1>2, <1>3, <1>4 DEF Width

(* The value of the groups of an address, without its dotted ending. *)
LEMMA ExpandedValue ==
  \A t \in V6Text : Fits(t) =>
    /\ Shifted(Expand(t), 2 * Half) \in Nat
    /\ Shifted(Expand(t), 2 * Half) < 2 ^ Width(6)
<1>. SUFFICES ASSUME NEW t \in V6Text, Fits(t)
              PROVE  /\ Shifted(Expand(t), 2 * Half) \in Nat
                     /\ Shifted(Expand(t), 2 * Half) < 2 ^ Width(6)
  OBVIOUS
<1>1. Expand(t) \in Seq(Nat) /\ Len(Expand(t)) = Groups /\ \A i \in 1 .. Groups : Expand(t)[i] \in Group
  BY Expands
<1>2. PICK b \in Nat : b = 2 * Half
  BY Formats
<1>3. \A i \in 1 .. Len(Expand(t)) : Expand(t)[i] \in 0 .. 2 ^ b - 1
  BY <1>1, <1>2 DEF Group
<1>4. Shifted(Expand(t), b) \in Nat /\ Shifted(Expand(t), b) < 2 ^ (b * Len(Expand(t)))
  BY <1>1, <1>3, ShiftedBounded
<1>. QED
  BY <1>1, <1>2, <1>4, Room

(* The low bits of a number are replaced by others, as many. *)
LEMMA Overwritten ==
  \A d \in Nat \ {0} : \A e, n \in Nat : \A r \in 0 .. d - 1 :
    n < e * d => (n \div d) * d + r \in Nat /\ (n \div d) * d + r < e * d
<1>. SUFFICES ASSUME NEW d \in Nat \ {0}, NEW e \in Nat, NEW n \in Nat, NEW r \in 0 .. d - 1, n < e * d
              PROVE  (n \div d) * d + r \in Nat /\ (n \div d) * d + r < e * d
  OBVIOUS
<1>1. PICK q \in Nat, s \in 0 .. d - 1 : q = n \div d /\ n = d * q + s
  BY Quotients
<1>2. q < e
  <2>. SUFFICES ASSUME q >= e
                PROVE  FALSE
    OBVIOUS
  <2>1. PICK f \in Nat : q = e + f
    <3>1. q - e \in Nat /\ q = e + (q - e)
      OBVIOUS
    <3>. QED
      BY <3>1
  <2>2. d * q = e * d + d * f /\ d * f \in Nat
    BY <2>1
  <2>. QED
    BY <1>1, <2>2
<1>3. PICK f \in Nat : e = q + 1 + f
  <2>1. e - q - 1 \in Nat /\ e = q + 1 + (e - q - 1)
    BY <1>2
  <2>. QED
    BY <2>1
<1>4. e * d = q * d + d + f * d /\ q * d \in Nat /\ f * d \in Nat
  BY <1>3
<1>. QED
  BY <1>1, <1>4

(* What parsing gives is a number of the family's width. *)
LEMMA Parsed ==
  \A t \in V4Text \cup V6Text :
    ParseIp(t) # Null => ParseIp(t) \in 0 .. 2 ^ Width(t.fam) - 1 /\ Width(t.fam) \in Nat
<1>. SUFFICES ASSUME NEW t \in V4Text \cup V6Text, ParseIp(t) # Null
              PROVE  ParseIp(t) \in 0 .. 2 ^ Width(t.fam) - 1 /\ Width(t.fam) \in Nat
  OBVIOUS
<1>1. CASE t \in V4Text
  <2>1. t.fam = 4 /\ t.parts \in Seq(Nat)
    BY <1>1 DEF V4Text
  <2>2. ParseIp(t) = ParseIpv4(t.parts) /\ Width(t.fam) = 4 * Half
    BY <2>1 DEF ParseIp, Width
  <2>3. ParseIpv4(t.parts) \in 0 .. 2 ^ (4 * Half) - 1
    BY <2>1, <2>2, Ipv4Parsed
  <2>4. 4 * Half \in Nat
    BY Formats
  <2>. QED
    BY <2>2, <2>3, <2>4
<1>2. CASE t \in V6Text
  <2>1. t.fam = 6 /\ t.v4 \in Seq(Nat) \cup {Null}
    BY <1>2 DEF V6Text
  <2>2. ParseIp(t) = ParseIpv6(t)
    BY <2>1 DEF ParseIp
  <2>3. Fits(t)
    BY <1>2, <2>2, Expands DEF ParseIpv6
  <2>4. PICK n \in Nat : n = Shifted(Expand(t), 2 * Half) /\ n < 2 ^ Width(6)
    BY <1>2, <2>3, ExpandedValue
  <2>5. PICK rest \in Nat : Width(6) = (2 * Half) * rest + 4 * Half
    BY Room
  <2>6. PICK a \in Nat : a = (2 * Half) * rest /\ Width(6) = a + 4 * Half /\ 4 * Half \in Nat
    <3>1. 2 * Half \in Nat /\ 4 * Half \in Nat
      BY Formats
    <3>2. (2 * Half) * rest \in Nat
      BY <3>1
    <3>. QED
      BY <2>5, <3>1, <3>2
  <2>7. PICK e \in Nat \ {0} : e = 2 ^ a
    BY PowersDouble
  <2>8. PICK low \in Nat \ {0} : low = 2 ^ (4 * Half)
    BY <2>6, PowersDouble
  <2>9. 2 ^ Width(6) = e * low /\ Width(6) \in Nat
    <3>1. PICK c \in Nat : c = 4 * Half
      BY <2>6
    <3>2. Width(6) = a + c /\ 2 ^ (a + c) = 2 ^ a * 2 ^ c
      BY <2>6, <3>1, PowersMultiply
    <3>. QED
      BY <2>7, <2>8, <3>1, <3>2
  <2>10. e * low \in Nat
    OBVIOUS
  <2>11. CASE t.v4 = Null
    <3>1. ParseIp(t) = n
      BY <2>2, <2>4, <2>11 DEF ParseIpv6
    <3>. QED
      BY <2>1, <2>4, <2>9, <2>10, <3>1
  <2>12. CASE t.v4 # Null
    <3>1. ParseIpv4(t.v4) # Null
      BY <2>2, <2>12 DEF ParseIpv6
    <3>2. PICK r \in 0 .. low - 1 : r = ParseIpv4(t.v4)
      BY <2>1, <2>8, <2>12, <3>1, Ipv4Parsed
    <3>3. ParseIp(t) = (n \div low) * low + r
      BY <2>2, <2>4, <2>8, <2>12, <3>2 DEF ParseIpv6
    <3>4. ParseIp(t) \in Nat /\ ParseIp(t) < e * low
      BY <2>4, <2>9, <3>3, Overwritten
    <3>. QED
      BY <2>1, <2>9, <2>10, <3>4
  <2>. QED
    BY <2>11, <2>12
<1>. QED
  BY <1>1, <1>2

(* An entry matches an address exactly when it covers it. *)
LEMMA MatchesCovered ==
  \A t \in V4Text \cup V6Text : \A entry \in Entries :
    ParseIp(t) # Null => (MatchCidr(t, entry) <=> Covers(entry, t))
<1>. SUFFICES ASSUME NEW t \in V4Text \cup V6Text, NEW entry \in Entries, ParseIp(t) # Null
              PROVE  MatchCidr(t, entry) <=> Covers(entry, t)
  OBVIOUS
<1>1. entry.net \in V4Text \cup V6Text
  BY TextsAssumption
<1>. DEFINE p == IF entry.prefix = Null THEN Width(t.fam) ELSE entry.prefix
<1>2. PICK w \in Nat : w = Width(t.fam)
  BY Parsed
<1>3. CASE ParseIp(entry.net) # Null /\ entry.net.fam = t.fam /\ p \in 0 .. w
  <2>1. PICK a \in 0 .. 2 ^ w - 1 : a = ParseIp(t)
    BY <1>2, Parsed
  <2>2. PICK b \in 0 .. 2 ^ w - 1 : b = ParseIp(entry.net)
    BY <1>1, <1>2, <1>3, Parsed
  <2>3. MatchCidr(t, entry) <=> p = 0 \/ a \div 2 ^ (w - p) = b \div 2 ^ (w - p)
    BY <1>2, <1>3, <2>1, <2>2 DEF MatchCidr
  <2>4. entry.prefix # Null => entry.prefix \in 0 .. w
    BY <1>3
  <2>5. Covers(entry, t) <=> \A i \in 1 .. p : (a \div 2 ^ (w - i)) % 2 = (b \div 2 ^ (w - i)) % 2
    BY <1>2, <1>3, <2>1, <2>2, <2>4 DEF Covers, Bit
  <2>6. p = 0 => \A i \in 1 .. p : (a \div 2 ^ (w - i)) % 2 = (b \div 2 ^ (w - i)) % 2
    OBVIOUS
  <2>. HIDE DEF p
  <2>. QED
    BY <1>3, <2>3, <2>5, <2>6, PrefixesAgree
<1>4. CASE ~(ParseIp(entry.net) # Null /\ entry.net.fam = t.fam /\ p \in 0 .. w)
  <2>1. ~MatchCidr(t, entry)
    BY <1>2, <1>4 DEF MatchCidr
  <2>2. entry.prefix = Null => p \in 0 .. w
    BY <1>2
  <2>3. ~Covers(entry, t)
    BY <1>2, <1>4, <2>2 DEF Covers
  <2>. QED
    BY <2>1, <2>3
<1>. QED
  BY <1>3, <1>4

-----------------------------------------------------------------------------
(* An answer is right, and while there is none no entry so far has matched. *)
AnswerInv ==
  /\ ip \in Texts
  /\ \E n \in Nat : list \in [1 .. n -> Entries]
  /\ list \in Seq(Entries)
  /\ at \in 1 .. (Len(list) + 1)
  /\ answer \in BOOLEAN \cup {Null}
  /\ \A i \in 1 .. (at - 1) : ParseIp(ip) # Null => ~MatchCidr(ip, list[i])
  /\ AllowedExactly

(* Nothing was tried at first. *)
LEMMA InitAnswer == AllowlistInit => AnswerInv
<1>. SUFFICES ASSUME AllowlistInit
              PROVE  AnswerInv
  OBVIOUS
<1>1. PICK n \in Nat : list \in [1 .. n -> Entries]
  BY TextsAssumption DEF AllowlistInit
<1>2. list \in Seq(Entries) /\ Len(list) \in Nat
  BY <1>1, LenProperties
<1>. QED
  BY <1>1, <1>2 DEF AllowlistInit, AnswerInv, AllowedExactly

(* An entry that matches covers the address, and one that does not, does not. *)
LEMMA NextAnswer == AnswerInv /\ [AllowlistNext]_allowlistVars => AnswerInv'
<1>. SUFFICES ASSUME AnswerInv, [AllowlistNext]_allowlistVars
              PROVE  AnswerInv'
  OBVIOUS
<1>1. /\ ip \in V4Text \cup V6Text /\ Len(list) \in Nat /\ DOMAIN list = 1 .. Len(list)
      /\ \A i \in 1 .. Len(list) : list[i] \in Entries
  BY TextsAssumption, LenProperties, ElementOfSeq DEF AnswerInv
<1>2. ParseIp(ip) # Null =>
        \A i \in 1 .. Len(list) : MatchCidr(ip, list[i]) <=> Covers(list[i], ip)
  BY <1>1, MatchesCovered
<1>3. CASE Reject
  <2>1. ip' = ip /\ list' = list /\ at' = at /\ answer' = FALSE /\ ParseIp(ip) = Null
    BY <1>3 DEF Reject
  <2>2. AllowedExactly'
    BY <2>1 DEF AllowedExactly
  <2>. QED
    BY <2>1, <2>2 DEF AnswerInv
<1>4. CASE TryEntry /\ MatchCidr(ip, list[at])
  <2>1. ip' = ip /\ list' = list /\ at' = at /\ answer' = TRUE /\ ParseIp(ip) # Null /\ at <= Len(list)
    BY <1>4 DEF TryEntry
  <2>2. at \in 1 .. Len(list)
    BY <1>1, <2>1 DEF AnswerInv
  <2>3. Covers(list[at], ip)
    BY <1>2, <1>4, <2>1, <2>2
  <2>4. AllowedExactly'
    BY <1>1, <2>1, <2>2, <2>3 DEF AllowedExactly
  <2>. QED
    BY <2>1, <2>4 DEF AnswerInv
<1>5. CASE TryEntry /\ ~MatchCidr(ip, list[at])
  <2>1. ip' = ip /\ list' = list /\ at' = at + 1 /\ answer' = answer /\ at <= Len(list) /\ answer = Null
    BY <1>5 DEF TryEntry
  <2>2. at' \in 1 .. (Len(list) + 1)
    BY <1>1, <2>1 DEF AnswerInv
  <2>3. \A i \in 1 .. (at' - 1) : i = at \/ i \in 1 .. (at - 1)
    BY <1>1, <2>1 DEF AnswerInv
  <2>4. AllowedExactly'
    BY <2>1 DEF AllowedExactly
  <2>. QED
    BY <1>5, <2>1, <2>2, <2>3, <2>4 DEF AnswerInv
<1>6. CASE Exhausted
  <2>1. ip' = ip /\ list' = list /\ at' = at /\ answer' = FALSE /\ ParseIp(ip) # Null /\ at > Len(list)
    BY <1>6 DEF Exhausted
  <2>2. at - 1 = Len(list)
    BY <1>1, <2>1 DEF AnswerInv
  <2>3. \A i \in 1 .. Len(list) : ~Covers(list[i], ip)
    BY <1>2, <2>1, <2>2 DEF AnswerInv
  <2>4. AllowedExactly'
    BY <1>1, <2>1, <2>3 DEF AllowedExactly
  <2>. QED
    BY <2>1, <2>4 DEF AnswerInv
<1>7. CASE UNCHANGED allowlistVars
  BY <1>7 DEF AnswerInv, AllowedExactly, allowlistVars
<1>. QED
  BY <1>3, <1>4, <1>5, <1>6, <1>7 DEF AllowlistNext

(* Whatever the list and whatever the address, an address is allowed only   *)
(* when some entry of the list covers it bit for bit, in its own family,    *)
(* and refused only when it is no address or none does: neither stopping at *)
(* the first entry that matches nor comparing shifted values ever changes   *)
(* the answer (matchCidr and ipInCidrs, cidr.ts:91-111).                    *)
THEOREM AnswersAreExact == AllowlistSpec => []AllowedExactly
<1>1. AnswerInv => AllowedExactly
  BY DEF AnswerInv
<1>. QED
  BY <1>1, InitAnswer, NextAnswer, PTL DEF AllowlistSpec

(* A dotted ending is good when it is an IPv4 address. *)
DotsGood(v4) == Len(v4) = 4 /\ \A i \in 1 .. 4 : v4[i] \in Part

(* The two groups of a dotted ending, and their value. *)
High(v4) == v4[1] * 2 ^ Half + v4[2]
Low(v4) == v4[3] * 2 ^ Half + v4[4]

(* Their value is what the ending is parsed as: the digits are the same. *)
LEMMA DotsValue ==
  \A v4 \in Seq(Nat) : DotsGood(v4) =>
    /\ High(v4) \in Group /\ Low(v4) \in Group
    /\ ParseIpv4(v4) = High(v4) * 2 ^ (2 * Half) + Low(v4)
<1>. SUFFICES ASSUME NEW v4 \in Seq(Nat), DotsGood(v4)
              PROVE  /\ High(v4) \in Group /\ Low(v4) \in Group
                     /\ ParseIpv4(v4) = High(v4) * 2 ^ (2 * Half) + Low(v4)
  OBVIOUS
<1>1. PICK h \in Nat \ {0} : h = 2 ^ Half
  BY Formats, PowersDouble
<1>2. 2 ^ (2 * Half) = h * h
  <2>1. PICK k \in Nat : k = Half /\ 2 * Half = k + k
    BY Formats
  <2>. QED
    BY <1>1, <2>1, PowersMultiply
<1>3. PICK a \in 0 .. h - 1, b \in 0 .. h - 1, c \in 0 .. h - 1, d \in 0 .. h - 1 :
        a = v4[1] /\ b = v4[2] /\ c = v4[3] /\ d = v4[4]
  BY <1>1, Formats DEF DotsGood
<1>4. High(v4) = a * h + b /\ Low(v4) = c * h + d
  BY <1>1, <1>3 DEF High, Low
<1>5. \A p, q \in 0 .. h - 1 : p * h + q \in 0 .. (h * h) - 1
  <2>. SUFFICES ASSUME NEW p \in 0 .. h - 1, NEW q \in 0 .. h - 1
                PROVE  p * h + q \in 0 .. (h * h) - 1
    OBVIOUS
  <2>1. PICK e \in Nat : h = p + 1 + e
    <3>1. h - p - 1 \in Nat /\ h = p + 1 + (h - p - 1)
      OBVIOUS
    <3>. QED
      BY <3>1
  <2>2. h * h = p * h + h + e * h
    BY <2>1
  <2>3. e * h \in Nat /\ p * h \in Nat /\ h * h \in Nat
    OBVIOUS
  <2>. QED
    BY <2>2, <2>3
<1>6. High(v4) \in Group /\ Low(v4) \in Group
  BY <1>2, <1>4, <1>5, Formats
<1>7. PICK f : Accumulates(v4, Half, 4, f) /\ Shifted(v4, Half) = f[4]
  BY ShiftedAccumulates, Formats DEF DotsGood
<1>8. f[0] = 0 /\ f[1] = f[0] * h + a /\ f[2] = f[1] * h + b /\ f[3] = f[2] * h + c /\ f[4] = f[3] * h + d
  BY <1>1, <1>3, <1>7 DEF Accumulates
<1>9. f[1] = a /\ f[2] = a * h + b /\ f[3] = (a * h + b) * h + c /\ f[4] = ((a * h + b) * h + c) * h + d
  BY <1>8
<1>10. ((a * h + b) * h + c) * h + d = (a * h + b) * (h * h) + (c * h + d)
  OBVIOUS
<1>11. ParseIpv4(v4) = f[4]
  BY <1>7, Ipv4Parsed DEF DotsGood
<1>. QED
  BY <1>2, <1>4, <1>6, <1>9, <1>10, <1>11

(* Two more groups. *)
LEMMA TwoMore ==
  \A s \in Seq(Nat) : \A x, y \in Nat :
    /\ s \o <<x, y>> \in Seq(Nat) /\ Len(s \o <<x, y>>) = Len(s) + 2
    /\ \A i \in 1 .. Len(s) : (s \o <<x, y>>)[i] = s[i]
    /\ (s \o <<x, y>>)[Len(s) + 1] = x /\ (s \o <<x, y>>)[Len(s) + 2] = y
<1>. SUFFICES ASSUME NEW s \in Seq(Nat), NEW x \in Nat, NEW y \in Nat
              PROVE  /\ s \o <<x, y>> \in Seq(Nat) /\ Len(s \o <<x, y>>) = Len(s) + 2
                     /\ \A i \in 1 .. Len(s) : (s \o <<x, y>>)[i] = s[i]
                     /\ (s \o <<x, y>>)[Len(s) + 1] = x /\ (s \o <<x, y>>)[Len(s) + 2] = y
  OBVIOUS
<1>1. PICK u \in Seq(Nat) : u = <<x, y>> /\ Len(u) = 2 /\ u[1] = x /\ u[2] = y
  <2>1. <<x, y>> \in Seq(Nat)
    OBVIOUS
  <2>2. Len(<<x, y>>) = 2 /\ <<x, y>>[1] = x /\ <<x, y>>[2] = y
    OBVIOUS
  <2>. QED
    BY <2>1, <2>2
<1>2. PICK m \in Nat : m = Len(s)
  BY LenProperties
<1>3. /\ s \o u \in Seq(Nat) /\ Len(s \o u) = Len(s) + Len(u)
      /\ \A i \in 1 .. Len(s) + Len(u) : (s \o u)[i] = IF i <= Len(s) THEN s[i] ELSE u[i - Len(s)]
  BY ConcatProperties
<1>4. \A i \in 1 .. (m + 2) : (s \o u)[i] = IF i <= m THEN s[i] ELSE u[i - m]
  BY <1>1, <1>2, <1>3
<1>5. m + 1 \in 1 .. (m + 2) /\ m + 2 \in 1 .. (m + 2) /\ (m + 1) - m = 1 /\ (m + 2) - m = 2
      /\ ~(m + 1 <= m) /\ ~(m + 2 <= m)
  OBVIOUS
<1>6. (s \o u)[m + 1] = x /\ (s \o u)[m + 2] = y
  BY <1>1, <1>4, <1>5
<1>7. ASSUME NEW i \in 1 .. m
      PROVE  (s \o u)[i] = s[i]
  <2>1. i \in 1 .. (m + 2) /\ i <= m
    OBVIOUS
  <2>. QED
    BY <1>4, <2>1
<1>. QED
  BY <1>1, <1>2, <1>3, <1>6, <1>7

-----------------------------------------------------------------------------
(* What the text says before and after the "::". *)
Front(t) == IF t.compressed THEN t.head ELSE WithDots(t.head, t.v4)
Back(t) == IF t.compressed THEN WithDots(t.tail, t.v4) ELSE << >>

(* One is the other, but for the two groups at its end. *)
Ended(s, r, v4) ==
  \E m \in Nat :
    /\ Len(s) = m + 2 /\ Len(r) = m + 2
    /\ \A i \in 1 .. m : s[i] = r[i]
    /\ s[m + 1] = High(v4) /\ s[m + 2] = Low(v4)
    /\ r[m + 1] = 0 /\ r[m + 2] = 0

(* They are the groups that are expanded, but for a dotted ending. *)
LEMMA Parts ==
  \A t \in V6Text : (t.v4 # Null => DotsGood(t.v4)) =>
    /\ Front(t) \in Seq(Nat) /\ Back(t) \in Seq(Nat)
    /\ Len(Front(t)) = Len(HeadOf(t)) /\ Len(Back(t)) = Len(TailOf(t))
    /\ t.v4 = Null \/ t.compressed => Front(t) = HeadOf(t)
    /\ t.v4 = Null \/ ~t.compressed => Back(t) = TailOf(t)
    /\ ~t.compressed => Len(Back(t)) = 0
    /\ t.v4 # Null /\ ~t.compressed => Ended(Front(t), HeadOf(t), t.v4)
    /\ t.v4 # Null /\ t.compressed => Ended(Back(t), TailOf(t), t.v4)
<1>. SUFFICES ASSUME NEW t \in V6Text, t.v4 # Null => DotsGood(t.v4)
              PROVE  /\ Front(t) \in Seq(Nat) /\ Back(t) \in Seq(Nat)
                     /\ Len(Front(t)) = Len(HeadOf(t)) /\ Len(Back(t)) = Len(TailOf(t))
                     /\ t.v4 = Null \/ t.compressed => Front(t) = HeadOf(t)
                     /\ t.v4 = Null \/ ~t.compressed => Back(t) = TailOf(t)
                     /\ ~t.compressed => Len(Back(t)) = 0
                     /\ t.v4 # Null /\ ~t.compressed => Ended(Front(t), HeadOf(t), t.v4)
                     /\ t.v4 # Null /\ t.compressed => Ended(Back(t), TailOf(t), t.v4)
  OBVIOUS
<1>1. /\ t.head \in Seq(Nat) /\ t.tail \in Seq(Nat) /\ t.compressed \in BOOLEAN
      /\ t.v4 \in Seq(Nat) \cup {Null}
      /\ ~t.compressed => t.tail = << >>
  BY DEF V6Text
<1>2. \A s \in Seq(Nat) : s \o << >> = s
  BY ConcatEmptySeq
<1>3. << >> \in Seq(Nat) /\ Len(<< >>) = 0
  OBVIOUS
<1>4. CASE t.v4 = Null
  <2>1. Placeholder(t, t.compressed) = << >> /\ Placeholder(t, ~t.compressed) = << >>
    BY <1>4 DEF Placeholder
  <2>2. HeadOf(t) = t.head /\ TailOf(t) = t.tail
    BY <1>1, <1>2, <2>1 DEF HeadOf, TailOf
  <2>3. Front(t) = t.head /\ Back(t) = t.tail
    BY <1>1, <1>4 DEF Front, Back, WithDots
  <2>. QED
    BY <1>1, <1>3, <1>4, <2>2, <2>3
<1>5. ASSUME t.v4 # Null, NEW s \in Seq(Nat)
      PROVE  /\ WithDots(s, t.v4) \in Seq(Nat)
             /\ Len(WithDots(s, t.v4)) = Len(s \o <<0, 0>>)
             /\ Ended(WithDots(s, t.v4), s \o <<0, 0>>, t.v4)
  <2>1. High(t.v4) \in Nat /\ Low(t.v4) \in Nat
    <3>1. t.v4 \in Seq(Nat) /\ DotsGood(t.v4)
      BY <1>1, <1>5
    <3>2. High(t.v4) \in Group /\ Low(t.v4) \in Group
      BY <3>1, DotsValue
    <3>. QED
      BY <3>2, Formats
  <2>2. WithDots(s, t.v4) = s \o <<High(t.v4), Low(t.v4)>>
    BY <1>5 DEF WithDots, High, Low
  <2>3. PICK m \in Nat : m = Len(s)
    BY LenProperties
  <2>4. /\ WithDots(s, t.v4) \in Seq(Nat) /\ Len(WithDots(s, t.v4)) = m + 2
        /\ \A i \in 1 .. m : WithDots(s, t.v4)[i] = s[i]
        /\ WithDots(s, t.v4)[m + 1] = High(t.v4) /\ WithDots(s, t.v4)[m + 2] = Low(t.v4)
    BY <2>1, <2>2, <2>3, TwoMore
  <2>5. /\ Len(s \o <<0, 0>>) = m + 2
        /\ \A i \in 1 .. m : (s \o <<0, 0>>)[i] = s[i]
        /\ (s \o <<0, 0>>)[m + 1] = 0 /\ (s \o <<0, 0>>)[m + 2] = 0
    BY <2>3, TwoMore
  <2>. QED
    BY <2>4, <2>5 DEF Ended
<1>6. CASE t.v4 # Null /\ t.compressed
  <2>1. Placeholder(t, t.compressed) = <<0, 0>> /\ Placeholder(t, ~t.compressed) = << >>
    BY <1>6 DEF Placeholder
  <2>2. HeadOf(t) = t.head /\ TailOf(t) = t.tail \o <<0, 0>>
    BY <1>1, <1>2, <2>1 DEF HeadOf, TailOf
  <2>3. Front(t) = t.head /\ Back(t) = WithDots(t.tail, t.v4)
    BY <1>6 DEF Front, Back
  <2>. QED
    BY <1>1, <1>5, <1>6, <2>2, <2>3
<1>7. CASE t.v4 # Null /\ ~t.compressed
  <2>1. Placeholder(t, t.compressed) = << >> /\ Placeholder(t, ~t.compressed) = <<0, 0>>
    BY <1>7 DEF Placeholder
  <2>2. HeadOf(t) = t.head \o <<0, 0>> /\ TailOf(t) = << >>
    <3>1. HeadOf(t) = t.head \o <<0, 0>>
      BY <2>1 DEF HeadOf
    <3>2. TailOf(t) = t.tail \o << >> /\ t.tail = << >>
      BY <1>1, <1>7, <2>1 DEF TailOf
    <3>3. t.tail \o << >> = t.tail
      BY <1>1, <1>2
    <3>. QED
      BY <3>1, <3>2, <3>3
  <2>3. Front(t) = WithDots(t.head, t.v4) /\ Back(t) = << >>
    BY <1>7 DEF Front, Back
  <2>. QED
    BY <1>1, <1>3, <1>5, <1>7, <2>2, <2>3
<1>. QED
  BY <1>1, <1>4, <1>6, <1>7

(* The address a text spells out. *)
Spelled(t) ==
  [i \in 1 .. Groups |->
     CASE i <= Len(Front(t)) -> Front(t)[i]
       [] i > Groups - Len(Back(t)) -> Back(t)[i - (Groups - Len(Back(t)))]
       [] OTHER -> 0]

(* It fits when it is an address. *)
FitsSpelled(t) ==
  /\ Len(Front(t)) + Len(Back(t)) <= Groups
  /\ ~t.compressed => Len(Front(t)) = Groups
  /\ Spelled(t) \in Address

(* A text denotes the one address it spells out, when that is an address. *)
LEMMA DenotesSpelled ==
  \A t \in V6Text : (t.v4 # Null => DotsGood(t.v4)) =>
    Denotes(t) = IF FitsSpelled(t) THEN {Spelled(t)} ELSE {}
<1>. SUFFICES ASSUME NEW t \in V6Text, t.v4 # Null => DotsGood(t.v4)
              PROVE  Denotes(t) = IF FitsSpelled(t) THEN {Spelled(t)} ELSE {}
  OBVIOUS
<1>1. ~(t.v4 # Null /\ (Len(t.v4) # 4 \/ ~(Range(t.v4) \subseteq Part)))
  <2>1. CASE t.v4 # Null
    <3>1. t.v4 \in Seq(Nat) /\ DotsGood(t.v4)
      BY <2>1 DEF V6Text
    <3>2. Len(t.v4) = 4 /\ Range(t.v4) \subseteq Part
      BY <3>1, RangeWithin DEF DotsGood
    <3>. QED
      BY <3>2
  <2>. QED
    BY <2>1
<1>2. Denotes(t) =
        {a \in Address :
           /\ Len(Front(t)) + Len(Back(t)) <= Groups
           /\ ~t.compressed => Len(Front(t)) = Groups
           /\ \A i \in 1 .. Groups :
                a[i] = CASE i <= Len(Front(t)) -> Front(t)[i]
                         [] i > Groups - Len(Back(t)) -> Back(t)[i - (Groups - Len(Back(t)))]
                         [] OTHER -> 0}
  BY <1>1 DEF Denotes, Front, Back
<1>3. Denotes(t) =
        {a \in Address :
           /\ Len(Front(t)) + Len(Back(t)) <= Groups
           /\ ~t.compressed => Len(Front(t)) = Groups
           /\ \A i \in 1 .. Groups : a[i] = Spelled(t)[i]}
  BY <1>2 DEF Spelled
<1>4. ASSUME NEW a \in Address, \A i \in 1 .. Groups : a[i] = Spelled(t)[i]
      PROVE  a = Spelled(t)
  <2>1. a = [i \in 1 .. Groups |-> a[i]]
    BY DEF Address
  <2>2. Spelled(t) = [i \in 1 .. Groups |-> Spelled(t)[i]]
    BY DEF Spelled
  <2>. QED
    BY <1>4, <2>1, <2>2
<1>. QED
  BY <1>3, <1>4 DEF FitsSpelled

(* What is spelled out fits when what is expanded does, and is the same but *)
(* for a dotted ending, whose place is left empty.                          *)
SpelledAs(t) ==
  /\ t.v4 = Null => \A i \in 1 .. Groups : Spelled(t)[i] = Expand(t)[i]
  /\ t.v4 # Null =>
       /\ \A i \in 1 .. (Groups - 2) : Spelled(t)[i] = Expand(t)[i]
       /\ Spelled(t)[Groups - 1] = High(t.v4) /\ Spelled(t)[Groups] = Low(t.v4)
       /\ Expand(t)[Groups - 1] = 0 /\ Expand(t)[Groups] = 0

(* A text spells out an address exactly when its groups can be expanded. *)
LEMMA SpelledFits ==
  \A t \in V6Text : (t.v4 # Null => DotsGood(t.v4)) => (FitsSpelled(t) <=> Fits(t))
<1>. SUFFICES ASSUME NEW t \in V6Text, t.v4 # Null => DotsGood(t.v4)
              PROVE  FitsSpelled(t) <=> Fits(t)
  OBVIOUS
<1>1. PICK f \in Seq(Nat), b \in Seq(Nat), h \in Seq(Nat), e \in Seq(Nat) :
        f = Front(t) /\ b = Back(t) /\ h = HeadOf(t) /\ e = TailOf(t)
  BY Parts, HeadTail
<1>2. PICK m \in Nat, n \in Nat : m = Len(f) /\ n = Len(b) /\ m = Len(h) /\ n = Len(e)
  BY <1>1, Parts, LenProperties
<1>3. PICK N \in Nat : N = Groups
  BY Formats
<1>4. ~t.compressed => n = 0
  BY <1>1, <1>2, Parts
<1>5. \A s, r \in Seq(Nat) : t.v4 # Null /\ Ended(s, r, t.v4) =>
        ((\A i \in 1 .. Len(s) : s[i] \in Group) <=> (\A i \in 1 .. Len(r) : r[i] \in Group))
  <2>. SUFFICES ASSUME NEW s \in Seq(Nat), NEW r \in Seq(Nat), t.v4 # Null, Ended(s, r, t.v4)
                PROVE  (\A i \in 1 .. Len(s) : s[i] \in Group) <=> (\A i \in 1 .. Len(r) : r[i] \in Group)
    OBVIOUS
  <2>1. PICK k \in Nat :
          /\ Len(s) = k + 2 /\ Len(r) = k + 2
          /\ \A i \in 1 .. k : s[i] = r[i]
          /\ s[k + 1] = High(t.v4) /\ s[k + 2] = Low(t.v4)
          /\ r[k + 1] = 0 /\ r[k + 2] = 0
    BY DEF Ended
  <2>2. t.v4 \in Seq(Nat)
    BY DEF V6Text
  <2>3. High(t.v4) \in Group /\ Low(t.v4) \in Group /\ 0 \in Group
    BY <2>2, DotsValue, Formats
  <2>4. /\ \A i \in 1 .. (k + 2) : i \in 1 .. k \/ i = k + 1 \/ i = k + 2
        /\ \A i \in 1 .. k : i \in 1 .. (k + 2)
        /\ k + 1 \in 1 .. (k + 2) /\ k + 2 \in 1 .. (k + 2)
    OBVIOUS
  <2>. QED
    BY <2>1, <2>3, <2>4
<1>6. (\A i \in 1 .. m : f[i] \in Group) <=> (\A i \in 1 .. m : h[i] \in Group)
  <2>1. f = h \/ (t.v4 # Null /\ Ended(f, h, t.v4))
    BY <1>1, Parts DEF V6Text
  <2>. QED
    BY <1>2, <1>5, <2>1
<1>7. (\A i \in 1 .. n : b[i] \in Group) <=> (\A i \in 1 .. n : e[i] \in Group)
  <2>1. b = e \/ (t.v4 # Null /\ Ended(b, e, t.v4))
    BY <1>1, Parts DEF V6Text
  <2>. QED
    BY <1>2, <1>5, <2>1
<1>8. Fits(t) <=>
        /\ \A i \in 1 .. m : f[i] \in Group
        /\ \A i \in 1 .. n : b[i] \in Group
        /\ m + n <= N
        /\ ~t.compressed => m + n = N
  BY <1>1, <1>2, <1>3, <1>6, <1>7 DEF Fits
<1>9. Spelled(t) = [i \in 1 .. N |-> CASE i <= m -> f[i]
                                       [] i > N - n -> b[i - (N - n)]
                                       [] OTHER -> 0]
  BY <1>1, <1>2, <1>3 DEF Spelled
<1>10. ASSUME m + n <= N
       PROVE  Spelled(t) \in Address <=> /\ \A i \in 1 .. m : f[i] \in Group
                                         /\ \A i \in 1 .. n : b[i] \in Group
  <2>1. ASSUME \A i \in 1 .. m : f[i] \in Group, \A i \in 1 .. n : b[i] \in Group
        PROVE  Spelled(t) \in Address
    <3>1. ASSUME NEW i \in 1 .. N
          PROVE  Spelled(t)[i] \in Group
      <4>1. CASE i <= m
        <5>1. i \in 1 .. m /\ ~(i > N - n)
          BY <1>10, <4>1
        <5>. QED
          BY <1>9, <2>1, <4>1, <5>1
      <4>2. CASE ~(i <= m) /\ i > N - n
        <5>1. i - (N - n) \in 1 .. n
          BY <1>10, <4>2
        <5>. QED
          BY <1>9, <2>1, <4>2, <5>1
      <4>3. CASE ~(i <= m) /\ ~(i > N - n)
        BY <1>9, <4>3, Formats
      <4>. QED
        BY <4>1, <4>2, <4>3
    <3>2. Spelled(t) = [i \in 1 .. N |-> Spelled(t)[i]]
      BY <1>9
    <3>3. Spelled(t) \in [1 .. N -> Group]
      BY <3>1, <3>2
    <3>. QED
      BY <1>3, <3>3 DEF Address
  <2>2. ASSUME Spelled(t) \in Address
        PROVE  /\ \A i \in 1 .. m : f[i] \in Group
               /\ \A i \in 1 .. n : b[i] \in Group
    <3>1. \A i \in 1 .. N : Spelled(t)[i] \in Group
      BY <1>3, <2>2 DEF Address
    <3>2. ASSUME NEW i \in 1 .. m
          PROVE  f[i] \in Group
      <4>1. i \in 1 .. N /\ i <= m /\ ~(i > N - n)
        BY <1>10
      <4>2. Spelled(t)[i] = f[i]
        BY <1>9, <4>1
      <4>. QED
        BY <3>1, <4>1, <4>2
    <3>3. ASSUME NEW i \in 1 .. n
          PROVE  b[i] \in Group
      <4>1. PICK j \in 1 .. N : ~(j <= m) /\ j > N - n /\ j - (N - n) = i
        <5>1. /\ N - n + i \in 1 .. N /\ ~(N - n + i <= m) /\ N - n + i > N - n
              /\ (N - n + i) - (N - n) = i
          BY <1>10
        <5>. QED
          BY <5>1
      <4>2. Spelled(t)[j] = b[j - (N - n)]
        BY <1>9, <4>1
      <4>. QED
        BY <3>1, <4>1, <4>2
    <3>. QED
      BY <3>2, <3>3
  <2>. QED
    BY <2>1, <2>2
<1>11. FitsSpelled(t) <=>
         /\ m + n <= N
         /\ ~t.compressed => m = N
         /\ Spelled(t) \in Address
  BY <1>1, <1>2, <1>3 DEF FitsSpelled
<1>12. ~t.compressed => (m + n = N <=> m = N)
  BY <1>4
<1>. QED
  BY <1>8, <1>10, <1>11, <1>12

(* Group by group, the two are as said. *)
LEMMA SpelledExpanded ==
  \A t \in V6Text : (t.v4 # Null => DotsGood(t.v4)) /\ Fits(t) => SpelledAs(t)
<1>. SUFFICES ASSUME NEW t \in V6Text, t.v4 # Null => DotsGood(t.v4), Fits(t)
              PROVE  SpelledAs(t)
  OBVIOUS
<1>1. PICK f \in Seq(Nat), b \in Seq(Nat), h \in Seq(Nat), e \in Seq(Nat) :
        f = Front(t) /\ b = Back(t) /\ h = HeadOf(t) /\ e = TailOf(t)
  BY Parts, HeadTail
<1>2. PICK m \in Nat, n \in Nat : m = Len(f) /\ n = Len(b) /\ m = Len(h) /\ n = Len(e)
  BY <1>1, Parts, LenProperties
<1>3. PICK N \in Nat : N = Groups /\ N >= 2
  BY Formats
<1>4. m + n <= N /\ (~t.compressed => m = N /\ n = 0)
  <2>1. ~t.compressed => n = 0
    BY <1>1, <1>2, Parts
  <2>. QED
    BY <1>1, <1>2, <1>3, <2>1 DEF Fits
<1>5. \A i \in 1 .. N : Spelled(t)[i] = CASE i <= m -> f[i]
                                          [] i > N - n -> b[i - (N - n)]
                                          [] OTHER -> 0
  BY <1>1, <1>2, <1>3 DEF Spelled
<1>6. \A i \in 1 .. N : Expand(t)[i] = CASE i <= m -> h[i]
                                         [] i > N - n -> e[i - (N - n)]
                                         [] OTHER -> 0
  BY <1>1, <1>2, <1>3, Expands
<1>7. CASE t.v4 = Null
  <2>1. f = h /\ b = e
    BY <1>1, <1>7, Parts
  <2>. QED
    BY <1>3, <1>5, <1>6, <1>7, <2>1 DEF SpelledAs
<1>8. N - 1 \in 1 .. N /\ N \in 1 .. N
  BY <1>3
<1>9. CASE t.v4 # Null /\ ~t.compressed
  <2>1. PICK k \in Nat :
          /\ Len(f) = k + 2 /\ Len(h) = k + 2
          /\ \A i \in 1 .. k : f[i] = h[i]
          /\ f[k + 1] = High(t.v4) /\ f[k + 2] = Low(t.v4)
          /\ h[k + 1] = 0 /\ h[k + 2] = 0
    BY <1>1, <1>9, Parts DEF Ended
  <2>2. m = N /\ N = k + 2 /\ N - 1 = k + 1 /\ N - 2 = k
    BY <1>2, <1>4, <1>9, <2>1
  <2>3. \A i \in 1 .. N : Spelled(t)[i] = f[i] /\ Expand(t)[i] = h[i]
    <3>1. \A i \in 1 .. N : i <= m /\ ~(i > N - n)
      BY <1>4, <1>9, <2>2
    <3>. QED
      BY <1>5, <1>6, <3>1
  <2>4. \A i \in 1 .. (N - 2) : Spelled(t)[i] = Expand(t)[i]
    <3>1. \A i \in 1 .. (N - 2) : i \in 1 .. k /\ i \in 1 .. N
      BY <2>2
    <3>. QED
      BY <2>1, <2>3, <3>1
  <2>5. Spelled(t)[N - 1] = High(t.v4) /\ Expand(t)[N - 1] = 0
    BY <1>8, <2>1, <2>2, <2>3
  <2>6. Spelled(t)[N] = Low(t.v4) /\ Expand(t)[N] = 0
    BY <1>8, <2>1, <2>2, <2>3
  <2>. QED
    BY <1>3, <1>9, <2>4, <2>5, <2>6 DEF SpelledAs
<1>10. CASE t.v4 # Null /\ t.compressed
  <2>1. PICK k \in Nat :
          /\ Len(b) = k + 2 /\ Len(e) = k + 2
          /\ \A i \in 1 .. k : b[i] = e[i]
          /\ b[k + 1] = High(t.v4) /\ b[k + 2] = Low(t.v4)
          /\ e[k + 1] = 0 /\ e[k + 2] = 0
    BY <1>1, <1>10, Parts DEF Ended
  <2>2. n = k + 2 /\ f = h
    BY <1>1, <1>2, <1>10, <2>1, Parts
  <2>3. ASSUME NEW i \in 1 .. (N - 2)
        PROVE  Spelled(t)[i] = Expand(t)[i]
    <3>1. i \in 1 .. N
      BY <1>3
    <3>2. CASE i <= m
      <4>1. ~(i > N - n)
        BY <1>4, <3>2
      <4>. QED
        BY <1>5, <1>6, <2>2, <3>1, <3>2, <4>1
    <3>3. CASE ~(i <= m) /\ i > N - n
      <4>1. i - (N - n) \in 1 .. k
        BY <2>2, <3>3
      <4>. QED
        BY <1>5, <1>6, <2>1, <3>1, <3>3, <4>1
    <3>4. CASE ~(i <= m) /\ ~(i > N - n)
      BY <1>5, <1>6, <3>1, <3>4
    <3>. QED
      BY <3>2, <3>3, <3>4
  <2>4. /\ ~(N - 1 <= m) /\ N - 1 > N - n /\ (N - 1) - (N - n) = k + 1
        /\ ~(N <= m) /\ N > N - n /\ N - (N - n) = k + 2
    BY <1>4, <2>2
  <2>5. Spelled(t)[N - 1] = High(t.v4) /\ Expand(t)[N - 1] = 0
    BY <1>5, <1>6, <1>8, <2>1, <2>4
  <2>6. Spelled(t)[N] = Low(t.v4) /\ Expand(t)[N] = 0
    BY <1>5, <1>6, <1>8, <2>1, <2>4
  <2>. QED
    BY <1>3, <1>10, <2>3, <2>5, <2>6 DEF SpelledAs
<1>. QED
  BY <1>7, <1>9, <1>10 DEF V6Text

(* Writing the dotted ending over the low bits gives what is spelled out. *)
LEMMA SpelledValue ==
  \A t \in V6Text : t.v4 # Null /\ DotsGood(t.v4) /\ Fits(t) =>
    LET low == 2 ^ (4 * Half)
    IN (Shifted(Expand(t), 2 * Half) \div low) * low + ParseIpv4(t.v4) = Shifted(Spelled(t), 2 * Half)
<1>. SUFFICES ASSUME NEW t \in V6Text, t.v4 # Null, DotsGood(t.v4), Fits(t)
              PROVE  LET low == 2 ^ (4 * Half)
                     IN (Shifted(Expand(t), 2 * Half) \div low) * low + ParseIpv4(t.v4)
                          = Shifted(Spelled(t), 2 * Half)
  OBVIOUS
<1>1. PICK N \in Nat, k \in Nat, bits \in Nat : N = Groups /\ N = k + 2 /\ bits = 2 * Half
  BY Room, Formats
<1>2. PICK b \in Nat \ {0} : b = 2 ^ bits
  BY PowersDouble
<1>3. 2 ^ (4 * Half) = b * b
  <2>1. 4 * Half = bits + bits
    BY <1>1, Formats
  <2>. QED
    BY <1>2, <2>1, PowersMultiply
<1>4. PICK x \in Nat, y \in 0 .. b - 1 :
        /\ x \in 0 .. b - 1
        /\ x = High(t.v4) /\ y = Low(t.v4) /\ ParseIpv4(t.v4) = x * b + y
  <2>1. t.v4 \in Seq(Nat)
    BY DEF V6Text
  <2>. QED
    BY <1>1, <1>2, <2>1, DotsValue, Formats
<1>5. PICK e \in Seq(Nat) : e = Expand(t) /\ Len(e) = N
  BY <1>1, Expands
<1>6. PICK s \in Seq(Nat) : s = Spelled(t) /\ Len(s) = N
  <2>1. Spelled(t) \in [1 .. N -> Group]
    BY <1>1, SpelledFits DEF FitsSpelled, Address
  <2>2. Spelled(t) \in Seq(Nat) /\ DOMAIN Spelled(t) = 1 .. N
    BY <2>1, Formats
  <2>3. Len(Spelled(t)) = N
    BY <2>2, LenProperties
  <2>. QED
    BY <2>2, <2>3
<1>7. /\ \A i \in 1 .. k : e[i] = s[i]
      /\ e[k + 1] = 0 /\ e[k + 2] = 0 /\ s[k + 1] = x /\ s[k + 2] = y
  <2>1. N - 2 = k /\ N - 1 = k + 1
    BY <1>1
  <2>2. SpelledAs(t)
    BY SpelledExpanded
  <2>. QED
    BY <1>1, <1>4, <1>5, <1>6, <2>1, <2>2 DEF SpelledAs
<1>8. PICK f : Accumulates(e, bits, N, f) /\ Shifted(e, bits) = f[N]
  BY <1>5, ShiftedAccumulates
<1>9. PICK g : Accumulates(s, bits, N, g) /\ Shifted(s, bits) = g[N]
  BY <1>6, ShiftedAccumulates
<1>10. k \in 0 .. N /\ k + 1 \in 0 .. N /\ k + 2 \in 0 .. N /\ k + 1 # 0 /\ k + 2 # 0
       /\ (k + 1) - 1 = k /\ (k + 2) - 1 = k + 1 /\ k <= N
  BY <1>1
<1>11. f[k] = g[k]
  <2>1. N \in Nat /\ k \in 0 .. N /\ k <= N
    BY <1>10
  <2>2. \A i \in 1 .. k : e[i] = s[i]
    BY <1>7
  <2>3. Accumulates(e, bits, N, f) /\ Accumulates(s, bits, N, g)
    BY <1>8, <1>9
  <2>4. \A m, n \in Nat : \A l \in 0 .. m :
          /\ Accumulates(e, bits, m, f) /\ Accumulates(s, bits, n, g)
          /\ l <= n /\ (\A i \in 1 .. l : e[i] = s[i])
          => f[l] = g[l]
    BY AccumulateAlike
  <2>5. Accumulates(e, bits, N, f) /\ Accumulates(s, bits, N, g)
          /\ k <= N /\ (\A i \in 1 .. k : e[i] = s[i])
          => f[k] = g[k]
    BY <2>1, <2>4
  <2>. QED
    BY <2>1, <2>2, <2>3, <2>5
<1>12. PICK u \in Nat : u = f[k]
  BY <1>8, <1>10 DEF Accumulates
<1>13. f[k + 1] = u * b + 0 /\ f[k + 2] = f[k + 1] * b + 0
  BY <1>2, <1>7, <1>8, <1>10, <1>12 DEF Accumulates
<1>14. g[k + 1] = u * b + x /\ g[k + 2] = g[k + 1] * b + y
  BY <1>2, <1>7, <1>9, <1>10, <1>11, <1>12 DEF Accumulates
<1>15. f[N] = (b * b) * u + 0
  <2>1. f[k + 2] = (u * b) * b
    BY <1>13
  <2>2. (u * b) * b = (b * b) * u
    OBVIOUS
  <2>. QED
    BY <1>1, <2>1, <2>2
<1>16. f[N] \div (b * b) = u
  <2>1. PICK d \in Nat \ {0} : d = b * b
    OBVIOUS
  <2>. QED
    BY <1>15, <2>1, QuotientIs
<1>17. g[N] = (u * b + x) * b + y
  BY <1>1, <1>14
<1>18. u * (b * b) + (x * b + y) = (u * b + x) * b + y
  OBVIOUS
<1>. QED
  BY <1>1, <1>3, <1>4, <1>5, <1>6, <1>8, <1>9, <1>16, <1>17, <1>18

(* An IPv6 text is parsed as what it denotes. *)
LEMMA ParsedAsDenoted ==
  \A t \in V6Text :
    IF Denotes(t) = {} THEN ParseIp(t) = Null
    ELSE \E a \in Denotes(t) : Denotes(t) = {a} /\ ParseIp(t) = Shifted(a, 2 * Half)
<1>. SUFFICES ASSUME NEW t \in V6Text
              PROVE  IF Denotes(t) = {} THEN ParseIp(t) = Null
                     ELSE \E a \in Denotes(t) : Denotes(t) = {a} /\ ParseIp(t) = Shifted(a, 2 * Half)
  OBVIOUS
<1>1. t.fam = 6 /\ t.v4 \in Seq(Nat) \cup {Null}
  BY DEF V6Text
<1>2. ParseIp(t) = ParseIpv6(t)
  BY <1>1 DEF ParseIp
<1>3. CASE t.v4 # Null /\ ~DotsGood(t.v4)
  <2>1. t.v4 \in Seq(Nat)
    BY <1>1, <1>3
  <2>2. Len(t.v4) # 4 \/ ~(Range(t.v4) \subseteq Part)
    BY <1>3, <2>1, RangeWithin DEF DotsGood
  <2>3. Denotes(t) = {}
    BY <1>3, <2>2 DEF Denotes
  <2>4. ParseIpv4(t.v4) = Null
    BY <2>2 DEF ParseIpv4
  <2>5. ParseIpv6(t) = Null
    BY <1>3, <2>4 DEF ParseIpv6
  <2>. QED
    BY <1>2, <2>3, <2>5
<1>4. CASE (t.v4 # Null => DotsGood(t.v4)) /\ ~Fits(t)
  <2>1. Denotes(t) = {}
    BY <1>4, DenotesSpelled, SpelledFits
  <2>2. ParseIpv6(t) = Null
    BY <1>4, Expands DEF ParseIpv6
  <2>. QED
    BY <1>2, <2>1, <2>2
<1>5. CASE (t.v4 # Null => DotsGood(t.v4)) /\ Fits(t)
  <2>1. Denotes(t) = {Spelled(t)}
    BY <1>5, DenotesSpelled, SpelledFits
  <2>2. Expand(t) # Null
    BY <1>5, Expands
  <2>3. CASE t.v4 = Null
    <3>1. ParseIpv6(t) = Shifted(Expand(t), 2 * Half)
      BY <2>2, <2>3 DEF ParseIpv6
    <3>2. Expand(t) = Spelled(t)
      <4>1. Expand(t) \in Seq(Nat) /\ Len(Expand(t)) = Groups
        BY <1>5, Expands
      <4>2. DOMAIN Expand(t) = 1 .. Groups /\ Expand(t) = [i \in 1 .. Groups |-> Expand(t)[i]]
        BY <4>1, LenProperties
      <4>3. Spelled(t) = [i \in 1 .. Groups |-> Spelled(t)[i]]
        BY DEF Spelled
      <4>4. \A i \in 1 .. Groups : Spelled(t)[i] = Expand(t)[i]
        BY <1>5, <2>3, SpelledExpanded DEF SpelledAs
      <4>. QED
        BY <4>2, <4>3, <4>4
    <3>. QED
      BY <1>2, <2>1, <3>1, <3>2
  <2>4. CASE t.v4 # Null
    <3>1. ParseIpv4(t.v4) # Null
      <4>1. ParseIpv4(t.v4) \in 0 .. 2 ^ (4 * Half) - 1
        BY <1>1, <1>5, <2>4, Ipv4Parsed DEF DotsGood
      <4>2. \A n \in Int : ParseIpv4(t.v4) \in 0 .. n => ParseIpv4(t.v4) \in Nat
        OBVIOUS
      <4>3. 2 ^ (4 * Half) - 1 \in Int
        <5>1. 4 * Half \in Nat
          BY Formats
        <5>. QED
          BY <5>1, PowersDouble
      <4>. QED
        BY <4>1, <4>2, <4>3, Formats
    <3>2. ParseIpv6(t) = (Shifted(Expand(t), 2 * Half) \div 2 ^ (4 * Half)) * 2 ^ (4 * Half)
                           + ParseIpv4(t.v4)
      BY <2>2, <2>4, <3>1 DEF ParseIpv6
    <3>3. ParseIpv6(t) = Shifted(Spelled(t), 2 * Half)
      BY <1>5, <2>4, <3>2, SpelledValue
    <3>. QED
      BY <1>2, <2>1, <3>3
  <2>. QED
    BY <2>3, <2>4
<1>. QED
  BY <1>3, <1>4, <1>5

(* Every IPv6 text, compressed or with a dotted ending or both, of any      *)
(* groups, is parsed as the one address it denotes, and as nothing when it  *)
(* denotes none: the placeholder groups for a dotted ending and the bits    *)
(* that overwrite them never leave a trace (parseIpv6, cidr.ts:24-79).      *)
THEOREM TextsAreParsed == AllowlistSpec => []ParsesTheAddress
<1>. DEFINE Asks == ip \in Texts
<1>1. AllowlistInit => Asks
  BY DEF AllowlistInit
<1>2. Asks /\ [AllowlistNext]_allowlistVars => Asks'
  BY DEF AllowlistNext, Reject, TryEntry, Exhausted, allowlistVars
<1>3. Asks => ParsesTheAddress
  <2>. SUFFICES ASSUME ip \in Texts, ip.fam = 6
                PROVE  IF Denotes(ip) = {} THEN ParseIp(ip) = Null
                       ELSE \E a \in Denotes(ip) : Denotes(ip) = {a} /\ ParseIp(ip) = Shifted(a, 2 * Half)
    BY DEF ParsesTheAddress
  <2>1. ip \in V6Text
    BY TextsAssumption DEF V4Text
  <2>. QED
    BY <2>1, ParsedAsDenoted
<1>. QED
  BY <1>1, <1>2, <1>3, PTL DEF AllowlistSpec

-----------------------------------------------------------------------------
(* An address is read as it was meant, however it is written. *)
LEMMA AddressRead ==
  \A x \in Listen : \A text \in WaysToWrite(x.host, x.port) :
    ParseAddr(text) = [host |-> IF x.host = << >> THEN DefaultHost ELSE x.host,
                       port |-> IF x.port = << >> THEN DefaultPort ELSE x.port[1]]
<1>. SUFFICES ASSUME NEW x \in Listen, NEW text \in WaysToWrite(x.host, x.port)
              PROVE  ParseAddr(text) = [host |-> IF x.host = << >> THEN DefaultHost ELSE x.host,
                                        port |-> IF x.port = << >> THEN DefaultPort ELSE x.port[1]]
  OBVIOUS
<1>1. x.host = << >> \/ x.host \in Names \/ x.host \in V6
  BY DEF Listen
<1>2. \A p \in Names : \E w \in HostParts : p = <<Word(w)>>
  BY DEF Names
<1>3. \A w \in HostParts : HostOf(Word(w)) = <<Word(w)>>
  <2>1. ASSUME NEW w \in HostParts
        PROVE  Word(w) # Empty
    <3>1. w # ""
      BY SettingsAssumption
    <3>2. Word(w).word = w /\ Empty.word = ""
      BY DEF Word, Empty
    <3>. QED
      BY <3>1, <3>2
  <2>. QED
    BY <2>1 DEF HostOf
<1>4. \A p \in V6 : Len(p) = 3
  <2>. DEFINE D == {Word(w) : w \in HostParts} \cup {Digits(n) : n \in Numbers} \cup {Empty}
  <2>1. V6 \subseteq Seq(D)
    <3>1. V6 = [1 .. 3 -> D]
      BY DEF V6
    <3>. HIDE DEF D
    <3>. QED
      BY <3>1, SeqDef
  <2>2. \A p \in V6 : DOMAIN p = 1 .. 3
    BY DEF V6
  <2>. QED
    <3>. HIDE DEF D
    <3>. QED
      BY <2>1, <2>2, LenProperties
<1>5. x.port = << >> \/ \E n \in Numbers : x.port = <<n>>
  BY DEF Listen
<1>6. \A n : PortOf(Digits(n)) = n
  <2>. SUFFICES ASSUME NEW n
                PROVE  PortOf(Digits(n)) = n
    OBVIOUS
  <2>1. DOMAIN Digits(n) = {"number"} /\ Digits(n).number = n
    BY DEF Digits
  <2>2. DOMAIN Empty = {"word"}
    BY DEF Empty
  <2>3. Digits(n) # Empty
    BY <2>1, <2>2
  <2>. QED
    BY <2>1, <2>3 DEF PortOf
<1>7. HostOf(Empty) = DefaultHost
  BY DEF HostOf
<1>8. \A p : /\ ParseAddr(Plain(p)) = ParsePlain(p)
             /\ \A a : ParseAddr(Bracketed(p, a)) = ParseBracketed(p, a)
  BY DEF ParseAddr, Plain, Bracketed
<1>9. CASE x.port = << >> /\ x.host = << >>
  <2>1. text = Plain(<<Empty>>)
    BY <1>9 DEF WaysToWrite
  <2>2. ParsePlain(<<Empty>>) = [host |-> DefaultHost, port |-> DefaultPort]
    BY <1>7 DEF ParsePlain
  <2>. QED
    BY <1>8, <1>9, <2>1, <2>2
<1>10. CASE x.port = << >> /\ x.host # << >>
  <2>1. text = Plain(x.host) \/ text = Bracketed(x.host, << >>)
    BY <1>10 DEF WaysToWrite
  <2>2. ParsePlain(x.host) = [host |-> x.host, port |-> DefaultPort]
    <3>1. CASE x.host \in Names
      <4>1. PICK w \in HostParts : x.host = <<Word(w)>>
        BY <1>2, <3>1
      <4>. QED
        BY <1>3, <4>1 DEF ParsePlain
    <3>2. CASE x.host \in V6
      BY <1>4, <3>2 DEF ParsePlain
    <3>. QED
      BY <1>1, <1>10, <3>1, <3>2
  <2>3. ParseBracketed(x.host, << >>) = [host |-> x.host, port |-> DefaultPort]
    BY DEF ParseBracketed
  <2>. QED
    BY <1>8, <1>10, <2>1, <2>2, <2>3
<1>11. CASE x.port # << >> /\ x.host = << >>
  <2>1. PICK n \in Numbers : x.port = <<n>>
    BY <1>5, <1>11
  <2>2. text = Plain(<<Empty, Digits(n)>>)
    BY <1>11, <2>1 DEF WaysToWrite
  <2>3. ParsePlain(<<Empty, Digits(n)>>) = [host |-> DefaultHost, port |-> n]
    BY <1>6, <1>7 DEF ParsePlain
  <2>. QED
    BY <1>8, <1>11, <2>1, <2>2, <2>3
<1>12. CASE x.port # << >> /\ x.host # << >>
  <2>1. PICK n \in Numbers : x.port = <<n>>
    BY <1>5, <1>12
  <2>2. \/ text = Bracketed(x.host, <<Digits(n)>>)
        \/ x.host \in Names /\ text = Plain(x.host \o <<Digits(n)>>)
    BY <1>12, <2>1 DEF WaysToWrite
  <2>3. ParseBracketed(x.host, <<Digits(n)>>) = [host |-> x.host, port |-> n]
    BY <1>6 DEF ParseBracketed
  <2>4. ASSUME x.host \in Names
        PROVE  ParsePlain(x.host \o <<Digits(n)>>) = [host |-> x.host, port |-> n]
    <3>1. PICK w \in HostParts : x.host = <<Word(w)>>
      BY <1>2, <2>4
    <3>2. PICK p : p = x.host \o <<Digits(n)>>
      OBVIOUS
    <3>3. Len(p) = 2 /\ p[1] = Word(w) /\ p[2] = Digits(n)
      <4>1. PICK u : u = Word(w)
        OBVIOUS
      <4>2. PICK v : v = Digits(n)
        OBVIOUS
      <4>3. <<u>> \in Seq({u, v}) /\ <<v>> \in Seq({u, v}) /\ Len(<<u>>) = 1 /\ Len(<<v>>) = 1
        OBVIOUS
      <4>4. p = <<u>> \o <<v>>
        BY <3>1, <3>2, <4>1, <4>2
      <4>. QED
        BY <4>1, <4>2, <4>3, <4>4, ConcatProperties
    <3>. QED
      BY <1>3, <1>6, <3>1, <3>2, <3>3 DEF ParsePlain
  <2>. QED
    BY <1>8, <1>12, <2>1, <2>2, <2>3, <2>4
<1>. QED
  BY <1>9, <1>10, <1>11, <1>12

(* A duration is the same time in the next finer unit. *)
LEMMA DurationRead ==
  \A n \in Nat : \A unit \in DOMAIN Finer :
    ParseCompactDuration(n, unit) = ParseCompactDuration(Finer[unit][1] * n, Finer[unit][2])
<1>. SUFFICES ASSUME NEW n \in Nat, NEW unit \in DOMAIN Finer
              PROVE  ParseCompactDuration(n, unit) = ParseCompactDuration(Finer[unit][1] * n, Finer[unit][2])
  OBVIOUS
<1>1. unit \in {"d", "h", "m", "s", "none"}
  BY DEF Finer
<1>2. /\ Finer["d"] = <<24, "h">> /\ Finer["h"] = <<60, "m">> /\ Finer["m"] = <<60, "s">>
      /\ Finer["s"] = <<1000, "ms">> /\ Finer["none"] = <<1, "s">>
  BY DEF Finer
<1>3. \A k \in Nat : /\ ParseCompactDuration(k, "ms") = k
                     /\ ParseCompactDuration(k, "s") = k * 1000
                     /\ ParseCompactDuration(k, "none") = k * 1000
                     /\ ParseCompactDuration(k, "m") = k * 60000
                     /\ ParseCompactDuration(k, "h") = k * 3600000
                     /\ ParseCompactDuration(k, "d") = k * 86400000
  BY DEF ParseCompactDuration
<1>4. 24 * n \in Nat /\ 60 * n \in Nat /\ 1000 * n \in Nat /\ 1 * n \in Nat
  OBVIOUS
<1>5. CASE unit = "d"
  BY <1>2, <1>3, <1>4, <1>5
<1>6. CASE unit = "h"
  BY <1>2, <1>3, <1>4, <1>6
<1>7. CASE unit = "m"
  BY <1>2, <1>3, <1>4, <1>7
<1>8. CASE unit = "s"
  BY <1>2, <1>3, <1>4, <1>8
<1>9. CASE unit = "none"
  BY <1>2, <1>3, <1>4, <1>9
<1>. QED
  BY <1>1, <1>5, <1>6, <1>7, <1>8, <1>9

(* A setting and what it was read as, if it was. *)
SettingInv ==
  /\ setting \in Addresses \cup Durations
  /\ result \in {<< >>, IF setting.kind = "address" THEN <<ParseAddr(setting.text)>>
                        ELSE <<ParseCompactDuration(setting.n, setting.unit)>>}

(* A setting that was read is the one that was meant. *)
LEMMA SettingRead == SettingInv => ReadsAsWritten
<1>. SUFFICES ASSUME SettingInv, result # << >>
              PROVE  IF setting.kind = "address"
                       THEN result[1] = [host |-> IF setting.meant.host = << >> THEN DefaultHost
                                                  ELSE setting.meant.host,
                                         port |-> IF setting.meant.port = << >> THEN DefaultPort
                                                  ELSE setting.meant.port[1]]
                       ELSE result[1] = ParseCompactDuration(Finer[setting.unit][1] * setting.n,
                                                             Finer[setting.unit][2])
  BY DEF ReadsAsWritten
<1>1. CASE setting \in Addresses
  <2>1. /\ setting.kind = "address" /\ setting.meant \in Listen
        /\ setting.text \in WaysToWrite(setting.meant.host, setting.meant.port)
    BY <1>1 DEF Addresses
  <2>2. result[1] = ParseAddr(setting.text)
    BY <2>1 DEF SettingInv
  <2>. QED
    BY <2>1, <2>2, AddressRead
<1>2. CASE setting \in Durations
  <2>1. setting.kind = "duration" /\ setting.n \in Nat /\ setting.unit \in DOMAIN Finer
    BY <1>2, SettingsAssumption DEF Durations
  <2>2. result[1] = ParseCompactDuration(setting.n, setting.unit)
    BY <2>1 DEF SettingInv
  <2>. QED
    BY <2>1, <2>2, DurationRead
<1>. QED
  BY <1>1, <1>2 DEF SettingInv

(* However an address to listen on is written, with brackets or without,    *)
(* with a port or none, with a host or none, it is read as the host and the *)
(* port it means, and a duration of any length is as long in every unit     *)
(* (parseCompactDuration and parseAddr, config.ts:14-34, 53-73).            *)
THEOREM SettingsAreRead == SettingsSpec => []ReadsAsWritten
<1>1. SettingsInit => SettingInv
  BY DEF SettingsInit, SettingInv
<1>2. SettingInv /\ [ReadSetting]_settingVars => SettingInv'
  BY DEF SettingInv, ReadSetting, settingVars
<1>. QED
  BY <1>1, <1>2, SettingRead, PTL DEF SettingsSpec
=============================================================================
