--------------------------- MODULE SequenceLemmas ---------------------------
(***************************************************************************)
(* What the components' proofs need of sequences without repetition: the   *)
(* driver's lists, to which entries are added at either end and from which *)
(* they are deleted wherever they are.  Induction is by sets of numbers.   *)
(***************************************************************************)
EXTENDS Integers, SequencesExt, SequenceTheorems, WellFoundedInduction, TLAPS

(* The entry x is on the list s, and no entry is on it twice. *)
Listed(x, s) == \E i \in 1..Len(s) : s[i] = x
NoneTwice(s) == \A i, j \in 1..Len(s) : s[i] = s[j] => i = j

-----------------------------------------------------------------------------
(* Natural numbers *)

(* Every set of naturals that is not empty has a least element. *)
LEMMA LeastNatural ==
    ASSUME NEW T, T \subseteq Nat, T # {}
    PROVE  \E x \in T : \A y \in T : x <= y
  <1> DEFINE R == OpToRel(<, Nat)
  <1>1. IsWellFoundedOn(R, Nat)
    BY NatLessThanWellFounded
  <1>2. \A x, y \in Nat : y < x => <<y, x>> \in R
    BY DEF OpToRel
  <1> HIDE DEF R
  <1>3. PICK x \in T : \A y \in T : ~(<<y, x>> \in R)
    BY <1>1, WFMin
  <1>4. ASSUME NEW y \in T PROVE x <= y
    <2>1. x \in Nat /\ y \in Nat
      OBVIOUS
    <2>2. ~(y < x)
      BY <1>2, <1>3, <2>1
    <2> QED
      BY <2>1, <2>2
  <1> QED
    BY <1>4

(* Induction: a set that holds 0 and is closed under successor holds Nat. *)
LEMMA SetInduction ==
    ASSUME NEW S, 0 \in S, \A n \in Nat : n \in S => n + 1 \in S
    PROVE  Nat \subseteq S
  <1> SUFFICES ASSUME Nat \ S # {} PROVE FALSE
    OBVIOUS
  <1>1. PICK x \in Nat \ S : \A y \in Nat \ S : x <= y
    BY LeastNatural
  <1>2. x - 1 \in Nat /\ x - 1 \in S
    BY <1>1
  <1> QED
    BY <1>1, <1>2

-----------------------------------------------------------------------------
(* Adding at the ends *)

(* What list_add_tail leaves: the new entry last, the others as they were. *)
LEMMA AppendListed ==
    ASSUME NEW A, NEW s \in Seq(A), NEW e \in A
    PROVE  /\ Append(s, e) \in Seq(A) /\ Append(s, e) # << >>
           /\ \A x : Listed(x, Append(s, e)) <=> x = e \/ Listed(x, s)
           /\ ~Listed(e, s) /\ NoneTwice(s) => NoneTwice(Append(s, e))
  <1> DEFINE t == Append(s, e)
  <1>1. t \in Seq(A) /\ Len(t) = Len(s) + 1 /\ Len(s) \in Nat /\ t # << >>
    OBVIOUS
  <1>2. t[Len(s) + 1] = e /\ \A i \in 1..Len(s) : t[i] = s[i]
    OBVIOUS
  <1> HIDE DEF t
  <1>3. 1..Len(t) = 1..Len(s) \cup {Len(s) + 1}
    BY <1>1
  <1>4. \A x : Listed(x, t) <=> x = e \/ Listed(x, s)
    BY <1>2, <1>3 DEF Listed
  <1>5. ~Listed(e, s) /\ NoneTwice(s) => NoneTwice(t)
    BY <1>1, <1>2, <1>3 DEF Listed, NoneTwice
  <1> QED
    BY <1>1, <1>4, <1>5 DEF t

-----------------------------------------------------------------------------
(* Deleting *)

(* RemoveFirst takes out one place where the entry is. *)
LEMMA RemoveFirstAt ==
    ASSUME NEW A, NEW s \in Seq(A), NEW e, Listed(e, s)
    PROVE  \E j \in 1..Len(s) : s[j] = e /\ RemoveFirst(s, e) = RemoveAt(s, j)
  <1> DEFINE I == {k \in 1..Len(s) : s[k] = e}
  <1>1. I # {} /\ I \subseteq Nat
    BY DEF Listed
  <1>2. RemoveFirst(s, e) = RemoveAt(s, Min(I))
    BY <1>1 DEF RemoveFirst, SelectInSeq
  <1> HIDE DEF I
  <1>3. PICK x \in I : \A y \in I : x <= y
    BY <1>1, LeastNatural
  <1>4. Min(I) \in I
    BY <1>3 DEF Min
  <1> QED
    BY <1>2, <1>4 DEF I

(* The places after the one taken out move up by one. *)
LEMMA RemoveAtPlaces ==
    ASSUME NEW A, NEW s \in Seq(A), NEW j \in 1..Len(s)
    PROVE  /\ RemoveAt(s, j) \in Seq(A)
           /\ Len(RemoveAt(s, j)) = Len(s) - 1
           /\ \A i \in 1..(Len(s) - 1) : RemoveAt(s, j)[i] = IF i < j THEN s[i] ELSE s[i + 1]
  <1> DEFINE p == SubSeq(s, 1, j - 1)
             q == SubSeq(s, j + 1, Len(s))
  <1>1. p \in Seq(A) /\ Len(p) = j - 1 /\ \A i \in 1..(j - 1) : p[i] = s[i]
    OBVIOUS
  <1>2. q \in Seq(A) /\ Len(q) = Len(s) - j /\ \A i \in 1..(Len(s) - j) : q[i] = s[j + i]
    OBVIOUS
  <1>3. RemoveAt(s, j) = p \o q
    BY DEF RemoveAt
  <1> HIDE DEF p, q
  <1>4. Len(p \o q) = Len(s) - 1 /\ p \o q \in Seq(A)
    <2>1. p \o q \in Seq(A) /\ Len(p \o q) = Len(p) + Len(q)
      BY <1>1, <1>2, ConcatProperties
    <2> QED
      BY <2>1, <1>1, <1>2
  <1>5. ASSUME NEW i \in 1..(Len(s) - 1)
        PROVE  (p \o q)[i] = IF i < j THEN s[i] ELSE s[i + 1]
    <2>1. CASE i < j
      BY <2>1, <1>1, <1>2
    <2>2. CASE ~(i < j)
      <3>1. (p \o q)[i] = q[i - (j - 1)]
        BY <2>2, <1>1, <1>2
      <3>2. i - (j - 1) \in 1..(Len(s) - j) /\ j + (i - (j - 1)) = i + 1
        BY <2>2
      <3> QED
        BY <2>2, <3>1, <3>2, <1>2
    <2> QED
      BY <2>1, <2>2
  <1> QED
    BY <1>3, <1>4, <1>5

(* What list_del leaves of a list that holds the entry once: the others. *)
LEMMA RemoveFirstListed ==
    ASSUME NEW A, NEW s \in Seq(A), NEW e, NoneTwice(s)
    PROVE  /\ RemoveFirst(s, e) \in Seq(A)
           /\ \A x : Listed(x, RemoveFirst(s, e)) <=> x # e /\ Listed(x, s)
           /\ NoneTwice(RemoveFirst(s, e))
  <1>1. CASE ~Listed(e, s)
    <2>1. RemoveFirst(s, e) = s
      BY <1>1 DEF RemoveFirst, Listed
    <2> QED
      BY <1>1, <2>1
  <1>2. CASE Listed(e, s)
    <2>1. PICK j \in 1..Len(s) : s[j] = e /\ RemoveFirst(s, e) = RemoveAt(s, j)
      BY <1>2, RemoveFirstAt
    <2> DEFINE t == RemoveFirst(s, e)
    <2>2. t \in Seq(A) /\ Len(t) = Len(s) - 1 /\ Len(s) \in Nat
      BY <2>1, RemoveAtPlaces
    <2>3. \A i \in 1..(Len(s) - 1) : t[i] = IF i < j THEN s[i] ELSE s[i + 1]
      BY <2>1, RemoveAtPlaces
    <2> HIDE DEF t
    <2>4. ASSUME NEW x, Listed(x, t) PROVE x # e /\ Listed(x, s)
      <3>1. PICK i \in 1..(Len(s) - 1) : t[i] = x
        BY <2>4, <2>2 DEF Listed
      <3>2. CASE i < j
        BY <3>1, <3>2, <2>1, <2>2, <2>3 DEF Listed, NoneTwice
      <3>3. CASE ~(i < j)
        <4>1. i + 1 \in 1..Len(s) /\ i + 1 # j /\ s[i + 1] = x
          BY <3>1, <3>3, <2>2, <2>3
        <4> QED
          BY <4>1, <2>1 DEF Listed, NoneTwice
      <3> QED
        BY <3>2, <3>3
    <2>5. ASSUME NEW x, x # e, Listed(x, s) PROVE Listed(x, t)
      <3>1. PICK i \in 1..Len(s) : s[i] = x
        BY <2>5 DEF Listed
      <3>2. CASE i < j
        <4>1. i \in 1..Len(t) /\ t[i] = x
          BY <3>1, <3>2, <2>2, <2>3
        <4> QED
          BY <4>1 DEF Listed
      <3>3. CASE ~(i < j)
        <4>1. i # j
          BY <3>1, <2>1, <2>5
        <4>2. i - 1 \in 1..(Len(s) - 1) /\ ~(i - 1 < j) /\ (i - 1) + 1 = i
          BY <4>1, <3>3, <2>2
        <4>3. t[i - 1] = x
          BY <3>1, <4>2, <2>3
        <4> QED
          BY <4>2, <4>3, <2>2 DEF Listed
      <3> QED
        BY <3>2, <3>3
    <2>6. ASSUME NEW i \in 1..Len(t), NEW k \in 1..Len(t), t[i] = t[k] PROVE i = k
      <3> DEFINE up(n) == IF n < j THEN n ELSE n + 1
      <3>1. up(i) \in 1..Len(s) /\ up(k) \in 1..Len(s) /\ s[up(i)] = t[i] /\ s[up(k)] = t[k]
        BY <2>2, <2>3
      <3>2. up(i) = up(k)
        BY <3>1, <2>6 DEF NoneTwice
      <3> QED
        BY <3>2, <2>2
    <2> QED
      BY <2>2, <2>4, <2>5, <2>6 DEF t, NoneTwice
  <1> QED
    BY <1>1, <1>2

(* What is left when the first entry is taken: the others. *)
LEMMA TailListed ==
    ASSUME NEW A, NEW s \in Seq(A), s # << >>, NoneTwice(s)
    PROVE  /\ Tail(s) \in Seq(A) /\ Len(Tail(s)) = Len(s) - 1 /\ s[1] \in A
           /\ \A i \in 1..(Len(s) - 1) : Tail(s)[i] = s[i + 1]
           /\ \A x : Listed(x, Tail(s)) <=> x # s[1] /\ Listed(x, s)
           /\ NoneTwice(Tail(s))
  <1> DEFINE t == Tail(s)
  <1>1. /\ t \in Seq(A) /\ Len(t) = Len(s) - 1 /\ Len(s) \in Nat /\ Len(s) >= 1 /\ s[1] \in A
        /\ \A i \in 1..(Len(s) - 1) : t[i] = s[i + 1]
    OBVIOUS
  <1> HIDE DEF t
  <1>2. ASSUME NEW x, Listed(x, t) PROVE x # s[1] /\ Listed(x, s)
    <2>1. PICK i \in 1..(Len(s) - 1) : t[i] = x
      BY <1>1, <1>2 DEF Listed
    <2>2. i + 1 \in 1..Len(s) /\ 1 \in 1..Len(s) /\ i + 1 # 1 /\ s[i + 1] = x
      BY <1>1, <2>1
    <2> QED
      BY <2>2 DEF Listed, NoneTwice
  <1>3. ASSUME NEW x, x # s[1], Listed(x, s) PROVE Listed(x, t)
    <2>1. PICK i \in 1..Len(s) : s[i] = x
      BY <1>3 DEF Listed
    <2>2. i - 1 \in 1..(Len(s) - 1) /\ (i - 1) + 1 = i
      BY <1>1, <1>3, <2>1
    <2>3. t[i - 1] = x
      BY <1>1, <2>1, <2>2
    <2> QED
      BY <1>1, <2>2, <2>3 DEF Listed
  <1>4. NoneTwice(t)
    <2> SUFFICES ASSUME NEW i \in 1..Len(t), NEW j \in 1..Len(t), t[i] = t[j] PROVE i = j
      BY DEF NoneTwice
    <2>1. i + 1 \in 1..Len(s) /\ j + 1 \in 1..Len(s) /\ s[i + 1] = s[j + 1]
      BY <1>1
    <2>2. i + 1 = j + 1
      BY <2>1 DEF NoneTwice
    <2> QED
      BY <1>1, <2>2
  <1> QED
    BY <1>1, <1>2, <1>3, <1>4 DEF t

-----------------------------------------------------------------------------
(* Joining *)

(* The list u is the list s with the list t put in after its k-th place. *)
Woven(u, s, k, t) ==
    /\ Len(u) = Len(s) + Len(t)
    /\ \A i \in 1..Len(u) :
         u[i] = IF i <= k THEN s[i] ELSE IF i <= k + Len(t) THEN t[i - k] ELSE s[i - Len(t)]

(* Joining two lists puts the one in at an end of the other. *)
LEMMA ConcatWoven ==
    ASSUME NEW A, NEW s \in Seq(A), NEW t \in Seq(A)
    PROVE  s \o t \in Seq(A) /\ Woven(s \o t, s, Len(s), t) /\ Woven(s \o t, t, 0, s)
  <1>1. /\ s \o t \in Seq(A) /\ Len(s \o t) = Len(s) + Len(t) /\ Len(s) \in Nat /\ Len(t) \in Nat
        /\ \A i \in 1..(Len(s) + Len(t)) :
             (s \o t)[i] = IF i <= Len(s) THEN s[i] ELSE t[i - Len(s)]
    BY ConcatProperties
  <1> DEFINE u == s \o t
  <1> HIDE DEF u
  <1>2. Woven(u, s, Len(s), t)
    BY <1>1 DEF Woven, u
  <1>3. Woven(u, t, 0, s)
    BY <1>1 DEF Woven, u
  <1> QED
    BY <1>1, <1>2, <1>3 DEF u

(* Appending an entry joins a list of one. *)
LEMMA AppendWoven ==
    ASSUME NEW A, NEW s \in Seq(A), NEW e \in A
    PROVE  Append(s, e) \in Seq(A) /\ Woven(Append(s, e), s, Len(s), <<e>>)
  <1>1. Len(<<e>>) = 1 /\ <<e>>[1] = e
    OBVIOUS
  <1> DEFINE t == <<e>>
  <1> HIDE DEF t
  <1>2. Len(t) = 1 /\ t[1] = e
    BY <1>1 DEF t
  <1>3. Woven(Append(s, e), s, Len(s), t)
    BY <1>2 DEF Woven
  <1> QED
    BY <1>3 DEF t

(* The joined list holds the entries of both. *)
LEMMA WovenListed ==
    ASSUME NEW A, NEW s \in Seq(A), NEW t \in Seq(A), NEW u \in Seq(A),
           NEW k \in 0..Len(s), Woven(u, s, k, t)
    PROVE  \A x : Listed(x, u) <=> Listed(x, s) \/ Listed(x, t)
  <1>1. Len(s) \in Nat /\ Len(t) \in Nat /\ Len(u) = Len(s) + Len(t)
    BY DEF Woven
  <1>2. ASSUME NEW x, Listed(x, u) PROVE Listed(x, s) \/ Listed(x, t)
    <2>1. PICK i \in 1..Len(u) : u[i] = x
      BY <1>2 DEF Listed
    <2>2. CASE i <= k
      BY <1>1, <2>1, <2>2 DEF Woven, Listed
    <2>3. CASE k < i /\ i <= k + Len(t)
      <3>1. i - k \in 1..Len(t) /\ t[i - k] = x
        BY <1>1, <2>1, <2>3 DEF Woven
      <3> QED
        BY <3>1 DEF Listed
    <2>4. CASE k + Len(t) < i
      <3>1. i - Len(t) \in 1..Len(s) /\ s[i - Len(t)] = x
        BY <1>1, <2>1, <2>4 DEF Woven
      <3> QED
        BY <3>1 DEF Listed
    <2> QED
      BY <1>1, <2>2, <2>3, <2>4
  <1>3. ASSUME NEW x, Listed(x, s) PROVE Listed(x, u)
    <2>1. PICK i \in 1..Len(s) : s[i] = x
      BY <1>3 DEF Listed
    <2>2. CASE i <= k
      BY <1>1, <2>1, <2>2 DEF Woven, Listed
    <2>3. CASE k < i
      <3>1. i + Len(t) \in 1..Len(u) /\ ~(i + Len(t) <= k) /\ ~(i + Len(t) <= k + Len(t))
            /\ (i + Len(t)) - Len(t) = i
        BY <1>1, <2>3
      <3>2. u[i + Len(t)] = x
        BY <3>1, <2>1 DEF Woven
      <3> QED
        BY <3>1, <3>2 DEF Listed
    <2> QED
      BY <1>1, <2>2, <2>3
  <1>4. ASSUME NEW x, Listed(x, t) PROVE Listed(x, u)
    <2>1. PICK i \in 1..Len(t) : t[i] = x
      BY <1>4 DEF Listed
    <2>2. i + k \in 1..Len(u) /\ ~(i + k <= k) /\ i + k <= k + Len(t) /\ (i + k) - k = i
      BY <1>1
    <2>3. u[i + k] = x
      BY <2>1, <2>2 DEF Woven
    <2> QED
      BY <2>2, <2>3 DEF Listed
  <1> QED
    BY <1>2, <1>3, <1>4

(* Joining lists that share no entry puts no entry in twice. *)
LEMMA WovenNoneTwice ==
    ASSUME NEW A, NEW s \in Seq(A), NEW t \in Seq(A), NEW u \in Seq(A),
           NEW k \in 0..Len(s), Woven(u, s, k, t),
           NoneTwice(s), NoneTwice(t), \A x : ~(Listed(x, s) /\ Listed(x, t))
    PROVE  NoneTwice(u)
  <1>1. Len(s) \in Nat /\ Len(t) \in Nat /\ Len(u) = Len(s) + Len(t)
    BY DEF Woven
  <1> DEFINE In(i) == k < i /\ i <= k + Len(t)
             at(i) == IF i <= k THEN i ELSE i - Len(t)
  <1>2. ASSUME NEW i \in 1..Len(u)
        PROVE  /\ In(i) => i - k \in 1..Len(t) /\ u[i] = t[i - k]
               /\ ~In(i) => at(i) \in 1..Len(s) /\ u[i] = s[at(i)]
    <2>1. CASE i <= k
      BY <1>1, <2>1 DEF Woven
    <2>2. CASE In(i)
      BY <1>1, <2>2 DEF Woven
    <2>3. CASE k + Len(t) < i
      BY <1>1, <2>3 DEF Woven
    <2> QED
      BY <1>1, <2>1, <2>2, <2>3
  <1>3. ASSUME NEW i \in 1..Len(u), NEW j \in 1..Len(u), u[i] = u[j] PROVE i = j
    <2>1. CASE In(i) /\ In(j)
      <3>1. /\ i - k \in 1..Len(t) /\ u[i] = t[i - k]
            /\ j - k \in 1..Len(t) /\ u[j] = t[j - k]
        BY <1>2, <2>1
      <3>2. i - k = j - k
        BY <1>3, <3>1 DEF NoneTwice
      <3> QED
        BY <3>2
    <2>2. CASE ~In(i) /\ ~In(j)
      <3>1. at(i) = at(j)
        <4>1. at(i) \in 1..Len(s) /\ at(j) \in 1..Len(s) /\ s[at(i)] = s[at(j)]
          BY <1>2, <1>3, <2>2
        <4> HIDE DEF at
        <4> QED
          BY <4>1 DEF NoneTwice
      <3> QED
        BY <3>1, <2>2, <1>1
    <2>3. In(i) <=> In(j)
      <3>1. In(i) => Listed(u[i], t)
        BY <1>2 DEF Listed
      <3>2. In(j) => Listed(u[j], t)
        BY <1>2 DEF Listed
      <3>3. ~In(i) => Listed(u[i], s)
        BY <1>2 DEF Listed
      <3>4. ~In(j) => Listed(u[j], s)
        BY <1>2 DEF Listed
      <3> QED
        BY <3>1, <3>2, <3>3, <3>4, <1>3
    <2> QED
      BY <2>1, <2>2, <2>3
  <1> QED
    BY <1>3 DEF NoneTwice
-----------------------------------------------------------------------------
(* Sums and concatenations *)

(* c[i] is the sum of the first i of n lengths. *)
Sums(c, n, len) ==
    /\ c \in [0 .. n -> Nat] /\ c[0] = 0
    /\ \A i \in 1 .. n : c[i] = c[i - 1] + len[i]

(* There are such sums. *)
LEMMA SumsExist ==
    ASSUME NEW n \in Nat, NEW len, \A i \in 1 .. n : len[i] \in Nat
    PROVE  \E c : Sums(c, n, len)
  <1> DEFINE S == {m \in Nat : m <= n => \E c : Sums(c, m, len)}
  <1>1. 0 \in S
    <2>1. Sums([i \in 0 .. 0 |-> 0], 0, len)
      BY DEF Sums
    <2> QED
      BY <2>1
  <1>2. ASSUME NEW m \in Nat, m \in S PROVE m + 1 \in S
    <2> SUFFICES ASSUME m + 1 <= n PROVE \E c : Sums(c, m + 1, len)
      OBVIOUS
    <2>1. PICK c : Sums(c, m, len)
      BY <1>2
    <2> DEFINE d == [i \in 0 .. (m + 1) |-> IF i = m + 1 THEN c[m] + len[m + 1] ELSE c[i]]
    <2>2. c \in [0 .. m -> Nat] /\ c[0] = 0 /\ \A i \in 1 .. m : c[i] = c[i - 1] + len[i]
      BY <2>1 DEF Sums
    <2>3. len[m + 1] \in Nat
      OBVIOUS
    <2>4. d \in [0 .. (m + 1) -> Nat] /\ d[0] = 0
      BY <2>2, <2>3
    <2>5. \A i \in 1 .. (m + 1) : d[i] = d[i - 1] + len[i]
      <3> TAKE i \in 1 .. (m + 1)
      <3>1. d[i - 1] = c[i - 1] /\ (i # m + 1 => d[i] = c[i]) /\ (i = m + 1 => d[i] = c[m] + len[m + 1])
        OBVIOUS
      <3> QED
        BY <2>2, <3>1
    <2> HIDE DEF d
    <2>6. Sums(d, m + 1, len)
      BY <2>4, <2>5 DEF Sums
    <2> QED
      BY <2>6
  <1>3. Nat \subseteq S
    BY <1>1, <1>2, SetInduction
  <1> QED
    BY <1>3

(* They are determined, and they grow. *)
LEMMA SumsUnique ==
    ASSUME NEW n \in Nat, NEW len, NEW c, NEW d, Sums(c, n, len), Sums(d, n, len)
    PROVE  c = d
  <1> DEFINE S == {m \in Nat : m <= n => c[m] = d[m]}
  <1>1. 0 \in S
    BY DEF Sums
  <1>2. ASSUME NEW m \in Nat, m \in S PROVE m + 1 \in S
    <2> SUFFICES ASSUME m + 1 <= n PROVE c[m + 1] = d[m + 1]
      OBVIOUS
    <2>1. c[m] = d[m] /\ m + 1 \in 1 .. n /\ (m + 1) - 1 = m
      BY <1>2
    <2>2. c[m + 1] = c[m] + len[m + 1] /\ d[m + 1] = d[m] + len[m + 1]
      BY <2>1 DEF Sums
    <2> QED
      BY <2>1, <2>2
  <1>3. Nat \subseteq S
    BY <1>1, <1>2, SetInduction
  <1>4. \A i \in 0 .. n : c[i] = d[i]
    BY <1>3
  <1> QED
    BY <1>4 DEF Sums

(* They grow. *)
LEMMA SumsGrow ==
    ASSUME NEW n \in Nat, NEW len, NEW c, Sums(c, n, len), \A i \in 1 .. n : len[i] \in Nat
    PROVE  \A i, j \in 0 .. n : i <= j => c[i] <= c[j]
  <1> SUFFICES ASSUME NEW i \in 0 .. n PROVE \A j \in 0 .. n : i <= j => c[i] <= c[j]
    OBVIOUS
  <1>0. \A j \in 0 .. n : c[j] \in Nat
    BY DEF Sums
  <1> DEFINE S == {m \in Nat : i + m <= n => c[i] <= c[i + m]}
  <1>1. 0 \in S
    BY <1>0
  <1>2. ASSUME NEW m \in Nat, m \in S PROVE m + 1 \in S
    <2> SUFFICES ASSUME i + (m + 1) <= n PROVE c[i] <= c[i + (m + 1)]
      OBVIOUS
    <2> DEFINE k == i + m + 1
    <2>1. c[i] <= c[i + m] /\ k \in 1 .. n /\ k - 1 = i + m /\ k = i + (m + 1) /\ i + m \in 0 .. n /\ k \in 0 .. n
      BY <1>2
    <2> HIDE DEF k
    <2>2. c[k] = c[k - 1] + len[k] /\ len[k] \in Nat
      BY <2>1 DEF Sums
    <2>3. c[i] \in Nat /\ c[i + m] \in Nat /\ c[k] \in Nat
      BY <1>0, <2>1
    <2> QED
      BY <2>1, <2>2, <2>3
  <1>3. Nat \subseteq S
    BY <1>1, <1>2, SetInduction
  <1>4. ASSUME NEW j \in 0 .. n, i <= j PROVE c[i] <= c[j]
    <2>1. j - i \in Nat /\ i + (j - i) = j
      BY <1>4
    <2> QED
      BY <1>3, <2>1
  <1> QED
    BY <1>4

(* Every place up to the sum is in one of the parts. *)
LEMMA SumsPlace ==
    ASSUME NEW n \in Nat, NEW len, NEW c, Sums(c, n, len), NEW x \in Nat, x < c[n]
    PROVE  \E i \in 1 .. n : c[i - 1] <= x /\ x < c[i]
  <1> DEFINE T == {i \in 0 .. n : x < c[i]}
  <1>1. n \in T /\ T \subseteq Nat /\ 0 \notin T
    BY DEF Sums
  <1> HIDE DEF T
  <1>2. PICK i \in T : \A j \in T : i <= j
    BY <1>1, LeastNatural
  <1>3. i \in 1 .. n /\ x < c[i]
    BY <1>1, <1>2 DEF T
  <1>4. i - 1 \in 0 .. n /\ i - 1 \notin T
    BY <1>1, <1>2, <1>3
  <1>5. c[i - 1] \in Nat /\ ~(x < c[i - 1])
    BY <1>4 DEF T, Sums
  <1> QED
    BY <1>3, <1>5

(* The equation in FlattenSeq, up to m. *)
IsFlat(f, ss, m) == f = [i \in 1 .. m |-> IF i = 1 THEN ss[i] ELSE f[i - 1] \o ss[i]]

Flat(ss) == CHOOSE f : IsFlat(f, ss, Len(ss))

(* There is such a table. *)
LEMMA FlatExists ==
    ASSUME NEW ss, NEW n \in Nat
    PROVE  \E f : IsFlat(f, ss, n)
  <1> DEFINE S == {k \in Nat : \E f : IsFlat(f, ss, k)}
  <1>1. 0 \in S
    <2>1. IsFlat([i \in 1 .. 0 |-> 0], ss, 0)
      BY DEF IsFlat
    <2> QED
      BY <2>1
  <1>2. ASSUME NEW k \in Nat, k \in S PROVE k + 1 \in S
    <2>1. PICK f : IsFlat(f, ss, k)
      BY <1>2
    <2> DEFINE last == IF k = 0 THEN ss[k + 1] ELSE f[k] \o ss[k + 1]
               h == [i \in 1 .. (k + 1) |-> IF i = k + 1 THEN last ELSE f[i]]
    <2>2. \A i \in 1 .. k : f[i] = IF i = 1 THEN ss[i] ELSE f[i - 1] \o ss[i]
      BY <2>1 DEF IsFlat
    <2>3. \A i \in 1 .. (k + 1) : h[i] = IF i = 1 THEN ss[i] ELSE h[i - 1] \o ss[i]
      <3> TAKE i \in 1 .. (k + 1)
      <3>1. CASE i = k + 1 /\ k = 0
        BY <3>1
      <3>2. CASE i = k + 1 /\ k # 0
        <4>1. i - 1 = k /\ i # 1 /\ k \in 1 .. (k + 1) /\ k # k + 1
          BY <3>2
        <4>2. h[i] = last /\ h[k] = f[k]
          BY <3>2, <4>1
        <4> QED
          BY <3>2, <4>1, <4>2
      <3>3. CASE i # k + 1
        <4>1. i \in 1 .. k /\ h[i] = f[i] /\ (i # 1 => h[i - 1] = f[i - 1])
          BY <3>3
        <4> QED
          BY <2>2, <4>1
      <3> QED
        BY <3>1, <3>2, <3>3
    <2>4. h = [i \in 1 .. (k + 1) |-> h[i]]
      OBVIOUS
    <2> HIDE DEF h
    <2>5. IsFlat(h, ss, k + 1)
      BY <2>3, <2>4 DEF IsFlat
    <2> QED
      BY <2>5
  <1>3. Nat \subseteq S
    BY <1>1, <1>2, SetInduction
  <1> QED
    BY <1>3

(* FlattenSeq takes its last row. *)
LEMMA FlattenIs ==
    ASSUME NEW ss
    PROVE  FlattenSeq(ss) = IF Len(ss) = 0 THEN ss ELSE Flat(ss)[Len(ss)]
  BY DEF FlattenSeq, Flat, IsFlat

(* The lengths of sequences, and their elements at the places of u. *)
PartsOf(ss, c, len) ==
    Sums(c, Len(ss), len) /\ \A i \in 1 .. Len(ss) : len[i] = Len(ss[i])

Flattened(u, ss, c, A) ==
    /\ u \in Seq(A) /\ Len(u) = c[Len(ss)]
    /\ \A i \in 1 .. Len(ss) : \A k \in 1 .. Len(ss[i]) : u[c[i - 1] + k] = ss[i][k]

(* What FlattenSeq holds at each place. *)
LEMMA FlattenPlaces ==
    ASSUME NEW A, NEW ss \in Seq(Seq(A)), NEW c, NEW len, PartsOf(ss, c, len)
    PROVE  Flattened(FlattenSeq(ss), ss, c, A)
  <1> SUFFICES ASSUME Sums(c, Len(ss), len), \A i \in 1 .. Len(ss) : len[i] = Len(ss[i])
               PROVE  /\ FlattenSeq(ss) \in Seq(A) /\ Len(FlattenSeq(ss)) = c[Len(ss)]
                      /\ \A i \in 1 .. Len(ss) : \A k \in 1 .. Len(ss[i]) : FlattenSeq(ss)[c[i - 1] + k] = ss[i][k]
    BY DEF PartsOf, Flattened
  <1> DEFINE n == Len(ss)
             f == Flat(ss)
  <1>1. n \in Nat /\ \A i \in 1 .. n : ss[i] \in Seq(A) /\ Len(ss[i]) \in Nat
    BY ElementOfSeq
  <1>2. IsFlat(f, ss, n)
    BY <1>1, FlatExists DEF Flat
  <1>3. \A i \in 1 .. n : f[i] = IF i = 1 THEN ss[i] ELSE f[i - 1] \o ss[i]
    BY <1>2 DEF IsFlat
  <1>4. c \in [0 .. n -> Nat] /\ c[0] = 0 /\ \A i \in 1 .. n : c[i] = c[i - 1] + Len(ss[i])
    BY DEF Sums
  <1> HIDE DEF f, n
  <1> DEFINE Good(g, m) == /\ g \in Seq(A) /\ Len(g) = c[m]
                           /\ \A i \in 1 .. m : \A k \in 1 .. Len(ss[i]) : g[c[i - 1] + k] = ss[i][k]
             S == {m \in Nat : m + 1 <= n => Good(f[m + 1], m + 1)}
  <1>5. 0 \in S
    <2> SUFFICES ASSUME 1 <= n PROVE Good(f[1], 1)
      OBVIOUS
    <2>1. f[1] = ss[1] /\ 1 \in 1 .. n
      BY <1>1, <1>3
    <2>2. c[1] = Len(ss[1])
      BY <1>1, <1>4, <2>1
    <2> QED
      BY <1>1, <1>4, <2>1, <2>2
  <1>6. ASSUME NEW m \in Nat, m \in S PROVE m + 1 \in S
    <2> SUFFICES ASSUME (m + 1) + 1 <= n PROVE Good(f[(m + 1) + 1], (m + 1) + 1)
      OBVIOUS
    <2> DEFINE j == m + 1
               g == f[j]
               t == ss[j + 1]
               h == f[j + 1]
    <2>1. j \in Nat /\ j \in 1 .. n /\ j + 1 \in 1 .. n /\ (j + 1) - 1 = j /\ j + 1 # 1
      BY <1>1
    <2>2. Good(g, j)
      BY <1>1, <1>6
    <2> HIDE DEF j
    <2>3. h = g \o t
      BY <1>3, <2>1
    <2>4. t \in Seq(A) /\ Len(t) \in Nat /\ c[j + 1] = c[j] + Len(t) /\ c[j] \in Nat
      BY <1>1, <1>4, <2>1
    <2> HIDE DEF g, t, h
    <2>5. /\ h \in Seq(A) /\ Len(h) = Len(g) + Len(t)
          /\ \A i \in 1 .. Len(g) + Len(t) : h[i] = IF i <= Len(g) THEN g[i] ELSE t[i - Len(g)]
      BY <2>2, <2>3, <2>4, ConcatProperties
    <2>6. ASSUME NEW i \in 1 .. (j + 1), NEW k \in 1 .. Len(ss[i]) PROVE h[c[i - 1] + k] = ss[i][k]
      <3>1. CASE i = j + 1
        <4>1. c[i - 1] = c[j] /\ ss[i] = t
          BY <2>1, <3>1 DEF t
        <4>2. k \in 1 .. Len(t) /\ c[j] + k \in 1 .. Len(g) + Len(t) /\ ~(c[j] + k <= Len(g)) /\ (c[j] + k) - Len(g) = k
          BY <2>2, <2>4, <4>1
        <4> QED
          BY <2>5, <4>1, <4>2
      <3>2. CASE i # j + 1
        <4>1. i \in 1 .. j /\ i \in 1 .. n /\ i - 1 \in 0 .. n
          BY <1>1, <2>1, <3>2
        <4>2. g[c[i - 1] + k] = ss[i][k]
          BY <2>2, <4>1
        <4>3. c[i - 1] + k \in 1 .. Len(g)
          <5>1. c[i] = c[i - 1] + Len(ss[i]) /\ c[i - 1] \in Nat /\ Len(ss[i]) \in Nat /\ c[i] \in Nat
            BY <1>1, <1>4, <4>1
          <5>2. c[i] <= c[j]
            <6>1. i \in 0 .. n /\ j \in 0 .. n /\ i <= j
              BY <2>1, <4>1
            <6>2. \A a \in 1 .. n : len[a] \in Nat
              BY <1>1 DEF n
            <6>3. Sums(c, n, len)
              BY DEF n
            <6>4. \A x, y \in 0 .. n : x <= y => c[x] <= c[y]
              BY <1>1, <6>2, <6>3, SumsGrow
            <6> QED
              BY ONLY <6>1, <6>4
          <5>3. Len(g) = c[j] /\ c[j] \in Nat
            BY <2>2, <2>4
          <5>4. k \in Nat /\ k >= 1 /\ k <= Len(ss[i])
            BY <5>1
          <5> QED
            BY ONLY <5>1, <5>2, <5>3, <5>4
        <4>4. \A x \in 1 .. Len(g) : h[x] = g[x]
          BY <2>2, <2>4, <2>5
        <4> QED
          BY <4>2, <4>3, <4>4
      <3> QED
        BY <3>1, <3>2
    <2>7. Good(h, j + 1)
      BY <2>2, <2>4, <2>5, <2>6
    <2> QED
      BY <2>7 DEF h, j
  <1>7. Nat \subseteq S
    BY <1>5, <1>6, SetInduction
  <1>8. CASE n = 0
    <2>1. ss = << >>
      BY <1>1, <1>8, EmptySeq DEF n
    <2>2. FlattenSeq(ss) = << >>
      BY <1>8, <2>1, FlattenIs DEF n
    <2> QED
      BY <1>4, <1>8, <2>2 DEF n
  <1>9. CASE n # 0
    <2>1. n - 1 \in Nat /\ (n - 1) + 1 = n
      BY <1>1, <1>9
    <2>2. Good(f[n], n)
      <3> HIDE DEF Good
      <3>1. \A m \in Nat : m + 1 <= n => Good(f[m + 1], m + 1)
        BY <1>7
      <3>2. (n - 1) + 1 <= n
        BY <1>1, <2>1
      <3>3. Good(f[(n - 1) + 1], (n - 1) + 1)
        BY <2>1, <3>1, <3>2, Zenon
      <3> QED
        BY <2>1, <3>3, Zenon
    <2>3. FlattenSeq(ss) = f[n]
      BY <1>9, FlattenIs DEF n, f
    <2> QED
      BY <2>2, <2>3 DEF n
  <1> QED
    BY <1>8, <1>9
=============================================================================
