--------------------------- MODULE BlockIoProofs ---------------------------
(***************************************************************************)
(* Proofs about the bio path of kblock.c, for any number of bios and       *)
(* submitters, any shapes and any limits: the lists made of bi_next links  *)
(* never share or lose a bio, every bio is ended at most once, and an fbio *)
(* covers exactly the bios that the completor will find from its head.     *)
(*                                                                         *)
(* The links alone do not say which lists there are.  The invariant says   *)
(* that there is a set of lists, one for every place a bio can wait in,    *)
(* that the links run through them and the heads kept in the plugs, the    *)
(* work queue, the kickoffs and the fbios are their heads.  Every action   *)
(* is then a few moves of bios between those lists.                        *)
(***************************************************************************)
EXTENDS BlockIo, SequenceLemmas, FiniteSetTheorems, TLAPS

-----------------------------------------------------------------------------
(* The inductive invariant *)

(* The places where bios wait: a plug, the hands of a submitter, the rest  *)
(* of a kickoff and the fbio it builds, a queued unplug work (named by its *)
(* head) and an fbio in the core (named by its head).                      *)
Places == ({"plug", "cur"} \X Threads) \cup ({"rest", "built"} \X Runners)
            \cup ({"work", "core"} \X Bios)

(* n links the bios of s, in order, and ends. *)
Strung(n, s) == \A i \in 1..Len(s) : n[s[i]] = IF i = Len(s) THEN NULL ELSE s[i + 1]

Somewhere(b, Q) == \E p \in Places : Listed(b, Q[p])

(* Q gives every place the bios that wait there: no bio waits twice, and   *)
(* the links n run through each list.                                      *)
WellStrung(n, Q) ==
    /\ n \in [Bios -> Bios \cup {NULL}]
    /\ Q \in [Places -> Seq(Bios)]
    /\ \A p \in Places : NoneTwice(Q[p]) /\ Strung(n, Q[p])
    /\ \A p, q \in Places, b \in Bios : Listed(b, Q[p]) /\ Listed(b, Q[q]) => p = q

First(s) == IF s = << >> THEN NULL ELSE s[1]
Final(s) == IF s = << >> THEN NULL ELSE s[Len(s)]

(* A bio waits somewhere from its submission to its end; a bio that does   *)
(* not wait is linked to nothing the first time.                           *)
Covered(Q) ==
    \A b \in Bios : /\ Somewhere(b, Q) <=> shape[b] # NULL /\ ended[b] = 0
                    /\ ended[b] \in {0, 1}
                    /\ shape[b] = NULL => ended[b] = 0 /\ bi_next[b] = NULL

(* The driver's variables point to the lists. *)
SubmitterPoint(Q, t) ==
    /\ plug[t].head = First(Q[<<"plug", t>>]) /\ plug[t].tail = Final(Q[<<"plug", t>>])
    /\ ~plug[t].on => plug[t].head = NULL
    /\ cur[t] = First(Q[<<"cur", t>>]) /\ Len(Q[<<"cur", t>>]) <= 1
    /\ cur[t] # NULL <=> at[t] \in Held \cup {"place"}
    /\ kick[t].bio # NULL <=> at[t] = "kick"

KickPoint(Q, r) ==
    /\ kick[r].bio = First(Q[<<"rest", r>>])
    /\ kick[r].bio = NULL => kick[r].fbio = NULL
    /\ kick[r].fbio # NULL => kick[r].fbio.head = First(Q[<<"built", r>>])
    /\ kick[r].fbio = NULL => Q[<<"built", r>>] = << >>
    /\ kick[r].tail = Final(Q[<<"built", r>>])

SubmitterPoints(Q) == \A t \in Threads : SubmitterPoint(Q, t)
KickPoints(Q) == \A r \in Runners : KickPoint(Q, r)

WorkPoints(Q) ==
    /\ NoneTwice(work)
    /\ \A b \in Bios : /\ Q[<<"work", b>>] # << >> <=> Listed(b, work)
                       /\ Listed(b, work) => First(Q[<<"work", b>>]) = b

CorePoints(Q) ==
    /\ \A f, g \in fbios : f.head = g.head => f = g
    /\ \A f \in fbios : First(Q[<<"core", f.head>>]) = f.head
    /\ \A b \in Bios : Q[<<"core", b>>] # << >> => \E f \in fbios : f.head = b

(* The fbio f was made of the bios of c. *)
MadeOf(f, c) ==
    /\ \A i \in 1..Len(c) : shape[c[i]].dir = f.cmd
    /\ \A i \in 1..(Len(c) - 1) : shape[c[i]].base + shape[c[i]].len = shape[c[i + 1]].base
    /\ f.base = shape[c[1]].base
    /\ f.base + f.length = shape[c[Len(c)]].base + shape[c[Len(c)]].len
    /\ Len(c) > 1 => f.length <= MaxLen /\ f.cmd # "DISCARD"

FbiosMadeOf(Q) ==
    /\ \A f \in fbios : MadeOf(f, Q[<<"core", f.head>>])
    /\ \A r \in Runners : kick[r].fbio # NULL => MadeOf(kick[r].fbio, Q[<<"built", r>>])

Waiting(Q) ==
    /\ WellStrung(bi_next, Q) /\ Covered(Q)
    /\ SubmitterPoints(Q) /\ KickPoints(Q) /\ WorkPoints(Q) /\ CorePoints(Q)
    /\ FbiosMadeOf(Q)

IInv == TypeOK /\ NoSleepWithoutPressure /\ \E Q : Waiting(Q)

-----------------------------------------------------------------------------
(* What the walk along the links finds *)

(* A walk of Chain, as a function g of the number of steps. *)
ChainStep(g, h, n) ==
    IF n = 0 THEN <<h>>
    ELSE IF bi_next[Last(g[n - 1])] = NULL THEN g[n - 1]
         ELSE Append(g[n - 1], bi_next[Last(g[n - 1])])

IsChainWalk(g, h) == g = [n \in 0..Cardinality(Bios) |-> ChainStep(g, h, n)]

(* The first entries of s, one more than n. *)
Upto(s, n) == IF n < Len(s) THEN SubSeq(s, 1, n + 1) ELSE s

(* A list without repeats is no longer than the set of bios. *)
LEMMA ListFits ==
    ASSUME NEW s \in Seq(Bios), NoneTwice(s)
    PROVE  Cardinality(Bios) \in Nat /\ Len(s) \in Nat /\ Len(s) <= Cardinality(Bios)
  <1>1. Len(s) \in Nat /\ s \in [1..Len(s) -> Bios] /\ DOMAIN s = 1..Len(s)
    OBVIOUS
  <1>2. s \in Injection(1..Len(s), Bios)
    BY <1>1 DEF Injection, IsInjective, NoneTwice
  <1>3. Cardinality(1..Len(s)) = Len(s)
    BY <1>1, FS_Interval
  <1>4. Cardinality(1..Len(s)) <= Cardinality(Bios)
    BY <1>2, NullIsNoBio, FS_Injection
  <1>5. Cardinality(Bios) \in Nat
    BY NullIsNoBio, FS_CardinalityType
  <1> QED
    BY <1>1, <1>3, <1>4, <1>5

(* Each step of the walk finds one more entry, until the end. *)
LEMMA UptoStep ==
    ASSUME NEW s \in Seq(Bios), s # << >>, Strung(bi_next, s), NEW n \in Nat, NEW g,
           n # 0 => g[n - 1] = Upto(s, n - 1)
    PROVE  ChainStep(g, s[1], n) = Upto(s, n)
  <1>1. Len(s) \in Nat /\ Len(s) >= 1 /\ \A i \in 1..Len(s) : s[i] \in Bios
    OBVIOUS
  <1>2. \A k \in 1..Len(s) : /\ SubSeq(s, 1, k) \in Seq(Bios) /\ Len(SubSeq(s, 1, k)) = k
                             /\ \A i \in 1..k : SubSeq(s, 1, k)[i] = s[i]
    BY <1>1
  <1>3. CASE n = 0
    <2>1. CASE Len(s) = 1
      <3>1. s = <<s[1]>>
        BY <1>1, <2>1
      <3>2. Upto(s, 0) = s
        BY <1>1, <1>2, <2>1, <3>1 DEF Upto
      <3> QED
        BY <1>3, <3>1, <3>2 DEF ChainStep
    <2>2. CASE Len(s) # 1
      <3>1. Upto(s, 0) = SubSeq(s, 1, 1)
        BY <1>1, <2>2 DEF Upto
      <3>2. SubSeq(s, 1, 1) = <<s[1]>>
        <4> DEFINE u == SubSeq(s, 1, 1)
        <4>1. u \in Seq(Bios) /\ Len(u) = 1 /\ u[1] = s[1]
          BY <1>1, <1>2
        <4> HIDE DEF u
        <4>2. u = <<u[1]>>
          BY <4>1
        <4> QED
          BY <4>1, <4>2 DEF u
      <3> QED
        BY <1>3, <3>1, <3>2 DEF ChainStep
    <2> QED
      BY <2>1, <2>2
  <1>4. CASE n # 0 /\ n >= Len(s)
    <2>1. Upto(s, n) = s
      BY <1>1, <1>4 DEF Upto
    <2>2. Upto(s, n - 1) = s
      <3>1. CASE n - 1 >= Len(s)
        BY <1>1, <3>1 DEF Upto
      <3>2. CASE n - 1 < Len(s)
        <4>1. n = Len(s) /\ (n - 1) + 1 = Len(s)
          BY <1>1, <1>4, <3>2
        <4>2. Upto(s, n - 1) = SubSeq(s, 1, Len(s))
          BY <3>2, <4>1 DEF Upto
        <4>3. SubSeq(s, 1, Len(s)) = s
          BY <1>1
        <4> QED
          BY <4>2, <4>3
      <3> QED
        BY <1>1, <3>1, <3>2
    <2>3. bi_next[Last(s)] = NULL
      BY <1>1 DEF Strung, Last
    <2> QED
      BY <1>4, <2>1, <2>2, <2>3 DEF ChainStep
  <1>5. CASE n # 0 /\ n < Len(s)
    <2>1. n - 1 < Len(s) /\ (n - 1) + 1 = n /\ n \in 1..Len(s) /\ n + 1 \in 1..Len(s) /\ n # Len(s)
      BY <1>1, <1>5
    <2>2. Upto(s, n - 1) = SubSeq(s, 1, n) /\ Upto(s, n) = SubSeq(s, 1, n + 1)
      BY <1>5, <2>1 DEF Upto
    <2>3. Last(SubSeq(s, 1, n)) = s[n]
      BY <1>2, <2>1 DEF Last
    <2>4. bi_next[s[n]] = s[n + 1] /\ s[n + 1] # NULL
      BY <1>1, <2>1, NullIsNoBio DEF Strung
    <2>5. Append(SubSeq(s, 1, n), s[n + 1]) = SubSeq(s, 1, n + 1)
      BY <1>1, <2>1
    <2> QED
      BY <1>5, <2>2, <2>3, <2>4, <2>5 DEF ChainStep
  <1> QED
    BY <1>1, <1>3, <1>4, <1>5

(* From the first bio of a list, the walk finds the list. *)
LEMMA ChainIs ==
    ASSUME NEW s \in Seq(Bios), s # << >>, NoneTwice(s), Strung(bi_next, s)
    PROVE  Chain(s[1]) = s
  <1> DEFINE N == Cardinality(Bios)
             v == [n \in 0..N |-> Upto(s, n)]
             w == CHOOSE g : IsChainWalk(g, s[1])
  <1>1. N \in Nat /\ Len(s) \in Nat /\ Len(s) <= N /\ s[1] \in Bios
    BY ListFits
  <1>2. IsChainWalk(v, s[1])
    <2>1. ASSUME NEW n \in 0..N PROVE v[n] = ChainStep(v, s[1], n)
      <3>1. n \in Nat /\ (n # 0 => n - 1 \in 0..N)
        BY <1>1
      <3>2. n # 0 => v[n - 1] = Upto(s, n - 1)
        BY <3>1
      <3>3. v[n] = Upto(s, n)
        OBVIOUS
      <3> HIDE DEF v
      <3> QED
        BY <3>1, <3>2, <3>3, UptoStep
    <2>2. v = [n \in 0..N |-> v[n]]
      OBVIOUS
    <2> HIDE DEF v
    <2> QED
      BY <2>1, <2>2 DEF IsChainWalk
  <1>3. IsChainWalk(w, s[1])
    BY <1>2
  <1>4. Chain(s[1]) = w[N]
    BY <1>1, NullIsNoBio DEF Chain, IsChainWalk, ChainStep
  <1> HIDE DEF v, w
  <1> DEFINE S == {n \in Nat : n <= N => w[n] = Upto(s, n)}
  <1>5. \A n \in 0..N : w[n] = ChainStep(w, s[1], n)
    BY <1>3 DEF IsChainWalk
  <1>6. 0 \in S
    <2>1. 0 \in 0..N
      BY <1>1
    <2>2. w[0] = Upto(s, 0)
      BY <1>5, <2>1, UptoStep
    <2> QED
      BY <2>2
  <1>7. ASSUME NEW n \in Nat, n \in S PROVE n + 1 \in S
    <2> SUFFICES ASSUME n + 1 <= N PROVE w[n + 1] = Upto(s, n + 1)
      OBVIOUS
    <2>1. n + 1 \in 0..N /\ n + 1 \in Nat /\ (n + 1) - 1 = n /\ w[n] = Upto(s, n)
      BY <1>1, <1>7
    <2>2. ChainStep(w, s[1], n + 1) = Upto(s, n + 1)
      BY <2>1, UptoStep
    <2> QED
      BY <1>5, <2>1, <2>2
  <1>8. Nat \subseteq S
    <2> HIDE DEF S
    <2> QED
      BY <1>6, <1>7, SetInduction
  <1>9. w[N] = Upto(s, N)
    BY <1>1, <1>8
  <1>10. Upto(s, N) = s
    BY <1>1 DEF Upto
  <1> QED
    BY <1>4, <1>9, <1>10

-----------------------------------------------------------------------------
(* The moves of bios between lists *)

(* What a list holds are bios. *)
LEMMA ListedAreBios ==
    ASSUME NEW n, NEW Q, WellStrung(n, Q), NEW p \in Places
    PROVE  /\ Q[p] \in Seq(Bios) /\ NoneTwice(Q[p]) /\ Strung(n, Q[p])
           /\ \A b : Listed(b, Q[p]) => b \in Bios
  <1>1. Q[p] \in Seq(Bios) /\ NoneTwice(Q[p]) /\ Strung(n, Q[p])
    BY DEF WellStrung
  <1> QED
    BY <1>1 DEF Listed

(* The links of a list that did not change run through it still. *)
LEMMA StrungFrame ==
    ASSUME NEW n, NEW m, NEW s, Strung(n, s), \A b : Listed(b, s) => m[b] = n[b]
    PROVE  Strung(m, s)
  BY DEF Strung, Listed

(* The first bio of a list is taken and its link cut. *)
LEMMA PopFirst ==
    ASSUME NEW n, NEW m, NEW Q, WellStrung(n, Q), NEW p \in Places, Q[p] # << >>,
           m \in [Bios -> Bios \cup {NULL}],
           \A x \in Bios : m[x] = IF x = Q[p][1] THEN NULL ELSE n[x]
    PROVE  /\ Q[p][1] \in Bios /\ n[Q[p][1]] = First(Tail(Q[p]))
           /\ \E R : /\ WellStrung(m, R) /\ R[p] = Tail(Q[p])
                     /\ \A q \in Places : q # p => R[q] = Q[q]
                     /\ \A x : Somewhere(x, R) <=> x # Q[p][1] /\ Somewhere(x, Q)
  <1> DEFINE s == Q[p]
             b == s[1]
             t == Tail(s)
             R == [Q EXCEPT ![p] = Tail(@)]
  <1>1. /\ s \in Seq(Bios) /\ NoneTwice(s) /\ Strung(n, s) /\ Len(s) \in Nat /\ Len(s) >= 1
        /\ n \in [Bios -> Bios \cup {NULL}] /\ Q \in [Places -> Seq(Bios)]
    BY DEF WellStrung
  <1>2. /\ t \in Seq(Bios) /\ Len(t) = Len(s) - 1 /\ b \in Bios
        /\ \A i \in 1..(Len(s) - 1) : t[i] = s[i + 1]
        /\ \A x : Listed(x, t) <=> x # b /\ Listed(x, s)
        /\ NoneTwice(t)
    BY <1>1, TailListed
  <1>3. R \in [Places -> Seq(Bios)] /\ R[p] = t /\ \A q \in Places : q # p => R[q] = Q[q]
    BY <1>1, <1>2
  <1>4. m[b] = NULL /\ \A x \in Bios : x # b => m[x] = n[x]
    BY <1>2
  <1>5. Listed(b, s)
    BY <1>1 DEF Listed
  <1>6. n[b] = First(t)
    <2>1. 1 \in 1..Len(s)
      BY <1>1
    <2>2. n[s[1]] = IF 1 = Len(s) THEN NULL ELSE s[1 + 1]
      BY <1>1, <2>1 DEF Strung
    <2>3. CASE Len(s) = 1
      <3> HIDE DEF s, t
      <3>1. t = << >>
        BY <1>2, <2>3, EmptySeq
      <3> QED
        BY <2>2, <2>3, <3>1 DEF First, b
    <2>4. CASE Len(s) # 1
      <3> HIDE DEF s, t
      <3>1. t # << >> /\ t[1] = s[1 + 1]
        BY <1>1, <1>2, <2>4
      <3> QED
        BY <2>2, <2>4, <3>1 DEF First, b
    <2> QED
      BY <2>3, <2>4
  <1> HIDE DEF s, b, t, R
  <1>7. Strung(n, t)
    <2> SUFFICES ASSUME NEW i \in 1..Len(t) PROVE n[t[i]] = IF i = Len(t) THEN NULL ELSE t[i + 1]
      BY DEF Strung
    <2>1. i + 1 \in 1..Len(s) /\ t[i] = s[i + 1] /\ (i = Len(t) <=> i + 1 = Len(s))
      BY <1>1, <1>2
    <2>2. n[s[i + 1]] = IF i + 1 = Len(s) THEN NULL ELSE s[(i + 1) + 1]
      BY <1>1, <2>1 DEF Strung
    <2>3. i # Len(t) => i + 1 \in 1..(Len(s) - 1)
      BY <1>1, <1>2
    <2> QED
      BY <1>2, <2>1, <2>2, <2>3
  <1>8. \A q \in Places : \A x : Listed(x, R[q]) <=> x # b /\ Listed(x, Q[q])
    <2>1. ASSUME NEW q \in Places, q # p PROVE ~Listed(b, Q[q])
      BY <1>2, <1>5, <2>1 DEF WellStrung, s
    <2> QED
      BY <1>2, <1>3, <2>1 DEF s
  <1>9. \A q \in Places : NoneTwice(R[q]) /\ Strung(m, R[q])
    <2> SUFFICES ASSUME NEW q \in Places PROVE NoneTwice(R[q]) /\ Strung(m, R[q])
      OBVIOUS
    <2>1. NoneTwice(R[q]) /\ Strung(n, R[q]) /\ R[q] \in Seq(Bios)
      BY <1>2, <1>3, <1>7 DEF WellStrung
    <2>2. \A x : Listed(x, R[q]) => x \in Bios
      BY <2>1 DEF Listed
    <2>3. \A x : Listed(x, R[q]) => x # b
      BY <1>8
    <2> QED
      BY <1>4, <2>1, <2>2, <2>3, StrungFrame
  <1>10. WellStrung(m, R)
    BY <1>3, <1>4, <1>8, <1>9 DEF WellStrung
  <1>11. \A x : Somewhere(x, R) <=> x # b /\ Somewhere(x, Q)
    BY <1>8 DEF Somewhere
  <1> QED
    BY <1>2, <1>3, <1>6, <1>10, <1>11 DEF s, b, t

(* A bio that waits nowhere and is linked to nothing goes to the end of a  *)
(* list.                                                                   *)
LEMMA AppendTo ==
    ASSUME NEW n, NEW m, NEW Q, WellStrung(n, Q), NEW p \in Places, NEW b \in Bios,
           ~Somewhere(b, Q), n[b] = NULL, m \in [Bios -> Bios \cup {NULL}],
           \A x \in Bios : m[x] = IF x = Final(Q[p]) THEN b ELSE n[x]
    PROVE  \E R : /\ WellStrung(m, R) /\ R[p] = Append(Q[p], b)
                  /\ \A q \in Places : q # p => R[q] = Q[q]
                  /\ \A x : Somewhere(x, R) <=> x = b \/ Somewhere(x, Q)
  <1> DEFINE s == Q[p]
             e == Final(s)
             t == Append(s, b)
             R == [Q EXCEPT ![p] = Append(@, b)]
  <1>1. /\ s \in Seq(Bios) /\ NoneTwice(s) /\ Strung(n, s) /\ Len(s) \in Nat
        /\ n \in [Bios -> Bios \cup {NULL}] /\ Q \in [Places -> Seq(Bios)]
    BY DEF WellStrung
  <1>2. ~Listed(b, s)
    BY DEF Somewhere
  <1>3. /\ t \in Seq(Bios) /\ NoneTwice(t) /\ \A x : Listed(x, t) <=> x = b \/ Listed(x, s)
    BY <1>1, <1>2, AppendListed
  <1>4. Len(t) = Len(s) + 1 /\ t[Len(s) + 1] = b /\ \A i \in 1..Len(s) : t[i] = s[i]
    BY <1>1
  <1>5. R \in [Places -> Seq(Bios)] /\ R[p] = t /\ \A q \in Places : q # p => R[q] = Q[q]
    BY <1>1, <1>3
  <1>6. s # << >> => Listed(e, s) /\ e \in Bios /\ e # b /\ e = s[Len(s)]
    BY <1>1, <1>2 DEF Listed, Final
  <1>7. e \in Bios => s # << >>
    BY NullIsNoBio DEF Final
  <1>8. /\ m[b] = NULL /\ \A x \in Bios : x # e => m[x] = n[x]
        /\ s # << >> => m[e] = b
    BY <1>6, <1>7
  <1> HIDE DEF s, e, t, R
  <1>9. Strung(m, t)
    <2> SUFFICES ASSUME NEW i \in 1..Len(t) PROVE m[t[i]] = IF i = Len(t) THEN NULL ELSE t[i + 1]
      BY DEF Strung
    <2>1. CASE i = Len(t)
      BY <1>4, <1>8, <2>1
    <2>2. CASE i = Len(s) /\ i # Len(t)
      <3>1. s # << >> /\ t[i] = e /\ t[i + 1] = b
        BY <1>1, <1>4, <1>6, <2>2
      <3> QED
        BY <1>8, <2>2, <3>1
    <2>3. CASE i # Len(s) /\ i # Len(t)
      <3>1. i \in 1..Len(s) /\ i + 1 \in 1..Len(s) /\ Len(s) \in 1..Len(s) /\ s # << >>
        BY <1>1, <1>4, <2>3
      <3>2. s[i] # e /\ s[i] \in Bios
        BY <1>1, <1>6, <2>3, <3>1 DEF NoneTwice
      <3>3. n[s[i]] = s[i + 1]
        BY <1>1, <2>3, <3>1 DEF Strung
      <3> QED
        BY <1>4, <1>8, <2>3, <3>1, <3>2, <3>3
    <2> QED
      BY <2>1, <2>2, <2>3
  <1>10. ASSUME NEW q \in Places, q # p PROVE Strung(m, R[q])
    <2>1. Strung(n, Q[q]) /\ Q[q] \in Seq(Bios) /\ R[q] = Q[q]
      BY <1>5, <1>10 DEF WellStrung
    <2>2. \A x : Listed(x, Q[q]) => x \in Bios
      BY <2>1 DEF Listed
    <2>3. \A x : Listed(x, Q[q]) => x # e
      BY <1>6, <1>7, <1>10, <2>2 DEF WellStrung, s
    <2> QED
      BY <1>8, <2>1, <2>2, <2>3, StrungFrame
  <1>11. \A q \in Places : q # p => ~Listed(b, R[q])
    BY <1>5 DEF Somewhere
  <1>12. WellStrung(m, R)
    <2>1. \A q \in Places : NoneTwice(R[q]) /\ Strung(m, R[q])
      BY <1>3, <1>5, <1>9, <1>10 DEF WellStrung
    <2>2. ASSUME NEW q \in Places, NEW r \in Places, NEW x \in Bios, Listed(x, R[q]), Listed(x, R[r])
          PROVE  q = r
      <3>1. CASE x = b
        BY <1>11, <2>2, <3>1
      <3>2. CASE x # b
        <4>1. Listed(x, Q[q]) /\ Listed(x, Q[r])
          BY <1>3, <1>5, <2>2, <3>2 DEF s
        <4> QED
          BY <4>1 DEF WellStrung
      <3> QED
        BY <3>1, <3>2
    <2> QED
      BY <1>5, <2>1, <2>2 DEF WellStrung
  <1>13. \A x : Somewhere(x, R) <=> x = b \/ Somewhere(x, Q)
    BY <1>3, <1>5 DEF Somewhere, s
  <1> QED
    BY <1>5, <1>12, <1>13 DEF s, t

(* A whole list goes to a place where nothing waits. *)
LEMMA MoveList ==
    ASSUME NEW n, NEW Q, WellStrung(n, Q), NEW p \in Places, NEW q \in Places, p # q, Q[q] = << >>
    PROVE  \E R : /\ WellStrung(n, R) /\ R[q] = Q[p] /\ R[p] = << >>
                  /\ \A r \in Places : r # p /\ r # q => R[r] = Q[r]
                  /\ \A x : Somewhere(x, R) <=> Somewhere(x, Q)
  <1> DEFINE R == [Q EXCEPT ![q] = Q[p], ![p] = << >>]
  <1>1. n \in [Bios -> Bios \cup {NULL}] /\ Q \in [Places -> Seq(Bios)]
    BY DEF WellStrung
  <1>2. /\ R \in [Places -> Seq(Bios)] /\ R[q] = Q[p] /\ R[p] = << >>
        /\ \A r \in Places : r # p /\ r # q => R[r] = Q[r]
    BY <1>1
  <1> HIDE DEF R
  <1>3. NoneTwice(<< >>) /\ Strung(n, << >>) /\ \A x : ~Listed(x, << >>)
    BY DEF NoneTwice, Strung, Listed
  <1>4. \A r \in Places : NoneTwice(R[r]) /\ Strung(n, R[r])
    BY <1>2, <1>3 DEF WellStrung
  <1>5. \A r \in Places : \A x : Listed(x, R[r]) => r # p /\ Listed(x, Q[IF r = q THEN p ELSE r])
    BY <1>2, <1>3
  <1>6. ASSUME NEW r \in Places, NEW o \in Places, NEW x \in Bios, Listed(x, R[r]), Listed(x, R[o])
        PROVE  r = o
    <2>1. /\ r # p /\ Listed(x, Q[IF r = q THEN p ELSE r])
          /\ o # p /\ Listed(x, Q[IF o = q THEN p ELSE o])
      BY <1>5, <1>6
    <2>2. (IF r = q THEN p ELSE r) = (IF o = q THEN p ELSE o)
      BY <2>1 DEF WellStrung
    <2> QED
      BY <2>1, <2>2
  <1>7. WellStrung(n, R)
    BY <1>1, <1>2, <1>4, <1>6 DEF WellStrung
  <1>8. \A x : Somewhere(x, R) <=> Somewhere(x, Q)
    BY <1>2, <1>3 DEF Somewhere
  <1> QED
    BY <1>2, <1>7, <1>8

(* A whole list is gone. *)
LEMMA DropList ==
    ASSUME NEW n, NEW Q, WellStrung(n, Q), NEW p \in Places
    PROVE  \E R : /\ WellStrung(n, R) /\ R[p] = << >>
                  /\ \A r \in Places : r # p => R[r] = Q[r]
                  /\ \A x \in Bios : Somewhere(x, R) <=> Somewhere(x, Q) /\ ~Listed(x, Q[p])
  <1> DEFINE R == [Q EXCEPT ![p] = << >>]
  <1>1. n \in [Bios -> Bios \cup {NULL}] /\ Q \in [Places -> Seq(Bios)]
    BY DEF WellStrung
  <1>2. R \in [Places -> Seq(Bios)] /\ R[p] = << >> /\ \A r \in Places : r # p => R[r] = Q[r]
    BY <1>1
  <1> HIDE DEF R
  <1>3. NoneTwice(<< >>) /\ Strung(n, << >>) /\ \A x : ~Listed(x, << >>)
    BY DEF NoneTwice, Strung, Listed
  <1>4. \A r \in Places : NoneTwice(R[r]) /\ Strung(n, R[r])
    BY <1>2, <1>3 DEF WellStrung
  <1>5. \A r \in Places, x \in Bios : Listed(x, R[r]) <=> r # p /\ Listed(x, Q[r])
    BY <1>2, <1>3
  <1>6. WellStrung(n, R)
    BY <1>1, <1>2, <1>4, <1>5 DEF WellStrung
  <1>7. \A x \in Bios : Somewhere(x, R) <=> Somewhere(x, Q) /\ ~Listed(x, Q[p])
    BY <1>5 DEF Somewhere, WellStrung
  <1> QED
    BY <1>2, <1>6, <1>7

-----------------------------------------------------------------------------
(* Facts the actions share *)

(* The names of the places. *)
LEMMA PlaceNames ==
    /\ \A t \in Threads : <<"plug", t>> \in Places /\ <<"cur", t>> \in Places /\ t \in Runners
    /\ \A r \in Runners : <<"rest", r>> \in Places /\ <<"built", r>> \in Places
    /\ \A b \in Bios : <<"work", b>> \in Places /\ <<"core", b>> \in Places
    /\ Kblockd \in Runners
  BY DEF Places, Runners

(* The ends of a list of bios. *)
LEMMA Ends ==
    ASSUME NEW s \in Seq(Bios)
    PROVE  /\ First(s) = NULL <=> s = << >>
           /\ Final(s) = NULL <=> s = << >>
           /\ First(s) \in Bios \cup {NULL} /\ Final(s) \in Bios \cup {NULL}
           /\ s # << >> => First(s) = s[1] /\ Final(s) = s[Len(s)] /\ Listed(First(s), s) /\ Listed(Final(s), s)
           /\ s # << >> => First(s) \in Bios /\ Final(s) \in Bios
  <1>1. CASE s = << >>
    BY <1>1 DEF First, Final
  <1>2. CASE s # << >>
    <2>1. 1 \in 1..Len(s) /\ Len(s) \in 1..Len(s) /\ s[1] \in Bios /\ s[Len(s)] \in Bios
      BY <1>2
    <2> QED
      BY <1>2, <2>1, NullIsNoBio DEF First, Final, Listed
  <1> QED
    BY <1>1, <1>2

(* A list of at most one bio that is not empty. *)
LEMMA OneEntry ==
    ASSUME NEW s \in Seq(Bios), s # << >>, Len(s) <= 1
    PROVE  Len(s) = 1 /\ Tail(s) = << >>
  <1>1. Len(s) \in Nat /\ Len(s) # 0
    OBVIOUS
  <1>2. Len(s) = 1
    BY <1>1
  <1>3. Tail(s) \in Seq(Bios) /\ Len(Tail(s)) = 0
    BY <1>2
  <1> QED
    BY <1>2, <1>3, EmptySeq

(* The ends of a list that a bio was added to. *)
LEMMA AppendEnds ==
    ASSUME NEW s \in Seq(Bios), NEW b \in Bios
    PROVE  /\ First(Append(s, b)) = IF s = << >> THEN b ELSE First(s)
           /\ Final(Append(s, b)) = b /\ Append(s, b) # << >> /\ Append(s, b) \in Seq(Bios)
  <1>1. /\ Append(s, b) \in Seq(Bios) /\ Len(Append(s, b)) = Len(s) + 1 /\ Len(s) \in Nat
        /\ Append(s, b)[Len(s) + 1] = b /\ \A i \in 1..Len(s) : Append(s, b)[i] = s[i]
    OBVIOUS
  <1>2. Append(s, b) # << >>
    BY <1>1, EmptySeq
  <1>3. CASE s = << >>
    BY <1>1, <1>2, <1>3 DEF First, Final
  <1>4. CASE s # << >>
    <2>1. 1 \in 1..Len(s)
      BY <1>1, <1>4
    <2> QED
      BY <1>1, <1>2, <1>4, <2>1 DEF First, Final
  <1> QED
    BY <1>3, <1>4

(* A bio that waits was submitted and is not ended. *)
LEMMA WaitingIsOpen ==
    ASSUME NEW Q, Waiting(Q), NEW p \in Places, NEW x \in Bios, Listed(x, Q[p])
    PROVE  shape[x] # NULL /\ ended[x] = 0 /\ Somewhere(x, Q)
  BY DEF Waiting, Covered, Somewhere

(* The shape of a bio is all that an fbio depends on. *)
LEMMA MadeOfFrame ==
    ASSUME shape' = shape
    PROVE  \A f, c : MadeOf(f, c)' <=> MadeOf(f, c)
  BY DEF MadeOf

(* Who is not concerned by a step still points to its lists. *)
LEMMA PointFrame ==
    ASSUME NEW Q, NEW R, Waiting(Q)
    PROVE  /\ \A u \in Threads :
                /\ R[<<"plug", u>>] = Q[<<"plug", u>>] /\ R[<<"cur", u>>] = Q[<<"cur", u>>]
                /\ plug'[u] = plug[u] /\ cur'[u] = cur[u]
                /\ at'[u] = at[u] /\ kick'[u] = kick[u]
                => SubmitterPoint(R, u)'
           /\ \A r \in Runners :
                /\ R[<<"rest", r>>] = Q[<<"rest", r>>] /\ R[<<"built", r>>] = Q[<<"built", r>>]
                /\ kick'[r] = kick[r]
                => KickPoint(R, r)'
  <1>1. ASSUME NEW u \in Threads,
               R[<<"plug", u>>] = Q[<<"plug", u>>], R[<<"cur", u>>] = Q[<<"cur", u>>],
               plug'[u] = plug[u], cur'[u] = cur[u], at'[u] = at[u], kick'[u] = kick[u]
        PROVE  SubmitterPoint(R, u)'
    <2>1. SubmitterPoint(Q, u)
      BY DEF Waiting, SubmitterPoints
    <2> QED
      BY <1>1, <2>1 DEF SubmitterPoint
  <1>2. ASSUME NEW r \in Runners,
               R[<<"rest", r>>] = Q[<<"rest", r>>], R[<<"built", r>>] = Q[<<"built", r>>],
               kick'[r] = kick[r]
        PROVE  KickPoint(R, r)'
    <2>1. KickPoint(Q, r)
      BY DEF Waiting, KickPoints
    <2> QED
      BY <1>2, <2>1 DEF KickPoint
  <1> QED
    BY <1>1, <1>2

(* Q and R have the same lists for everybody but r and the core. *)
Alike(Q, R, r) ==
    /\ \A u \in Threads \ {r} : R[<<"plug", u>>] = Q[<<"plug", u>>] /\ R[<<"cur", u>>] = Q[<<"cur", u>>]
    /\ \A u \in Runners \ {r} : R[<<"rest", u>>] = Q[<<"rest", u>>] /\ R[<<"built", u>>] = Q[<<"built", u>>]
    /\ \A b \in Bios : R[<<"work", b>>] = Q[<<"work", b>>]

(* A step of r alone disturbs the points of r alone. *)
LEMMA AlikePoints ==
    ASSUME NEW Q, NEW R, NEW r \in Runners, Waiting(Q), Alike(Q, R, r), work' = work,
           \A u \in Threads \ {r} : plug'[u] = plug[u] /\ cur'[u] = cur[u] /\ at'[u] = at[u],
           \A u \in Runners \ {r} : kick'[u] = kick[u],
           r \in Threads => SubmitterPoint(R, r)', KickPoint(R, r)'
    PROVE  SubmitterPoints(R)' /\ KickPoints(R)' /\ WorkPoints(R)'
  <1>1. ASSUME NEW u \in Threads PROVE SubmitterPoint(R, u)'
    <2>1. CASE u = r
      BY <2>1
    <2>2. CASE u # r
      <3>1. /\ R[<<"plug", u>>] = Q[<<"plug", u>>] /\ R[<<"cur", u>>] = Q[<<"cur", u>>]
            /\ plug'[u] = plug[u] /\ cur'[u] = cur[u] /\ at'[u] = at[u] /\ kick'[u] = kick[u]
        BY <2>2, PlaceNames DEF Alike
      <3> QED
        BY <3>1, PointFrame
    <2> QED
      BY <2>1, <2>2
  <1>2. ASSUME NEW u \in Runners PROVE KickPoint(R, u)'
    <2>1. CASE u = r
      BY <2>1
    <2>2. CASE u # r
      <3>1. /\ R[<<"rest", u>>] = Q[<<"rest", u>>] /\ R[<<"built", u>>] = Q[<<"built", u>>]
            /\ kick'[u] = kick[u]
        BY <2>2 DEF Alike
      <3> QED
        BY <3>1, PointFrame
    <2> QED
      BY <2>1, <2>2
  <1>3. WorkPoints(R)'
    BY DEF Waiting, WorkPoints, Alike
  <1> QED
    BY <1>1, <1>2, <1>3 DEF SubmitterPoints, KickPoints

(* Initially nothing waits anywhere. *)
LEMMA InitInv == Init => IInv
  <1> SUFFICES ASSUME Init PROVE IInv
    OBVIOUS
  <1> USE DEF Init
  <1> DEFINE Q == [p \in Places |-> << >>]
  <1>1. TypeOK
    <2>1. plug \in [Threads -> [on : BOOLEAN, head : Bios \cup {NULL}, tail : Bios \cup {NULL}]]
      BY DEF EmptyPlug
    <2>2. kick \in [Runners -> [bio : Bios \cup {NULL}, fbio : FbioSet \cup {NULL}, tail : Bios \cup {NULL}]]
      BY DEF NoKick
    <2>3. stalls \in [Threads -> 0..(MaxStalls - 1)] /\ ended \in [Bios -> Nat]
      BY Limits
    <2>4. /\ shape \in [Bios -> Shapes \cup {NULL}] /\ bi_next \in [Bios -> Bios \cup {NULL}]
          /\ cur \in [Threads -> Bios \cup {NULL}] /\ work \in Seq(Bios) /\ fbios \subseteq FbioSet
      OBVIOUS
    <2>5. /\ at \in [Threads -> {"idle", "hold", "asleep", "stalled", "place", "kick"}]
          /\ holdoff \in BOOLEAN
      OBVIOUS
    <2> HIDE DEF Init
    <2> QED
      BY <2>1, <2>2, <2>3, <2>4, <2>5 DEF TypeOK
  <1>2. NoSleepWithoutPressure
    BY DEF NoSleepWithoutPressure
  <1>3. /\ Q \in [Places -> Seq(Bios)] /\ NoneTwice(<< >>) /\ Strung(bi_next, << >>)
        /\ \A x : ~Listed(x, << >>)
    BY DEF NoneTwice, Strung, Listed
  <1>4. First(<< >>) = NULL /\ Final(<< >>) = NULL /\ Len(<< >>) = 0
    BY DEF First, Final
  <1>5. /\ \A t \in Threads : Q[<<"plug", t>>] = << >> /\ Q[<<"cur", t>>] = << >>
        /\ \A r \in Runners : Q[<<"rest", r>>] = << >> /\ Q[<<"built", r>>] = << >>
        /\ \A b \in Bios : Q[<<"work", b>>] = << >> /\ Q[<<"core", b>>] = << >>
        /\ \A p \in Places : Q[p] = << >>
    BY PlaceNames
  <1> HIDE DEF Q
  <1>6. WellStrung(bi_next, Q)
    BY <1>3, <1>5 DEF WellStrung
  <1>7. Covered(Q)
    BY <1>3, <1>5 DEF Covered, Somewhere
  <1>8. SubmitterPoints(Q)
    <2>1. \A t \in Threads : /\ plug[t].head = NULL /\ plug[t].tail = NULL /\ cur[t] = NULL
                             /\ at[t] = "idle" /\ kick[t].bio = NULL
      BY PlaceNames DEF EmptyPlug, NoKick
    <2>2. ASSUME NEW t \in Threads PROVE Len(Q[<<"cur", t>>]) <= 1
      <3>1. Len(Q[<<"cur", t>>]) = 0
        BY <1>4, <1>5, Zenon
      <3> HIDE DEF Init
      <3> QED
        BY <3>1
    <2>3. "idle" \notin {"hold", "asleep", "stalled"} \cup {"place"} /\ "idle" # "kick"
      OBVIOUS
    <2> HIDE DEF Init
    <2> QED
      BY <1>4, <1>5, <2>1, <2>2, <2>3, Zenon DEF SubmitterPoints, SubmitterPoint, Held
  <1>9. KickPoints(Q)
    BY <1>4, <1>5 DEF KickPoints, KickPoint, NoKick
  <1>10. WorkPoints(Q)
    BY <1>3, <1>5 DEF WorkPoints
  <1>11. CorePoints(Q) /\ FbiosMadeOf(Q)
    BY <1>5 DEF CorePoints, FbiosMadeOf, NoKick
  <1> QED
    BY <1>1, <1>2, <1>6, <1>7, <1>8, <1>9, <1>10, <1>11 DEF IInv, Waiting

-----------------------------------------------------------------------------
(* Steps that move no bio *)

(* The wait for the pressure to fall, its timeouts, and a plug that is     *)
(* started or finished empty.                                              *)
LEMMA StillSteps ==
    ASSUME TypeOK, NoSleepWithoutPressure, NEW Q, Waiting(Q), NEW t \in Threads,
           UNCHANGED <<shape, bi_next, ended, cur, work, kick, fbios>>,
           \/ /\ at[t] = "hold" /\ ~holdoff /\ at' = [at EXCEPT ![t] = "place"]
              /\ UNCHANGED <<stalls, plug, holdoff>>
           \/ /\ at[t] = "hold" /\ holdoff /\ at' = [at EXCEPT ![t] = "asleep"]
              /\ plug' = [plug EXCEPT ![t] = EmptyPlug(plug[t].on)]
              /\ plug[t].head = NULL /\ UNCHANGED <<stalls, holdoff>>
           \/ HoldoffTimeout(t)
           \/ /\ at[t] = "stalled" /\ stalls[t] + 1 < MaxStalls
              /\ stalls' = [stalls EXCEPT ![t] = @ + 1]
              /\ at' = [at EXCEPT ![t] = "hold"] /\ UNCHANGED <<plug, holdoff>>
           \/ /\ at[t] = "stalled" /\ at' = [at EXCEPT ![t] = "place"]
              /\ UNCHANGED <<stalls, plug, holdoff>>
           \/ /\ \E on \in BOOLEAN : plug' = [plug EXCEPT ![t] = EmptyPlug(on)]
              /\ plug[t].head = NULL /\ UNCHANGED <<at, stalls, holdoff>>
    PROVE  IInv'
  <1> USE DEF HoldoffTimeout, queues, EmptyPlug
  <1>1. TypeOK'
    <2>1. stalls' \in [Threads -> 0..(MaxStalls - 1)]
      <3>1. stalls' = stalls \/ (stalls[t] + 1 < MaxStalls /\ stalls' = [stalls EXCEPT ![t] = @ + 1])
        OBVIOUS
      <3>2. stalls \in [Threads -> 0..(MaxStalls - 1)]
        BY DEF TypeOK
      <3> QED
        BY <3>1, <3>2, Limits
    <2>2. holdoff' \in BOOLEAN
      BY DEF TypeOK
    <2>3. at' \in [Threads -> {"idle", "hold", "asleep", "stalled", "place", "kick"}]
      BY DEF TypeOK
    <2>4. plug' \in [Threads -> [on : BOOLEAN, head : Bios \cup {NULL}, tail : Bios \cup {NULL}]]
      <3>1. \/ plug' = plug
            \/ \E on \in BOOLEAN : plug' = [plug EXCEPT ![t] = EmptyPlug(on)]
            \/ plug' = [plug EXCEPT ![t] = EmptyPlug(plug[t].on)]
        OBVIOUS
      <3>2. plug \in [Threads -> [on : BOOLEAN, head : Bios \cup {NULL}, tail : Bios \cup {NULL}]]
        BY DEF TypeOK
      <3> QED
        BY <3>1, <3>2
    <2> QED
      BY <2>1, <2>2, <2>3, <2>4 DEF TypeOK
  <1>2. NoSleepWithoutPressure'
    BY DEF NoSleepWithoutPressure, TypeOK
  <1>3. (WellStrung(bi_next, Q) /\ Covered(Q) /\ KickPoints(Q) /\ WorkPoints(Q) /\ CorePoints(Q) /\ FbiosMadeOf(Q))'
    BY DEF Waiting, Covered, KickPoints, KickPoint, WorkPoints, CorePoints, FbiosMadeOf, MadeOf
  <1>4. SubmitterPoints(Q)'
    <2>1. \A u \in Threads : Q[<<"plug", u>>] \in Seq(Bios)
      BY PlaceNames DEF Waiting, WellStrung
    <2>2. \A u \in Threads : plug'[u].head = plug[u].head /\ plug'[u].tail = plug[u].tail
      <3>1. plug[t].head = NULL => plug[t].tail = NULL
        BY <2>1, Ends, ZenonT(60) DEF Waiting, SubmitterPoints, SubmitterPoint
      <3>2. \/ plug' = plug
            \/ plug[t].head = NULL /\ \E on : plug' = [plug EXCEPT ![t] = EmptyPlug(on)]
        OBVIOUS
      <3>3. plug \in [Threads -> [on : BOOLEAN, head : Bios \cup {NULL}, tail : Bios \cup {NULL}]]
        BY DEF TypeOK
      <3> QED
        BY <3>1, <3>2, <3>3
    <2>3. \A u \in Threads : ~plug'[u].on => plug[u].head = NULL
      BY DEF Waiting, SubmitterPoints, SubmitterPoint, TypeOK
    <2>4. \A u \in Threads : /\ at'[u] \in Held \cup {"place"} <=> at[u] \in Held \cup {"place"}
                             /\ at'[u] = "kick" <=> at[u] = "kick"
      BY DEF TypeOK, Held
    <2> QED
      BY <2>2, <2>3, <2>4 DEF Waiting, SubmitterPoints, SubmitterPoint
  <1> QED
    BY <1>1, <1>2, <1>3, <1>4 DEF IInv, Waiting

(* The pressure rises, or falls and wakes every sleeper. *)
LEMMA BackpressureInv ==
    ASSUME TypeOK, NoSleepWithoutPressure, NEW Q, Waiting(Q), NEW on \in BOOLEAN,
           linux_bdev_backpressure(on)
    PROVE  IInv'
  <1>1. /\ UNCHANGED <<shape, bi_next, ended, cur, stalls, plug, work, kick, fbios>> /\ holdoff' = on
        /\ at' = IF on THEN at ELSE [t \in Threads |-> IF at[t] = "asleep" THEN "hold" ELSE at[t]]
    BY DEF linux_bdev_backpressure, queues
  <1>2. at' \in [Threads -> {"idle", "hold", "asleep", "stalled", "place", "kick"}]
    BY <1>1 DEF TypeOK
  <1>3. TypeOK'
    BY <1>1, <1>2 DEF TypeOK
  <1>4. NoSleepWithoutPressure'
    <2>1. CASE on
      BY <1>1, <2>1 DEF NoSleepWithoutPressure
    <2>2. CASE ~on
      <3>1. \A u \in Threads : at'[u] # "asleep"
        BY <1>1, <2>2
      <3> QED
        BY <3>1 DEF NoSleepWithoutPressure
    <2> QED
      BY <2>1, <2>2
  <1>5. (WellStrung(bi_next, Q) /\ Covered(Q) /\ KickPoints(Q) /\ WorkPoints(Q) /\ CorePoints(Q) /\ FbiosMadeOf(Q))'
    BY <1>1 DEF Waiting, Covered, KickPoints, KickPoint, WorkPoints, CorePoints, FbiosMadeOf, MadeOf
  <1>6. SubmitterPoints(Q)'
    <2>1. \A u \in Threads : /\ at'[u] \in Held \cup {"place"} <=> at[u] \in Held \cup {"place"}
                             /\ at'[u] = "kick" <=> at[u] = "kick"
      BY <1>1 DEF TypeOK, Held
    <2> QED
      BY <1>1, <2>1 DEF Waiting, SubmitterPoints, SubmitterPoint
  <1> QED
    BY <1>3, <1>4, <1>5, <1>6 DEF IInv, Waiting

-----------------------------------------------------------------------------
(* Steps that move a whole list *)

(* The head of a list outside the work queue is not a queued unplug work. *)
LEMMA WorkNotListed ==
    ASSUME TypeOK, NEW Q, Waiting(Q), NEW p \in Places, Q[p] # << >>,
           \A b \in Bios : p # <<"work", b>>
    PROVE  First(Q[p]) \in Bios /\ ~Listed(First(Q[p]), work) /\ Q[<<"work", First(Q[p])>>] = << >>
  <1>1. /\ Q[p] \in Seq(Bios)
        /\ \A q \in Places, b \in Bios : Listed(b, Q[p]) /\ Listed(b, Q[q]) => p = q
        /\ \A b \in Bios : /\ <<"work", b>> \in Places /\ Q[<<"work", b>>] \in Seq(Bios)
                           /\ Q[<<"work", b>>] # << >> <=> Listed(b, work)
                           /\ Listed(b, work) => First(Q[<<"work", b>>]) = b
    BY PlaceNames DEF Waiting, WellStrung, WorkPoints
  <1>2. First(Q[p]) \in Bios /\ Listed(First(Q[p]), Q[p])
    BY <1>1, Ends
  <1>3. ~Listed(First(Q[p]), work)
    <2> SUFFICES ASSUME Listed(First(Q[p]), work) PROVE FALSE
      OBVIOUS
    <2>1. Listed(First(Q[p]), Q[<<"work", First(Q[p])>>])
      BY <1>1, <1>2, Ends
    <2> QED
      BY <1>1, <1>2, <2>1
  <1> QED
    BY <1>1, <1>2, <1>3

(* The list of a sleeping thread's plug becomes a queued unplug work. *)
LEMMA QueueUnplugInv ==
    ASSUME TypeOK, NoSleepWithoutPressure, NEW Q, Waiting(Q), NEW t \in Threads,
           plug[t].head # NULL, QueueUnplug(t),
           UNCHANGED <<shape, bi_next, ended, cur, stalls, kick, fbios, holdoff>>,
           \/ at' = at
           \/ at[t] = "hold" /\ holdoff /\ at' = [at EXCEPT ![t] = "asleep"]
    PROVE  IInv'
  <1> DEFINE h == plug[t].head
             p == <<"plug", t>>
             q == <<"work", h>>
  <1>1. /\ plug' = [plug EXCEPT ![t] = EmptyPlug(plug[t].on)] /\ work' = Append(work, h)
        /\ h \in Bios /\ plug[t].on \in BOOLEAN
    BY DEF QueueUnplug, TypeOK
  <1>2. TypeOK'
    <2>1. plug' \in [Threads -> [on : BOOLEAN, head : Bios \cup {NULL}, tail : Bios \cup {NULL}]]
      BY <1>1 DEF TypeOK, EmptyPlug
    <2>2. work' \in Seq(Bios)
      BY <1>1 DEF TypeOK
    <2>3. at' \in [Threads -> {"idle", "hold", "asleep", "stalled", "place", "kick"}]
      BY DEF TypeOK
    <2> QED
      BY <2>1, <2>2, <2>3 DEF TypeOK
  <1>3. NoSleepWithoutPressure'
    BY DEF NoSleepWithoutPressure, TypeOK
  <1>4. /\ WellStrung(bi_next, Q) /\ p \in Places /\ q \in Places /\ p # q
        /\ h = First(Q[p]) /\ Q[p] \in Seq(Bios)
    BY <1>1, PlaceNames DEF Waiting, WellStrung, SubmitterPoints, SubmitterPoint
  <1>5. Q[p] # << >> /\ Q[q] = << >> /\ ~Listed(h, work)
    <2>1. Q[p] # << >>
      BY <1>4, Ends
    <2> QED
      BY <1>4, <2>1, WorkNotListed
  <1>6. PICK R : /\ WellStrung(bi_next, R) /\ R[q] = Q[p] /\ R[p] = << >>
                 /\ \A r \in Places : r # p /\ r # q => R[r] = Q[r]
                 /\ \A x : Somewhere(x, R) <=> Somewhere(x, Q)
    BY <1>4, <1>5, MoveList
  <1>7. /\ \A u \in Threads : /\ u # t => R[<<"plug", u>>] = Q[<<"plug", u>>]
                              /\ R[<<"cur", u>>] = Q[<<"cur", u>>]
        /\ \A r \in Runners : R[<<"rest", r>>] = Q[<<"rest", r>>] /\ R[<<"built", r>>] = Q[<<"built", r>>]
        /\ \A b \in Bios : /\ R[<<"core", b>>] = Q[<<"core", b>>]
                           /\ b # h => R[<<"work", b>>] = Q[<<"work", b>>]
    BY <1>6, PlaceNames
  <1>8. WellStrung(bi_next, R)' /\ Covered(R)'
    BY <1>6 DEF Waiting, Covered
  <1>9. SubmitterPoints(R)'
    <2> SUFFICES ASSUME NEW u \in Threads
                 PROVE  /\ plug'[u].head = First(R[<<"plug", u>>]) /\ plug'[u].tail = Final(R[<<"plug", u>>])
                        /\ ~plug'[u].on => plug'[u].head = NULL
                        /\ cur[u] = First(R[<<"cur", u>>]) /\ Len(R[<<"cur", u>>]) <= 1
                        /\ cur[u] # NULL <=> at'[u] \in Held \cup {"place"}
                        /\ kick[u].bio # NULL <=> at'[u] = "kick"
      BY DEF SubmitterPoints, SubmitterPoint
    <2>1. /\ plug[u].head = First(Q[<<"plug", u>>]) /\ plug[u].tail = Final(Q[<<"plug", u>>])
          /\ ~plug[u].on => plug[u].head = NULL
          /\ cur[u] = First(Q[<<"cur", u>>]) /\ Len(Q[<<"cur", u>>]) <= 1
          /\ cur[u] # NULL <=> at[u] \in Held \cup {"place"}
          /\ kick[u].bio # NULL <=> at[u] = "kick"
      BY DEF Waiting, SubmitterPoints, SubmitterPoint
    <2>2. /\ at'[u] \in Held \cup {"place"} <=> at[u] \in Held \cup {"place"}
          /\ at'[u] = "kick" <=> at[u] = "kick"
      BY DEF TypeOK, Held
    <2>3. plug'[t] = EmptyPlug(plug[t].on) /\ (u # t => plug'[u] = plug[u])
      BY <1>1 DEF TypeOK
    <2>4. CASE u = t
      BY <1>6, <1>7, <2>1, <2>2, <2>3, <2>4 DEF EmptyPlug, First, Final
    <2>5. CASE u # t
      BY <1>7, <2>1, <2>2, <2>3, <2>5
    <2> QED
      BY <2>4, <2>5
  <1>10. KickPoints(R)'
    BY <1>7 DEF Waiting, KickPoints, KickPoint
  <1>11. WorkPoints(R)'
    <2>1. /\ work' \in Seq(Bios) /\ NoneTwice(work')
          /\ \A x : Listed(x, work') <=> x = h \/ Listed(x, work)
      BY <1>1, <1>5, AppendListed DEF TypeOK, Waiting, WorkPoints
    <2>2. ASSUME NEW b \in Bios
          PROVE  /\ R[<<"work", b>>] # << >> <=> Listed(b, work')
                 /\ Listed(b, work') => First(R[<<"work", b>>]) = b
      <3>1. CASE b = h
        BY <1>4, <1>5, <1>6, <2>1, <3>1
      <3>2. CASE b # h
        <4>1. /\ Q[<<"work", b>>] # << >> <=> Listed(b, work)
              /\ Listed(b, work) => First(Q[<<"work", b>>]) = b
          BY DEF Waiting, WorkPoints
        <4>2. R[<<"work", b>>] = Q[<<"work", b>>]
          BY <1>7, <3>2
        <4> QED
          BY <2>1, <3>2, <4>1, <4>2
      <3> QED
        BY <3>1, <3>2
    <2> QED
      BY <2>1, <2>2 DEF WorkPoints
  <1>12. CorePoints(R)' /\ FbiosMadeOf(R)'
    <2>1. \A f \in fbios : f.head \in Bios
      BY DEF TypeOK, FbioSet
    <2>2. \A f, c : MadeOf(f, c)' <=> MadeOf(f, c)
      BY MadeOfFrame
    <2>3. CorePoints(R)'
      BY <1>7, <2>1 DEF Waiting, CorePoints
    <2>4. FbiosMadeOf(R)'
      BY <1>7, <2>1, <2>2 DEF Waiting, FbiosMadeOf
    <2> QED
      BY <2>3, <2>4
  <1> QED
    BY <1>2, <1>3, <1>8, <1>9, <1>10, <1>11, <1>12 DEF IInv, Waiting

(* A runner that kicks nothing off has no list and no fbio. *)
LEMMA IdleRunner ==
    ASSUME TypeOK, NEW Q, Waiting(Q), NEW r \in Runners, kick[r].bio = NULL
    PROVE  /\ Q[<<"rest", r>>] = << >> /\ Q[<<"built", r>>] = << >>
           /\ kick[r].fbio = NULL /\ kick[r].tail = NULL
  <1>1. Q[<<"rest", r>>] \in Seq(Bios) /\ Q[<<"built", r>>] \in Seq(Bios)
    BY PlaceNames DEF Waiting, WellStrung
  <1> QED
    BY <1>1, Ends DEF Waiting, KickPoints, KickPoint

(* The list of a plug that is finished is kicked off by its thread. *)
LEMMA UnplugFinishInv ==
    ASSUME TypeOK, NoSleepWithoutPressure, NEW Q, Waiting(Q), NEW t \in Threads,
           plug[t].head # NULL, UnplugFinish(t)
    PROVE  IInv'
  <1> DEFINE h == plug[t].head
             p == <<"plug", t>>
             q == <<"rest", t>>
  <1>1. /\ plug' = [plug EXCEPT ![t] = EmptyPlug(FALSE)]
        /\ kick' = [kick EXCEPT ![t] = [bio |-> h, fbio |-> NULL, tail |-> NULL]]
        /\ at[t] = "idle" /\ at' = [at EXCEPT ![t] = "kick"]
        /\ UNCHANGED <<shape, bi_next, ended, cur, stalls, work, fbios, holdoff>>
    BY DEF UnplugFinish, Start, NoKick
  <1>2. h \in Bios /\ t \in Runners
    BY PlaceNames DEF TypeOK
  <1>3. TypeOK'
    <2>1. plug' \in [Threads -> [on : BOOLEAN, head : Bios \cup {NULL}, tail : Bios \cup {NULL}]]
      BY <1>1 DEF TypeOK, EmptyPlug
    <2>2. kick' \in [Runners -> [bio : Bios \cup {NULL}, fbio : FbioSet \cup {NULL}, tail : Bios \cup {NULL}]]
      BY <1>1, <1>2 DEF TypeOK
    <2>3. at' \in [Threads -> {"idle", "hold", "asleep", "stalled", "place", "kick"}]
      BY <1>1 DEF TypeOK
    <2> QED
      BY <1>1, <2>1, <2>2, <2>3 DEF TypeOK
  <1>4. NoSleepWithoutPressure'
    BY <1>1 DEF NoSleepWithoutPressure, TypeOK
  <1>5. /\ WellStrung(bi_next, Q) /\ p \in Places /\ q \in Places /\ p # q
        /\ h = First(Q[p]) /\ Q[p] \in Seq(Bios)
    BY <1>2, PlaceNames DEF Waiting, WellStrung, SubmitterPoints, SubmitterPoint
  <1>6. kick[t].bio = NULL /\ Q[q] = << >> /\ Q[<<"built", t>>] = << >>
    <2>1. kick[t].bio = NULL
      BY <1>1 DEF Waiting, SubmitterPoints, SubmitterPoint
    <2> QED
      BY <1>2, <2>1, IdleRunner
  <1>7. PICK R : /\ WellStrung(bi_next, R) /\ R[q] = Q[p] /\ R[p] = << >>
                 /\ \A r \in Places : r # p /\ r # q => R[r] = Q[r]
                 /\ \A x : Somewhere(x, R) <=> Somewhere(x, Q)
    BY <1>5, <1>6, MoveList
  <1>8. /\ \A u \in Threads : /\ u # t => R[<<"plug", u>>] = Q[<<"plug", u>>]
                              /\ R[<<"cur", u>>] = Q[<<"cur", u>>]
        /\ \A r \in Runners : /\ r # t => R[<<"rest", r>>] = Q[<<"rest", r>>]
                              /\ R[<<"built", r>>] = Q[<<"built", r>>]
        /\ \A b \in Bios : R[<<"core", b>>] = Q[<<"core", b>>] /\ R[<<"work", b>>] = Q[<<"work", b>>]
    BY <1>7, PlaceNames
  <1>9. WellStrung(bi_next, R)' /\ Covered(R)'
    BY <1>1, <1>7 DEF Waiting, Covered
  <1>10. SubmitterPoints(R)'
    <2> SUFFICES ASSUME NEW u \in Threads
                 PROVE  /\ plug'[u].head = First(R[<<"plug", u>>]) /\ plug'[u].tail = Final(R[<<"plug", u>>])
                        /\ ~plug'[u].on => plug'[u].head = NULL
                        /\ cur'[u] = First(R[<<"cur", u>>]) /\ Len(R[<<"cur", u>>]) <= 1
                        /\ cur'[u] # NULL <=> at'[u] \in Held \cup {"place"}
                        /\ kick'[u].bio # NULL <=> at'[u] = "kick"
      BY DEF SubmitterPoints, SubmitterPoint
    <2>1. /\ plug[u].head = First(Q[<<"plug", u>>]) /\ plug[u].tail = Final(Q[<<"plug", u>>])
          /\ ~plug[u].on => plug[u].head = NULL
          /\ cur[u] = First(Q[<<"cur", u>>]) /\ Len(Q[<<"cur", u>>]) <= 1
          /\ cur[u] # NULL <=> at[u] \in Held \cup {"place"}
          /\ kick[u].bio # NULL <=> at[u] = "kick"
      BY DEF Waiting, SubmitterPoints, SubmitterPoint
    <2>2. CASE u = t
      <3>1. /\ plug'[t] = EmptyPlug(FALSE) /\ kick'[t].bio = h /\ at'[t] = "kick"
            /\ R[p] = << >> /\ h # NULL /\ cur' = cur
        BY <1>1, <1>2, <1>7 DEF TypeOK
      <3>2. at'[t] \notin Held \cup {"place"} /\ at[t] \notin Held \cup {"place"}
        BY <1>1, <3>1 DEF Held
      <3> QED
        BY <1>8, <2>1, <2>2, <3>1, <3>2 DEF EmptyPlug, First, Final
    <2>3. CASE u # t
      <3>1. plug'[u] = plug[u] /\ kick'[u] = kick[u] /\ at'[u] = at[u] /\ cur' = cur
        BY <1>1, <2>3, PlaceNames DEF TypeOK
      <3> QED
        BY <1>8, <2>1, <2>3, <3>1
    <2> QED
      BY <2>2, <2>3
  <1>11. KickPoints(R)'
    <2>1. \A r \in Runners : r # t => kick'[r] = kick[r]
      BY <1>1 DEF TypeOK
    <2>2. kick'[t] = [bio |-> h, fbio |-> NULL, tail |-> NULL]
      BY <1>1, <1>2 DEF TypeOK
    <2>3. R[<<"rest", t>>] = Q[p] /\ R[<<"built", t>>] = << >>
      BY <1>2, <1>6, <1>7, <1>8
    <2>4. First(R[<<"rest", t>>]) = h /\ Final(R[<<"built", t>>]) = NULL
      BY <1>5, <2>3 DEF Final
    <2>5. KickPoint(R, t)'
      BY <1>2, <2>2, <2>3, <2>4, NullIsNoBio DEF KickPoint
    <2> QED
      BY <1>8, <2>1, <2>5, PointFrame DEF KickPoints
  <1>12. WorkPoints(R)'
    BY <1>1, <1>8 DEF Waiting, WorkPoints
  <1>13. CorePoints(R)' /\ FbiosMadeOf(R)'
    <2>1. \A f \in fbios : f.head \in Bios
      BY DEF TypeOK, FbioSet
    <2>2. \A f, c : MadeOf(f, c)' <=> MadeOf(f, c)
      BY <1>1, MadeOfFrame
    <2>3. CorePoints(R)'
      BY <1>1, <1>8, <2>1 DEF Waiting, CorePoints
    <2>4. \A r \in Runners : kick'[r].fbio # NULL => kick'[r] = kick[r]
      BY <1>1, <1>2 DEF TypeOK
    <2>5. FbiosMadeOf(R)'
      BY <1>1, <1>8, <2>1, <2>2, <2>4 DEF Waiting, FbiosMadeOf
    <2> QED
      BY <2>3, <2>5
  <1> QED
    BY <1>3, <1>4, <1>9, <1>10, <1>11, <1>12, <1>13 DEF IInv, Waiting

(* kblockd takes the first queued unplug work. *)
LEMMA UnplugWorkInv ==
    ASSUME TypeOK, NoSleepWithoutPressure, NEW Q, Waiting(Q), kfio_unplug_do_cb
    PROVE  IInv'
  <1> DEFINE h == work[1]
             p == <<"work", h>>
             q == <<"rest", Kblockd>>
  <1>1. /\ kick' = [kick EXCEPT ![Kblockd] = [bio |-> h, fbio |-> NULL, tail |-> NULL]]
        /\ work' = Tail(work) /\ work # << >> /\ kick[Kblockd].bio = NULL
        /\ UNCHANGED <<shape, bi_next, ended, at, cur, stalls, plug, fbios, holdoff>>
    <2>1. work \in Seq(Bios)
      BY DEF TypeOK
    <2>2. work # << >> => Head(work) = h
      BY <2>1
    <2>3. kick[Kblockd].bio = NULL /\ work # << >> /\ Start(h, Kblockd) /\ work' = Tail(work)
      BY <2>2, Zenon DEF kfio_unplug_do_cb
    <2> HIDE DEF h
    <2> QED
      BY <2>3 DEF kfio_unplug_do_cb, Start, NoKick
  <1>2. /\ h \in Bios /\ Listed(h, work) /\ work' \in Seq(Bios) /\ NoneTwice(work')
        /\ \A x : Listed(x, work') <=> x # h /\ Listed(x, work)
    <2>1. work \in Seq(Bios) /\ NoneTwice(work) /\ work # << >>
      BY <1>1 DEF TypeOK, Waiting, WorkPoints
    <2>2. Listed(h, work)
      BY <2>1 DEF Listed
    <2> QED
      BY <1>1, <2>1, <2>2, TailListed
  <1>3. TypeOK'
    <2>1. kick' \in [Runners -> [bio : Bios \cup {NULL}, fbio : FbioSet \cup {NULL}, tail : Bios \cup {NULL}]]
      BY <1>1, <1>2 DEF TypeOK
    <2> QED
      BY <1>1, <1>2, <2>1 DEF TypeOK
  <1>4. NoSleepWithoutPressure'
    BY <1>1 DEF NoSleepWithoutPressure
  <1>5. /\ WellStrung(bi_next, Q) /\ p \in Places /\ q \in Places /\ p # q
        /\ h = First(Q[p]) /\ Q[p] \in Seq(Bios)
    BY <1>2, PlaceNames DEF Waiting, WellStrung, WorkPoints
  <1>6. Q[q] = << >> /\ Q[<<"built", Kblockd>>] = << >>
    BY <1>1, PlaceNames, IdleRunner
  <1>7. PICK R : /\ WellStrung(bi_next, R) /\ R[q] = Q[p] /\ R[p] = << >>
                 /\ \A r \in Places : r # p /\ r # q => R[r] = Q[r]
                 /\ \A x : Somewhere(x, R) <=> Somewhere(x, Q)
    BY <1>5, <1>6, MoveList
  <1>8. /\ \A u \in Threads : R[<<"plug", u>>] = Q[<<"plug", u>>] /\ R[<<"cur", u>>] = Q[<<"cur", u>>]
        /\ \A r \in Runners : /\ r # Kblockd => R[<<"rest", r>>] = Q[<<"rest", r>>]
                              /\ R[<<"built", r>>] = Q[<<"built", r>>]
        /\ \A b \in Bios : /\ R[<<"core", b>>] = Q[<<"core", b>>]
                           /\ b # h => R[<<"work", b>>] = Q[<<"work", b>>]
    BY <1>7, PlaceNames
  <1> HIDE DEF h
  <1>9. WellStrung(bi_next, R)' /\ Covered(R)'
    BY <1>1, <1>7 DEF Waiting, Covered
  <1>10. SubmitterPoints(R)'
    <2>1. \A u \in Threads : kick'[u] = kick[u] /\ plug'[u] = plug[u] /\ at'[u] = at[u] /\ cur'[u] = cur[u]
      BY <1>1, PlaceNames, KblockdIsNoSubmitter DEF TypeOK
    <2> QED
      BY <1>8, <2>1, PointFrame DEF SubmitterPoints
  <1>11. KickPoints(R)'
    <2>1. \A r \in Runners : r # Kblockd => kick'[r] = kick[r]
      BY <1>1 DEF TypeOK
    <2>2. kick'[Kblockd] = [bio |-> h, fbio |-> NULL, tail |-> NULL]
      BY <1>1, PlaceNames DEF TypeOK
    <2>3. R[<<"rest", Kblockd>>] = Q[p] /\ R[<<"built", Kblockd>>] = << >>
      BY <1>6, <1>7, <1>8, PlaceNames
    <2>4. First(R[<<"rest", Kblockd>>]) = h /\ Final(R[<<"built", Kblockd>>]) = NULL
      BY <1>5, <2>3 DEF Final
    <2>5. KickPoint(R, Kblockd)'
      BY <1>2, <2>2, <2>3, <2>4, NullIsNoBio DEF KickPoint
    <2> QED
      BY <1>8, <2>1, <2>5, PointFrame DEF KickPoints
  <1>12. WorkPoints(R)'
    BY <1>2, <1>7, <1>8 DEF Waiting, WorkPoints
  <1>13. CorePoints(R)' /\ FbiosMadeOf(R)'
    <2>1. \A f \in fbios : f.head \in Bios
      BY DEF TypeOK, FbioSet
    <2>2. \A f, c : MadeOf(f, c)' <=> MadeOf(f, c)
      BY <1>1, MadeOfFrame
    <2>3. CorePoints(R)'
      BY <1>1, <1>8, <2>1 DEF Waiting, CorePoints
    <2>4. \A r \in Runners : kick'[r].fbio # NULL => kick'[r] = kick[r]
      BY <1>1 DEF TypeOK
    <2>5. FbiosMadeOf(R)'
      BY <1>1, <1>8, <2>1, <2>2, <2>4 DEF Waiting, FbiosMadeOf
    <2> QED
      BY <2>3, <2>5
  <1> QED
    BY <1>3, <1>4, <1>9, <1>10, <1>11, <1>12, <1>13 DEF IInv, Waiting

-----------------------------------------------------------------------------
(* Steps of a submitter with its bio *)

(* The bio in the hands of a submitter is alone there, and linked to       *)
(* nothing.                                                                *)
LEMMA InHand ==
    ASSUME TypeOK, NEW Q, Waiting(Q), NEW t \in Threads, at[t] \in Held \cup {"place"}
    PROVE  /\ cur[t] \in Bios /\ Q[<<"cur", t>>] # << >> /\ Q[<<"cur", t>>] \in Seq(Bios)
           /\ Len(Q[<<"cur", t>>]) = 1 /\ Q[<<"cur", t>>][1] = cur[t] /\ First(Q[<<"cur", t>>]) = cur[t]
           /\ Tail(Q[<<"cur", t>>]) = << >>
           /\ bi_next[cur[t]] = NULL /\ shape[cur[t]] \in Shapes /\ ended[cur[t]] = 0
           /\ kick[t].bio = NULL /\ Somewhere(cur[t], Q)
  <1> DEFINE s == Q[<<"cur", t>>]
  <1>1. <<"cur", t>> \in Places
    BY PlaceNames
  <1>2. s \in Seq(Bios) /\ Strung(bi_next, s) /\ SubmitterPoint(Q, t)
    BY <1>1 DEF Waiting, WellStrung, SubmitterPoints
  <1>3. cur[t] # NULL /\ cur[t] = First(s) /\ Len(s) <= 1 /\ kick[t].bio = NULL
    BY <1>2 DEF SubmitterPoint, Held
  <1>4. s # << >> /\ s[1] = cur[t] /\ cur[t] \in Bios /\ Listed(cur[t], s)
    BY <1>2, <1>3, Ends
  <1> HIDE DEF s
  <1>5. Len(s) = 1 /\ Tail(s) = << >>
    BY <1>2, <1>3, <1>4, OneEntry
  <1>6. bi_next[cur[t]] = NULL
    BY <1>2, <1>4, <1>5 DEF Strung
  <1>7. Somewhere(cur[t], Q)
    BY <1>1, <1>4 DEF Somewhere, s
  <1>8. shape[cur[t]] \in Shapes /\ ended[cur[t]] = 0
    BY <1>4, <1>7 DEF Waiting, Covered, TypeOK
  <1> QED
    BY <1>2, <1>3, <1>4, <1>5, <1>6, <1>7, <1>8 DEF s

(* Heads differ: the first bio of a list outside the core heads no fbio in *)
(* the core.                                                               *)
LEMMA CoreNotListed ==
    ASSUME TypeOK, NEW Q, Waiting(Q), NEW p \in Places, Q[p] # << >>,
           \A b \in Bios : p # <<"core", b>>
    PROVE  Q[<<"core", First(Q[p])>>] = << >> /\ \A f \in fbios : f.head # First(Q[p])
  <1>1. /\ Q[p] \in Seq(Bios)
        /\ \A q \in Places, b \in Bios : Listed(b, Q[p]) /\ Listed(b, Q[q]) => p = q
        /\ \A b \in Bios : <<"core", b>> \in Places /\ Q[<<"core", b>>] \in Seq(Bios)
    BY PlaceNames DEF Waiting, WellStrung
  <1>2. First(Q[p]) \in Bios /\ Listed(First(Q[p]), Q[p])
    BY <1>1, Ends
  <1>3. \A f \in fbios : f.head # First(Q[p])
    <2> SUFFICES ASSUME NEW f \in fbios, f.head = First(Q[p]) PROVE FALSE
      OBVIOUS
    <2>1. First(Q[<<"core", f.head>>]) = f.head
      BY DEF Waiting, CorePoints
    <2>2. Listed(f.head, Q[<<"core", f.head>>])
      BY <1>1, <1>2, <2>1, Ends, NullIsNoBio
    <2> QED
      BY <1>1, <1>2, <2>2
  <1>4. Q[<<"core", First(Q[p])>>] = << >>
    BY <1>2, <1>3 DEF Waiting, CorePoints
  <1> QED
    BY <1>3, <1>4

(* A new fbio covers its one bio. *)
LEMMA NewFbioMadeOf ==
    ASSUME NEW b \in Bios, shape[b] \in Shapes
    PROVE  /\ NewFbio(b) \in FbioSet /\ NewFbio(b) # NULL /\ NewFbio(b).head = b
           /\ \A s : Len(s) = 1 /\ s[1] = b => MadeOf(NewFbio(b), s)
  <1>1. shape[b] \in [dir : {"READ", "WRITE", "DISCARD"}, base : Nat, len : Nat, ok : BOOLEAN]
    BY ShapesType
  <1>2. /\ shape[b].dir \in {"READ", "WRITE", "DISCARD"} /\ shape[b].base \in Nat /\ shape[b].len \in Nat
        /\ 0 \in 0..MaxSg /\ 1 \in 0..MaxSg
    BY <1>1, Limits
  <1>3. NewFbio(b) \in FbioSet
    BY <1>2 DEF NewFbio, FbioSet
  <1>4. NewFbio(b) # NULL
    BY <1>3, NullIsNoBio
  <1>5. ASSUME NEW s, Len(s) = 1, s[1] = b PROVE MadeOf(NewFbio(b), s)
    BY <1>2, <1>5 DEF MadeOf, NewFbio
  <1> QED
    BY <1>3, <1>4, <1>5 DEF NewFbio

(* A bio is submitted. *)
LEMMA SubmitInv ==
    ASSUME TypeOK, NoSleepWithoutPressure, NEW Q, Waiting(Q), NEW t \in Threads,
           NEW b \in Bios, NEW sh \in Shapes, kfio_submit_bio(t, b, sh)
    PROVE  IInv'
  <1> DEFINE p == <<"cur", t>>
  <1>1. /\ at[t] = "idle" /\ shape[b] = NULL
        /\ shape' = [shape EXCEPT ![b] = sh] /\ cur' = [cur EXCEPT ![t] = b]
        /\ \E a \in {"place", "hold"} : at' = [at EXCEPT ![t] = a]
        /\ stalls' = [stalls EXCEPT ![t] = 0]
        /\ UNCHANGED <<bi_next, ended, plug, work, kick, fbios, holdoff>>
    BY DEF kfio_submit_bio, Fresh, queues
  <1>2. TypeOK'
    <2>1. shape' \in [Bios -> Shapes \cup {NULL}] /\ cur' \in [Threads -> Bios \cup {NULL}]
      BY <1>1 DEF TypeOK
    <2>2. at' \in [Threads -> {"idle", "hold", "asleep", "stalled", "place", "kick"}]
      BY <1>1 DEF TypeOK
    <2>3. stalls' \in [Threads -> 0..(MaxStalls - 1)]
      BY <1>1, Limits DEF TypeOK
    <2> QED
      BY <1>1, <2>1, <2>2, <2>3 DEF TypeOK
  <1>3. NoSleepWithoutPressure'
    BY <1>1 DEF NoSleepWithoutPressure, TypeOK
  <1>4. /\ WellStrung(bi_next, Q) /\ p \in Places /\ Q[p] \in Seq(Bios)
        /\ ~Somewhere(b, Q) /\ bi_next[b] = NULL /\ ended[b] = 0
    BY <1>1, PlaceNames DEF Waiting, WellStrung, Covered
  <1>5. cur[t] = NULL /\ Q[p] = << >> /\ kick[t].bio = NULL
    <2>1. SubmitterPoint(Q, t)
      BY DEF Waiting, SubmitterPoints
    <2>2. cur[t] = NULL /\ kick[t].bio = NULL
      BY <1>1, <2>1 DEF SubmitterPoint, Held
    <2> QED
      BY <1>4, <2>1, <2>2, Ends DEF SubmitterPoint
  <1>6. /\ bi_next \in [Bios -> Bios \cup {NULL}]
        /\ \A x \in Bios : bi_next[x] = IF x = Final(Q[p]) THEN b ELSE bi_next[x]
    BY <1>5, NullIsNoBio DEF TypeOK, Final
  <1>7. PICK R : /\ WellStrung(bi_next, R) /\ R[p] = Append(Q[p], b)
                 /\ \A q \in Places : q # p => R[q] = Q[q]
                 /\ \A x : Somewhere(x, R) <=> x = b \/ Somewhere(x, Q)
    BY <1>4, <1>6, AppendTo
  <1>8. R[p] = <<b>>
    BY <1>5, <1>7
  <1>9. /\ \A u \in Threads : /\ R[<<"plug", u>>] = Q[<<"plug", u>>]
                              /\ u # t => R[<<"cur", u>>] = Q[<<"cur", u>>]
        /\ \A r \in Runners : R[<<"rest", r>>] = Q[<<"rest", r>>] /\ R[<<"built", r>>] = Q[<<"built", r>>]
        /\ \A x \in Bios : R[<<"core", x>>] = Q[<<"core", x>>] /\ R[<<"work", x>>] = Q[<<"work", x>>]
    BY <1>7, PlaceNames
  <1>10. WellStrung(bi_next, R)' /\ Covered(R)'
    <2>1. /\ \A x \in Bios : x # b => shape'[x] = shape[x]
          /\ shape'[b] # NULL
      BY <1>1, NullIsNoBio DEF TypeOK
    <2> QED
      BY <1>1, <1>4, <1>7, <2>1 DEF Waiting, Covered
  <1>11. SubmitterPoints(R)'
    <2>1. \A u \in Threads : u # t => plug'[u] = plug[u] /\ kick'[u] = kick[u] /\ at'[u] = at[u] /\ cur'[u] = cur[u]
      BY <1>1 DEF TypeOK
    <2>2. SubmitterPoint(R, t)'
      <3>1. /\ cur'[t] = b /\ at'[t] \in Held \cup {"place"} /\ at'[t] # "kick"
            /\ plug' = plug /\ kick' = kick /\ b # NULL
        BY <1>1, NullIsNoBio DEF TypeOK, Held
      <3>2. First(R[p]) = b /\ Len(R[p]) <= 1
        BY <1>8 DEF First
      <3>3. SubmitterPoint(Q, t)
        BY DEF Waiting, SubmitterPoints
      <3>4. /\ plug'[t].head = First(R[<<"plug", t>>]) /\ plug'[t].tail = Final(R[<<"plug", t>>])
            /\ ~plug'[t].on => plug'[t].head = NULL
        BY <1>9, <3>1, <3>3, Zenon DEF SubmitterPoint
      <3>5. cur'[t] # NULL /\ ~(kick'[t].bio # NULL)
        BY <1>5, <3>1
      <3> QED
        BY <3>1, <3>2, <3>4, <3>5, Zenon DEF SubmitterPoint
    <2>3. ASSUME NEW u \in Threads, u # t PROVE SubmitterPoint(R, u)'
      BY <1>9, <2>1, <2>3, PointFrame, Zenon
    <2> QED
      BY <2>2, <2>3, Zenon DEF SubmitterPoints
  <1>12. KickPoints(R)'
    BY <1>1, <1>9, PointFrame DEF KickPoints
  <1>13. WorkPoints(R)'
    BY <1>1, <1>9 DEF Waiting, WorkPoints
  <1>14. CorePoints(R)'
    <2>1. \A f \in fbios : f.head \in Bios
      BY DEF TypeOK, FbioSet
    <2> QED
      BY <1>1, <1>9, <2>1 DEF Waiting, CorePoints
  <1>15. FbiosMadeOf(R)'
    <2>1. \A f \in fbios : f.head \in Bios
      BY DEF TypeOK, FbioSet
    <2>2. ASSUME NEW q \in Places, NEW f, MadeOf(f, Q[q]), Q[q] # << >> PROVE MadeOf(f, Q[q])'
      <3>1. Q[q] \in Seq(Bios) /\ \A i \in 1..Len(Q[q]) : Q[q][i] # b
        BY <1>4 DEF Waiting, WellStrung, Somewhere, Listed
      <3>2. \A x \in Bios : x # b => shape'[x] = shape[x]
        BY <1>1 DEF TypeOK
      <3>3. \A i \in 1..Len(Q[q]) : shape'[Q[q][i]] = shape[Q[q][i]]
        BY <3>1, <3>2
      <3>4. /\ 1 \in 1..Len(Q[q]) /\ Len(Q[q]) \in 1..Len(Q[q])
            /\ \A i \in 1..(Len(Q[q]) - 1) : i \in 1..Len(Q[q]) /\ i + 1 \in 1..Len(Q[q])
        BY <2>2, <3>1
      <3> QED
        BY <2>2, <3>3, <3>4 DEF MadeOf
    <2>3. ASSUME NEW f \in fbios PROVE MadeOf(f, R[<<"core", f.head>>])'
      <3>1. Q[<<"core", f.head>>] # << >> /\ <<"core", f.head>> \in Places
        BY <2>1, NullIsNoBio, PlaceNames DEF Waiting, CorePoints, First
      <3>2. MadeOf(f, Q[<<"core", f.head>>])
        BY DEF Waiting, FbiosMadeOf
      <3> QED
        BY <1>9, <2>1, <2>2, <3>1, <3>2
    <2>4. ASSUME NEW r \in Runners, kick[r].fbio # NULL PROVE MadeOf(kick[r].fbio, R[<<"built", r>>])'
      <3>1. kick[r].fbio.head \in Bios /\ KickPoint(Q, r)
        BY <2>4 DEF TypeOK, FbioSet, Waiting, KickPoints
      <3>2. Q[<<"built", r>>] # << >> /\ <<"built", r>> \in Places
        BY <2>4, <3>1, NullIsNoBio, PlaceNames DEF KickPoint, First
      <3>3. MadeOf(kick[r].fbio, Q[<<"built", r>>])
        BY <2>4 DEF Waiting, FbiosMadeOf
      <3> QED
        BY <1>1, <1>9, <2>2, <3>2, <3>3
    <2> QED
      BY <1>1, <2>3, <2>4 DEF FbiosMadeOf
  <1> QED
    BY <1>2, <1>3, <1>10, <1>11, <1>12, <1>13, <1>14, <1>15 DEF IInv, Waiting

(* The bio in hand ends with an error. *)
LEMMA EndInHandInv ==
    ASSUME TypeOK, NoSleepWithoutPressure, NEW Q, Waiting(Q), NEW t \in Threads,
           at[t] \in Held \cup {"place"},
           ended' = [ended EXCEPT ![cur[t]] = @ + 1], cur' = [cur EXCEPT ![t] = NULL],
           at' = [at EXCEPT ![t] = "idle"],
           UNCHANGED <<shape, bi_next, stalls, plug, work, kick, fbios, holdoff>>
    PROVE  IInv'
  <1> DEFINE p == <<"cur", t>>
             b == cur[t]
  <1>1. /\ b \in Bios /\ Q[p] # << >> /\ Q[p][1] = b /\ Tail(Q[p]) = << >>
        /\ bi_next[b] = NULL /\ shape[b] \in Shapes /\ ended[b] = 0 /\ kick[t].bio = NULL
    BY InHand
  <1>2. TypeOK'
    <2>1. ended' \in [Bios -> Nat]
      <3>1. ended \in [Bios -> Nat]
        BY DEF TypeOK
      <3> QED
        BY <1>1, <3>1
    <2>2. at' \in [Threads -> {"idle", "hold", "asleep", "stalled", "place", "kick"}]
      BY DEF TypeOK
    <2>3. cur' \in [Threads -> Bios \cup {NULL}]
      BY DEF TypeOK
    <2> QED
      BY <2>1, <2>2, <2>3 DEF TypeOK
  <1>3. NoSleepWithoutPressure'
    BY DEF NoSleepWithoutPressure, TypeOK
  <1>4. WellStrung(bi_next, Q) /\ p \in Places /\ bi_next \in [Bios -> Bios \cup {NULL}]
    BY PlaceNames DEF Waiting, WellStrung
  <1>5. PICK R : /\ WellStrung(bi_next, R) /\ R[p] = << >>
                 /\ \A q \in Places : q # p => R[q] = Q[q]
                 /\ \A x : Somewhere(x, R) <=> x # b /\ Somewhere(x, Q)
    <2>1. \A x \in Bios : bi_next[x] = IF x = Q[p][1] THEN NULL ELSE bi_next[x]
      BY <1>1
    <2>2. \E R : /\ WellStrung(bi_next, R) /\ R[p] = Tail(Q[p])
                 /\ \A q \in Places : q # p => R[q] = Q[q]
                 /\ \A x : Somewhere(x, R) <=> x # Q[p][1] /\ Somewhere(x, Q)
      BY <1>1, <1>4, <2>1, PopFirst
    <2> QED
      BY <1>1, <2>2
  <1>6. /\ \A u \in Threads : /\ R[<<"plug", u>>] = Q[<<"plug", u>>]
                              /\ u # t => R[<<"cur", u>>] = Q[<<"cur", u>>]
        /\ \A r \in Runners : R[<<"rest", r>>] = Q[<<"rest", r>>] /\ R[<<"built", r>>] = Q[<<"built", r>>]
        /\ \A x \in Bios : R[<<"core", x>>] = Q[<<"core", x>>] /\ R[<<"work", x>>] = Q[<<"work", x>>]
    BY <1>5, PlaceNames
  <1> HIDE DEF b
  <1>7. WellStrung(bi_next, R)' /\ Covered(R)'
    <2>1. ended'[b] = 1 /\ \A x \in Bios : x # b => ended'[x] = ended[x]
      BY <1>1 DEF TypeOK, b
    <2>2. shape[b] # NULL
      BY <1>1, NullIsNoBio
    <2> QED
      BY <1>1, <1>5, <2>1, <2>2 DEF Waiting, Covered
  <1>8. SubmitterPoints(R)'
    <2>1. ASSUME NEW u \in Threads, u # t PROVE SubmitterPoint(R, u)'
      <3>1. plug'[u] = plug[u] /\ kick'[u] = kick[u] /\ at'[u] = at[u] /\ cur'[u] = cur[u]
        BY <2>1 DEF TypeOK
      <3> QED
        BY <1>6, <2>1, <3>1, PointFrame
    <2>2. SubmitterPoint(R, t)'
      <3>1. cur'[t] = NULL /\ at'[t] = "idle" /\ plug' = plug /\ kick' = kick
        BY DEF TypeOK
      <3>2. at'[t] \notin Held \cup {"place"} /\ at'[t] # "kick"
        BY <3>1 DEF Held
      <3>3. First(R[p]) = NULL /\ Len(R[p]) <= 1
        BY <1>5 DEF First
      <3>4. SubmitterPoint(Q, t)
        BY DEF Waiting, SubmitterPoints
      <3> QED
        BY <1>1, <1>6, <3>1, <3>2, <3>3, <3>4 DEF SubmitterPoint
    <2> QED
      BY <2>1, <2>2 DEF SubmitterPoints
  <1>9. KickPoints(R)' /\ WorkPoints(R)'
    BY <1>6, PointFrame DEF KickPoints, Waiting, WorkPoints
  <1>10. CorePoints(R)' /\ FbiosMadeOf(R)'
    <2>1. \A f \in fbios : f.head \in Bios
      BY DEF TypeOK, FbioSet
    <2>2. \A f, c : MadeOf(f, c)' <=> MadeOf(f, c)
      BY MadeOfFrame
    <2>3. CorePoints(R)'
      BY <1>6, <2>1 DEF Waiting, CorePoints
    <2>4. FbiosMadeOf(R)'
      BY <1>6, <2>1, <2>2 DEF Waiting, FbiosMadeOf
    <2> QED
      BY <2>3, <2>4
  <1> QED
    BY <1>2, <1>3, <1>7, <1>8, <1>9, <1>10 DEF IInv, Waiting

(* The bio in hand goes to the core in an fbio of its own. *)
LEMMA SubmitNowInv ==
    ASSUME TypeOK, NoSleepWithoutPressure, NEW Q, Waiting(Q), NEW t \in Threads,
           at[t] = "place", fbios' = fbios \cup {NewFbio(cur[t])},
           cur' = [cur EXCEPT ![t] = NULL], at' = [at EXCEPT ![t] = "idle"],
           UNCHANGED <<shape, bi_next, ended, stalls, plug, work, kick, holdoff>>
    PROVE  IInv'
  <1> DEFINE p == <<"cur", t>>
             b == cur[t]
             q == <<"core", b>>
             f == NewFbio(b)
  <1>1. /\ b \in Bios /\ Q[p] # << >> /\ Q[p][1] = b /\ First(Q[p]) = b /\ Len(Q[p]) = 1
        /\ shape[b] \in Shapes /\ kick[t].bio = NULL
    BY InHand
  <1>2. f \in FbioSet /\ f # NULL /\ f.head = b /\ MadeOf(f, Q[p])
    BY <1>1, NewFbioMadeOf
  <1>3. TypeOK'
    <2>1. fbios' \subseteq FbioSet
      BY <1>2 DEF TypeOK
    <2>2. at' \in [Threads -> {"idle", "hold", "asleep", "stalled", "place", "kick"}]
      BY DEF TypeOK
    <2>3. cur' \in [Threads -> Bios \cup {NULL}]
      BY DEF TypeOK
    <2> QED
      BY <2>1, <2>2, <2>3 DEF TypeOK
  <1>4. NoSleepWithoutPressure'
    BY DEF NoSleepWithoutPressure, TypeOK
  <1>5. WellStrung(bi_next, Q) /\ p \in Places /\ q \in Places /\ p # q
    BY <1>1, PlaceNames DEF Waiting
  <1>6. Q[q] = << >> /\ \A g \in fbios : g.head # b
    BY <1>1, <1>5, CoreNotListed
  <1>7. PICK R : /\ WellStrung(bi_next, R) /\ R[q] = Q[p] /\ R[p] = << >>
                 /\ \A r \in Places : r # p /\ r # q => R[r] = Q[r]
                 /\ \A x : Somewhere(x, R) <=> Somewhere(x, Q)
    BY <1>5, <1>6, MoveList
  <1>8. /\ \A u \in Threads : /\ R[<<"plug", u>>] = Q[<<"plug", u>>]
                              /\ u # t => R[<<"cur", u>>] = Q[<<"cur", u>>]
        /\ \A r \in Runners : R[<<"rest", r>>] = Q[<<"rest", r>>] /\ R[<<"built", r>>] = Q[<<"built", r>>]
        /\ \A x \in Bios : /\ x # b => R[<<"core", x>>] = Q[<<"core", x>>]
                           /\ R[<<"work", x>>] = Q[<<"work", x>>]
    BY <1>7, PlaceNames
  <1> HIDE DEF b, f
  <1>9. WellStrung(bi_next, R)' /\ Covered(R)'
    BY <1>7 DEF Waiting, Covered
  <1>10. SubmitterPoints(R)'
    <2>1. ASSUME NEW u \in Threads, u # t PROVE SubmitterPoint(R, u)'
      <3>1. plug'[u] = plug[u] /\ kick'[u] = kick[u] /\ at'[u] = at[u] /\ cur'[u] = cur[u]
        BY <2>1 DEF TypeOK
      <3> QED
        BY <1>8, <2>1, <3>1, PointFrame
    <2>2. SubmitterPoint(R, t)'
      <3>1. cur'[t] = NULL /\ at'[t] = "idle" /\ plug' = plug /\ kick' = kick
        BY DEF TypeOK
      <3>2. at'[t] \notin Held \cup {"place"} /\ at'[t] # "kick"
        BY <3>1 DEF Held
      <3>3. First(R[p]) = NULL /\ Len(R[p]) <= 1
        BY <1>7 DEF First
      <3>4. SubmitterPoint(Q, t)
        BY DEF Waiting, SubmitterPoints
      <3> QED
        BY <1>1, <1>8, <3>1, <3>2, <3>3, <3>4 DEF SubmitterPoint
    <2> QED
      BY <2>1, <2>2 DEF SubmitterPoints
  <1>11. KickPoints(R)' /\ WorkPoints(R)'
    BY <1>8, PointFrame DEF KickPoints, Waiting, WorkPoints
  <1>12. CorePoints(R)' /\ FbiosMadeOf(R)'
    <2>1. /\ \A g \in fbios : g.head \in Bios /\ g.head # b
          /\ \A g : g \in fbios' <=> g \in fbios \/ g = f
      BY <1>6 DEF TypeOK, FbioSet, f, b
    <2>2. \A g, c : MadeOf(g, c)' <=> MadeOf(g, c)
      BY MadeOfFrame
    <2>3. CorePoints(R)'
      <3>1. \A g, h \in fbios' : g.head = h.head => g = h
        BY <1>2, <2>1 DEF Waiting, CorePoints
      <3>2. ASSUME NEW g \in fbios' PROVE First(R[<<"core", g.head>>]) = g.head
        <4>1. CASE g = f
          BY <1>1, <1>2, <1>7, <4>1
        <4>2. CASE g \in fbios
          BY <1>8, <2>1, <4>2 DEF Waiting, CorePoints
        <4> QED
          BY <2>1, <4>1, <4>2
      <3>3. \A x \in Bios : R[<<"core", x>>] # << >> => \E g \in fbios' : g.head = x
        BY <1>2, <1>8, <2>1 DEF Waiting, CorePoints
      <3> QED
        BY <3>1, <3>2, <3>3 DEF CorePoints
    <2>4. ASSUME NEW g \in fbios' PROVE MadeOf(g, R[<<"core", g.head>>])
      <3>1. CASE g = f
        BY <1>2, <1>7, <3>1
      <3>2. CASE g \in fbios
        BY <1>8, <2>1, <3>2 DEF Waiting, FbiosMadeOf
      <3> QED
        BY <2>1, <3>1, <3>2
    <2>5. FbiosMadeOf(R)'
      BY <1>8, <2>2, <2>4 DEF Waiting, FbiosMadeOf
    <2> QED
      BY <2>3, <2>5
  <1> QED
    BY <1>3, <1>4, <1>9, <1>10, <1>11, <1>12 DEF IInv, Waiting

(* The bio in hand goes to the end of its thread's plug, and perhaps the   *)
(* thread takes the whole list at once.                                    *)
LEMMA AddToPlugInv ==
    ASSUME TypeOK, NoSleepWithoutPressure, NEW Q, Waiting(Q), NEW t \in Threads,
           kfio_add_bio_to_plugged_list(t)
    PROVE  IInv'
  <1> DEFINE b == cur[t]
             s == Q[<<"plug", t>>]
             head == First(Append(s, b))
  <1>1. /\ at[t] = "place" /\ cur' = [cur EXCEPT ![t] = NULL]
        /\ UNCHANGED <<shape, ended, stalls, work, fbios, holdoff>>
    BY DEF kfio_add_bio_to_plugged_list
  <1>2. /\ b \in Bios /\ Q[<<"cur", t>>] # << >> /\ Q[<<"cur", t>>][1] = b
        /\ Tail(Q[<<"cur", t>>]) = << >> /\ bi_next[b] = NULL
        /\ kick[t].bio = NULL /\ Somewhere(b, Q)
    BY <1>1, InHand DEF Held
  <1>3. /\ WellStrung(bi_next, Q) /\ <<"cur", t>> \in Places /\ <<"plug", t>> \in Places
        /\ s \in Seq(Bios) /\ bi_next \in [Bios -> Bios \cup {NULL}]
        /\ SubmitterPoint(Q, t) /\ plug[t].on /\ t \in Runners
    BY PlaceNames DEF Waiting, WellStrung, SubmitterPoints, kfio_add_bio_to_plugged_list
  <1>4. /\ plug[t].tail = Final(s) /\ plug[t].head = First(s)
        /\ plug[t].tail = NULL <=> s = << >>
        /\ head = (IF plug[t].tail = NULL THEN b ELSE plug[t].head)
        /\ Final(Append(s, b)) = b /\ head \in Bios /\ b # NULL
    BY <1>2, <1>3, Ends, AppendEnds, NullIsNoBio DEF SubmitterPoint
  <1>5. /\ bi_next' \in [Bios -> Bios \cup {NULL}]
        /\ \A x \in Bios : bi_next'[x] = IF x = Final(s) THEN b ELSE bi_next[x]
    <2>1. bi_next' = IF plug[t].tail = NULL THEN bi_next ELSE [bi_next EXCEPT ![plug[t].tail] = b]
      BY DEF kfio_add_bio_to_plugged_list
    <2> HIDE DEF b, s
    <2> QED
      BY <1>2, <1>3, <1>4, <2>1, NullIsNoBio
  <1>6. \/ /\ plug' = [plug EXCEPT ![t] = EmptyPlug(TRUE)]
           /\ kick' = [kick EXCEPT ![t] = [bio |-> head, fbio |-> NULL, tail |-> NULL]]
           /\ at' = [at EXCEPT ![t] = "kick"]
        \/ /\ plug' = [plug EXCEPT ![t] = [on |-> TRUE, head |-> head, tail |-> b]]
           /\ at' = [at EXCEPT ![t] = "idle"]
           /\ kick' = kick
    <2>1. \/ /\ plug' = [plug EXCEPT ![t] = EmptyPlug(TRUE)]
             /\ Start(head, t)
             /\ at' = [at EXCEPT ![t] = "kick"]
          \/ /\ plug' = [plug EXCEPT ![t] = [on |-> TRUE, head |-> head, tail |-> b]]
             /\ at' = [at EXCEPT ![t] = "idle"]
             /\ kick' = kick
      <3> HIDE DEF head
      <3> QED
        BY <1>4, Zenon DEF kfio_add_bio_to_plugged_list
    <2> HIDE DEF head, b, s
    <2> QED
      BY <2>1 DEF Start, NoKick
  <1> HIDE DEF b, s, head
  <1>7. TypeOK'
    <2>1. plug' \in [Threads -> [on : BOOLEAN, head : Bios \cup {NULL}, tail : Bios \cup {NULL}]]
      <3>1. /\ EmptyPlug(TRUE) \in [on : BOOLEAN, head : Bios \cup {NULL}, tail : Bios \cup {NULL}]
            /\ [on |-> TRUE, head |-> head, tail |-> b]
                 \in [on : BOOLEAN, head : Bios \cup {NULL}, tail : Bios \cup {NULL}]
        BY <1>2, <1>4 DEF EmptyPlug
      <3>2. plug \in [Threads -> [on : BOOLEAN, head : Bios \cup {NULL}, tail : Bios \cup {NULL}]]
        BY DEF TypeOK
      <3>3. \/ plug' = [plug EXCEPT ![t] = EmptyPlug(TRUE)]
            \/ plug' = [plug EXCEPT ![t] = [on |-> TRUE, head |-> head, tail |-> b]]
        BY <1>6
      <3> QED
        BY <3>1, <3>2, <3>3
    <2>2. kick' \in [Runners -> [bio : Bios \cup {NULL}, fbio : FbioSet \cup {NULL}, tail : Bios \cup {NULL}]]
      <3>1. [bio |-> head, fbio |-> NULL, tail |-> NULL]
              \in [bio : Bios \cup {NULL}, fbio : FbioSet \cup {NULL}, tail : Bios \cup {NULL}]
        BY <1>4
      <3>2. kick \in [Runners -> [bio : Bios \cup {NULL}, fbio : FbioSet \cup {NULL}, tail : Bios \cup {NULL}]]
        BY DEF TypeOK
      <3>3. \/ kick' = kick
            \/ kick' = [kick EXCEPT ![t] = [bio |-> head, fbio |-> NULL, tail |-> NULL]]
        BY <1>6
      <3> QED
        BY <1>3, <3>1, <3>2, <3>3
    <2>3. at' \in [Threads -> {"idle", "hold", "asleep", "stalled", "place", "kick"}]
      BY <1>6 DEF TypeOK
    <2>4. cur' \in [Threads -> Bios \cup {NULL}]
      BY <1>1 DEF TypeOK
    <2> QED
      BY <1>1, <1>5, <2>1, <2>2, <2>3, <2>4 DEF TypeOK
  <1>8. NoSleepWithoutPressure'
    BY <1>1, <1>6 DEF NoSleepWithoutPressure, TypeOK
  <1>8a. PICK m : /\ m = bi_next' /\ m \in [Bios -> Bios \cup {NULL}]
                  /\ \A x \in Bios : m[x] = IF x = Final(s) THEN b ELSE bi_next[x]
    BY <1>5
  <1>9. PICK R1 : /\ WellStrung(bi_next, R1) /\ R1[<<"cur", t>>] = << >>
                  /\ \A q \in Places : q # <<"cur", t>> => R1[q] = Q[q]
                  /\ \A x : Somewhere(x, R1) <=> x # b /\ Somewhere(x, Q)
    <2>1. \A x \in Bios : bi_next[x] = IF x = Q[<<"cur", t>>][1] THEN NULL ELSE bi_next[x]
      BY <1>2
    <2>2. \E R : /\ WellStrung(bi_next, R) /\ R[<<"cur", t>>] = Tail(Q[<<"cur", t>>])
                 /\ \A q \in Places : q # <<"cur", t>> => R[q] = Q[q]
                 /\ \A x : Somewhere(x, R) <=> x # Q[<<"cur", t>>][1] /\ Somewhere(x, Q)
      BY <1>2, <1>3, <2>1, PopFirst
    <2> QED
      BY <1>2, <2>2
  <1>10. PICK R2 : /\ WellStrung(m, R2) /\ R2[<<"plug", t>>] = Append(s, b)
                   /\ \A q \in Places : q # <<"plug", t>> => R2[q] = R1[q]
                   /\ \A x : Somewhere(x, R2) <=> x = b \/ Somewhere(x, R1)
    <2>1. R1[<<"plug", t>>] = s /\ ~Somewhere(b, R1)
      BY <1>3, <1>9 DEF s
    <2>2. \E R : /\ WellStrung(m, R) /\ R[<<"plug", t>>] = Append(R1[<<"plug", t>>], b)
                 /\ \A q \in Places : q # <<"plug", t>> => R[q] = R1[q]
                 /\ \A x : Somewhere(x, R) <=> x = b \/ Somewhere(x, R1)
      <3> DEFINE p == <<"plug", t>>
      <3>1. /\ WellStrung(bi_next, R1) /\ p \in Places /\ b \in Bios /\ ~Somewhere(b, R1) /\ bi_next[b] = NULL
            /\ m \in [Bios -> Bios \cup {NULL}]
            /\ \A x \in Bios : m[x] = IF x = Final(R1[p]) THEN b ELSE bi_next[x]
        BY <1>2, <1>3, <1>9, <1>8a, <2>1
      <3> HIDE DEF p
      <3>2. \E R : /\ WellStrung(m, R) /\ R[p] = Append(R1[p], b)
                   /\ \A q \in Places : q # p => R[q] = R1[q]
                   /\ \A x : Somewhere(x, R) <=> x = b \/ Somewhere(x, R1)
        BY <3>1, AppendTo
      <3> QED
        BY <3>2 DEF p
    <2> QED
      BY <2>1, <2>2
  <1>11. \A x : Somewhere(x, R2) <=> Somewhere(x, Q)
    BY <1>2, <1>9, <1>10
  <1>12. /\ \A u \in Threads : /\ u # t => R2[<<"plug", u>>] = Q[<<"plug", u>>]
                               /\ u # t => R2[<<"cur", u>>] = Q[<<"cur", u>>]
         /\ \A r \in Runners : R2[<<"rest", r>>] = Q[<<"rest", r>>] /\ R2[<<"built", r>>] = Q[<<"built", r>>]
         /\ \A x \in Bios : R2[<<"core", x>>] = Q[<<"core", x>>] /\ R2[<<"work", x>>] = Q[<<"work", x>>]
         /\ R2[<<"cur", t>>] = << >>
    BY <1>9, <1>10, PlaceNames
  <1>13. ASSUME NEW R, \A x : Somewhere(x, R) <=> Somewhere(x, Q) PROVE Covered(R)'
    <2>1. ASSUME NEW x \in Bios, shape[x] = NULL PROVE bi_next'[x] = NULL
      <3>1. s # << >> => Final(s) \in Bios /\ Listed(Final(s), s)
        BY <1>3, Ends
      <3>2. x # Final(s)
        BY <1>3, <2>1, <3>1, WaitingIsOpen, NullIsNoBio DEF s, Final
      <3> QED
        BY <1>5, <2>1, <3>2 DEF Waiting, Covered
    <2> QED
      BY <1>1, <1>13, <2>1 DEF Waiting, Covered
  <1>14. ASSUME NEW R, WellStrung(m, R), SubmitterPoint(R, t)', KickPoint(R, t)',
                \A x : Somewhere(x, R) <=> Somewhere(x, Q), Alike(Q, R, t),
                R[<<"built", t>>] = Q[<<"built", t>>],
                \A x \in Bios : R[<<"core", x>>] = Q[<<"core", x>>]
         PROVE  Waiting(R)'
    <2>1. WellStrung(bi_next, R)'
      BY <1>14, <1>8a
    <2>2. Covered(R)'
      BY <1>13, <1>14
    <2>3. /\ \A u \in Threads \ {t} : plug'[u] = plug[u] /\ cur'[u] = cur[u] /\ at'[u] = at[u]
          /\ \A r \in Runners \ {t} : kick'[r] = kick[r]
      BY <1>1, <1>6 DEF TypeOK
    <2>4. SubmitterPoints(R)' /\ KickPoints(R)' /\ WorkPoints(R)'
      <3>1. SubmitterPoint(R, t)' /\ KickPoint(R, t)' /\ Alike(Q, R, t) /\ work' = work
        BY <1>1, <1>14
      <3> QED
        BY <1>3, <2>3, <3>1, AlikePoints
    <2>5. \A f \in fbios : f.head \in Bios
      BY DEF TypeOK, FbioSet
    <2>6. \A x \in Bios : R[<<"core", x>>] = Q[<<"core", x>>]
      BY <1>14
    <2>7. CorePoints(R)'
      BY <1>1, <2>5, <2>6 DEF Waiting, CorePoints
    <2>8. \A f, c : MadeOf(f, c)' <=> MadeOf(f, c)
      BY <1>1, MadeOfFrame
    <2>9. \A r \in Runners : kick'[r].fbio # NULL => kick'[r] = kick[r]
      <3>1. kick' = kick \/ kick' = [kick EXCEPT ![t] = [bio |-> head, fbio |-> NULL, tail |-> NULL]]
        BY <1>6
      <3> QED
        BY <1>3, <3>1 DEF TypeOK
    <2>10. \A r \in Runners : R[<<"built", r>>] = Q[<<"built", r>>]
      BY <1>14 DEF Alike
    <2>11. FbiosMadeOf(R)'
      BY <1>1, <2>5, <2>6, <2>8, <2>9, <2>10 DEF Waiting, FbiosMadeOf
    <2> QED
      BY <2>1, <2>2, <2>4, <2>7, <2>11 DEF Waiting
  <1>15. cur'[t] = NULL /\ First(<< >>) = NULL /\ Final(<< >>) = NULL /\ Len(<< >>) <= 1
    BY <1>1 DEF TypeOK, First, Final
  <1>16. CASE /\ plug' = [plug EXCEPT ![t] = [on |-> TRUE, head |-> head, tail |-> b]]
              /\ at' = [at EXCEPT ![t] = "idle"]
              /\ kick' = kick
    <2>1. SubmitterPoint(R2, t)'
      <3>1. /\ plug'[t] = [on |-> TRUE, head |-> head, tail |-> b] /\ at'[t] = "idle"
            /\ kick'[t].bio = NULL
        BY <1>2, <1>16 DEF TypeOK
      <3>2. at'[t] \notin Held \cup {"place"} /\ at'[t] # "kick"
        BY <3>1 DEF Held
      <3>3. /\ First(R2[<<"plug", t>>]) = head /\ Final(R2[<<"plug", t>>]) = b
            /\ plug'[t].head = head /\ plug'[t].tail = b /\ plug'[t].on
        BY <1>4, <1>10, <3>1 DEF head
      <3> QED
        BY <1>12, <1>15, <3>1, <3>2, <3>3 DEF SubmitterPoint
    <2>2. KickPoint(R2, t)'
      BY <1>3, <1>12, <1>16, PointFrame
    <2>3. Alike(Q, R2, t)
      BY <1>12 DEF Alike
    <2>4. Waiting(R2)'
      BY <1>3, <1>10, <1>11, <1>12, <1>14, <2>1, <2>2, <2>3
    <2> QED
      BY <1>7, <1>8, <2>4 DEF IInv
  <1>17. CASE /\ plug' = [plug EXCEPT ![t] = EmptyPlug(TRUE)]
              /\ kick' = [kick EXCEPT ![t] = [bio |-> head, fbio |-> NULL, tail |-> NULL]]
              /\ at' = [at EXCEPT ![t] = "kick"]
    <2>1. Q[<<"rest", t>>] = << >> /\ Q[<<"built", t>>] = << >>
      BY <1>2, <1>3, IdleRunner
    <2>2. R2[<<"rest", t>>] = << >> /\ R2[<<"built", t>>] = << >> /\ <<"rest", t>> \in Places
      BY <1>3, <1>12, <2>1, PlaceNames
    <2>3. PICK R : /\ WellStrung(m, R) /\ R[<<"rest", t>>] = R2[<<"plug", t>>] /\ R[<<"plug", t>>] = << >>
                   /\ \A q \in Places : q # <<"plug", t>> /\ q # <<"rest", t>> => R[q] = R2[q]
                   /\ \A x : Somewhere(x, R) <=> Somewhere(x, R2)
      <3> DEFINE p == <<"plug", t>>
                 q == <<"rest", t>>
      <3>1. WellStrung(m, R2) /\ p \in Places /\ q \in Places /\ p # q /\ R2[q] = << >>
        BY <1>3, <1>10, <2>2
      <3> HIDE DEF p, q
      <3>2. \E R : /\ WellStrung(m, R) /\ R[q] = R2[p] /\ R[p] = << >>
                   /\ \A r \in Places : r # p /\ r # q => R[r] = R2[r]
                   /\ \A x : Somewhere(x, R) <=> Somewhere(x, R2)
        BY <3>1, MoveList
      <3> QED
        BY <3>2 DEF p, q
    <2>4. /\ \A u \in Threads : u # t => R[<<"plug", u>>] = R2[<<"plug", u>>]
          /\ \A u \in Threads : R[<<"cur", u>>] = R2[<<"cur", u>>]
          /\ \A r \in Runners : r # t => R[<<"rest", r>>] = R2[<<"rest", r>>]
          /\ \A r \in Runners : R[<<"built", r>>] = R2[<<"built", r>>]
          /\ \A x \in Bios : R[<<"core", x>>] = R2[<<"core", x>>] /\ R[<<"work", x>>] = R2[<<"work", x>>]
      BY <2>3, PlaceNames
    <2>5. SubmitterPoint(R, t)'
      <3>1. plug'[t] = EmptyPlug(TRUE) /\ at'[t] = "kick" /\ kick'[t].bio = head
        BY <1>3, <1>17 DEF TypeOK
      <3>2. at'[t] \notin Held \cup {"place"} /\ head # NULL
        BY <1>4, <3>1, NullIsNoBio DEF Held
      <3>3. plug'[t].head = NULL /\ plug'[t].tail = NULL /\ R[<<"cur", t>>] = << >>
        BY <1>12, <2>4, <3>1 DEF EmptyPlug
      <3> QED
        BY <1>15, <2>3, <3>1, <3>2, <3>3 DEF SubmitterPoint
    <2>6. KickPoint(R, t)'
      <3>1. kick'[t] = [bio |-> head, fbio |-> NULL, tail |-> NULL]
        BY <1>3, <1>17 DEF TypeOK
      <3>2. First(R[<<"rest", t>>]) = head /\ R[<<"built", t>>] = << >> /\ head # NULL
        BY <1>3, <1>4, <1>10, <2>2, <2>3, <2>4, NullIsNoBio DEF head
      <3> QED
        BY <1>15, <3>1, <3>2 DEF KickPoint
    <2>7. \A x : Somewhere(x, R) <=> Somewhere(x, Q)
      BY <1>11, <2>3
    <2>8. Alike(Q, R, t)
      BY <1>12, <2>4 DEF Alike
    <2>9. Waiting(R)'
      BY <1>3, <1>12, <1>14, <2>3, <2>4, <2>5, <2>6, <2>7, <2>8
    <2> QED
      BY <1>7, <1>8, <2>9 DEF IInv
  <1> QED
    BY <1>6, <1>16, <1>17

-----------------------------------------------------------------------------
(* The end of an fbio *)

(* A bio is once in a list that it is in. *)
LEMMA OccursOnce ==
    ASSUME NEW c, NoneTwice(c), NEW b
    PROVE  Cardinality({i \in 1..Len(c) : c[i] = b}) = IF Listed(b, c) THEN 1 ELSE 0
  <1>1. CASE Listed(b, c)
    <2>1. PICK i \in 1..Len(c) : c[i] = b
      BY <1>1 DEF Listed
    <2>2. {j \in 1..Len(c) : c[j] = b} = {i}
      BY <2>1 DEF NoneTwice
    <2> QED
      BY <1>1, <2>2, FS_Singleton
  <1>2. CASE ~Listed(b, c)
    <2>1. {j \in 1..Len(c) : c[j] = b} = {}
      BY <1>2 DEF Listed
    <2> QED
      BY <1>2, <2>1, FS_EmptySet
  <1> QED
    BY <1>1, <1>2

(* The list of an fbio in the core is what the completor finds. *)
LEMMA CoreChain ==
    ASSUME TypeOK, NEW Q, Waiting(Q), NEW f \in fbios
    PROVE  /\ f.head \in Bios /\ <<"core", f.head>> \in Places
           /\ Q[<<"core", f.head>>] \in Seq(Bios) /\ Q[<<"core", f.head>>] # << >>
           /\ NoneTwice(Q[<<"core", f.head>>])
           /\ Chain(f.head) = Q[<<"core", f.head>>]
  <1> DEFINE s == Q[<<"core", f.head>>]
  <1>1. f.head \in Bios /\ <<"core", f.head>> \in Places /\ First(s) = f.head
    BY PlaceNames DEF TypeOK, FbioSet, Waiting, CorePoints
  <1>2. s \in Seq(Bios) /\ NoneTwice(s) /\ Strung(bi_next, s)
    BY <1>1 DEF Waiting, WellStrung
  <1>3. s # << >> /\ s[1] = f.head
    BY <1>1, <1>2, Ends, NullIsNoBio
  <1> HIDE DEF s
  <1>4. Chain(s[1]) = s
    BY <1>2, <1>3, ChainIs
  <1> QED
    BY <1>1, <1>2, <1>3, <1>4 DEF s

(* The completor ends every bio of an fbio, once. *)
LEMMA CompletorInv ==
    ASSUME TypeOK, NoSleepWithoutPressure, NEW Q, Waiting(Q), NEW f \in fbios, kfio_bio_completor(f)
    PROVE  IInv'
  <1> DEFINE p == <<"core", f.head>>
             c == Q[p]
  <1>1. /\ f.head \in Bios /\ p \in Places /\ c \in Seq(Bios) /\ NoneTwice(c) /\ Chain(f.head) = c
    BY CoreChain
  <1>2. /\ fbios' = fbios \ {f}
        /\ ended' = [b \in Bios |-> ended[b] + Cardinality({i \in 1..Len(c) : c[i] = b})]
        /\ UNCHANGED <<shape, bi_next, at, cur, stalls, plug, work, kick, holdoff>>
    <2> HIDE DEF c
    <2> QED
      BY <1>1 DEF kfio_bio_completor, queues
  <1> HIDE DEF c
  <1>3. \A b \in Bios : ended'[b] = ended[b] + (IF Listed(b, c) THEN 1 ELSE 0)
    BY <1>1, <1>2, OccursOnce
  <1>4. TypeOK'
    <2>1. ended \in [Bios -> Nat]
      BY DEF TypeOK
    <2>2. DOMAIN ended' = Bios /\ ended' = [b \in Bios |-> ended'[b]]
      BY <1>2
    <2>3. \A b \in Bios : ended'[b] \in Nat
      BY <1>3, <2>1
    <2>4. ended' \in [Bios -> Nat]
      BY <2>2, <2>3
    <2>5. fbios' \subseteq FbioSet
      BY <1>2 DEF TypeOK
    <2> QED
      BY <1>2, <2>4, <2>5 DEF TypeOK
  <1>5. NoSleepWithoutPressure'
    BY <1>2 DEF NoSleepWithoutPressure
  <1>6. PICK R : /\ WellStrung(bi_next, R) /\ R[p] = << >>
                 /\ \A r \in Places : r # p => R[r] = Q[r]
                 /\ \A x \in Bios : Somewhere(x, R) <=> Somewhere(x, Q) /\ ~Listed(x, c)
    BY <1>1, DropList DEF Waiting, c
  <1>7. /\ \A u \in Threads : R[<<"plug", u>>] = Q[<<"plug", u>>] /\ R[<<"cur", u>>] = Q[<<"cur", u>>]
        /\ \A r \in Runners : R[<<"rest", r>>] = Q[<<"rest", r>>] /\ R[<<"built", r>>] = Q[<<"built", r>>]
        /\ \A x \in Bios : /\ x # f.head => R[<<"core", x>>] = Q[<<"core", x>>]
                           /\ R[<<"work", x>>] = Q[<<"work", x>>]
    BY <1>6, PlaceNames
  <1>8. WellStrung(bi_next, R)' /\ Covered(R)'
    <2>1. \A x \in Bios : Listed(x, c) => shape[x] # NULL /\ ended[x] = 0 /\ Somewhere(x, Q)
      BY <1>1, WaitingIsOpen DEF c
    <2>2. ASSUME NEW x \in Bios
          PROVE  /\ Somewhere(x, R) <=> shape[x] # NULL /\ ended'[x] = 0
                 /\ ended'[x] \in {0, 1}
                 /\ shape[x] = NULL => ended'[x] = 0 /\ bi_next[x] = NULL
      <3>1. /\ Somewhere(x, Q) <=> shape[x] # NULL /\ ended[x] = 0
            /\ ended[x] \in {0, 1}
            /\ shape[x] = NULL => ended[x] = 0 /\ bi_next[x] = NULL
        BY DEF Waiting, Covered
      <3>2. CASE Listed(x, c)
        <4>1. ended'[x] = 1 /\ ~Somewhere(x, R) /\ shape[x] # NULL
          BY <1>3, <1>6, <2>1, <3>2
        <4> QED
          BY <4>1
      <3>3. CASE ~Listed(x, c)
        <4>1. ended'[x] = ended[x] /\ (Somewhere(x, R) <=> Somewhere(x, Q))
          BY <1>3, <1>6, <3>1, <3>3
        <4> QED
          BY <3>1, <4>1
      <3> QED
        BY <3>2, <3>3
    <2> QED
      BY <1>2, <1>6, <2>2 DEF Covered
  <1>9. SubmitterPoints(R)' /\ KickPoints(R)' /\ WorkPoints(R)'
    <2>1. SubmitterPoints(R)' /\ KickPoints(R)'
      BY <1>2, <1>7, PointFrame DEF SubmitterPoints, KickPoints, Runners
    <2> QED
      BY <1>2, <1>7, <2>1 DEF Waiting, WorkPoints
  <1>10. CorePoints(R)' /\ FbiosMadeOf(R)'
    <2>1. \A g \in fbios' : g \in fbios /\ g.head \in Bios /\ g.head # f.head
      BY <1>2 DEF TypeOK, FbioSet, Waiting, CorePoints
    <2>2. \A g, d : MadeOf(g, d)' <=> MadeOf(g, d)
      BY <1>2, MadeOfFrame
    <2>3. CorePoints(R)'
      <3>1. \A g, h \in fbios' : g.head = h.head => g = h
        BY <2>1 DEF Waiting, CorePoints
      <3>2. \A g \in fbios' : First(R[<<"core", g.head>>]) = g.head
        BY <1>7, <2>1 DEF Waiting, CorePoints
      <3>3. ASSUME NEW x \in Bios, R[<<"core", x>>] # << >> PROVE \E g \in fbios' : g.head = x
        <4>1. x # f.head /\ Q[<<"core", x>>] # << >>
          BY <1>6, <1>7, <3>3
        <4>2. PICK g \in fbios : g.head = x
          BY <4>1 DEF Waiting, CorePoints
        <4> QED
          BY <1>2, <4>1, <4>2
      <3> QED
        BY <3>1, <3>2, <3>3 DEF CorePoints
    <2>4. FbiosMadeOf(R)'
      BY <1>2, <1>7, <2>1, <2>2 DEF Waiting, FbiosMadeOf
    <2> QED
      BY <2>3, <2>4
  <1> QED
    BY <1>4, <1>5, <1>8, <1>9, <1>10 DEF IInv, Waiting

-----------------------------------------------------------------------------
(* A round of the kickoff *)

(* The fbios of S are those whose lists R keeps for the core. *)
CoreHolds(R, S) ==
    /\ S \subseteq FbioSet
    /\ \A f, g \in S : f.head = g.head => f = g
    /\ \A f \in S : First(R[<<"core", f.head>>]) = f.head /\ MadeOf(f, R[<<"core", f.head>>])
    /\ \A b \in Bios : R[<<"core", b>>] # << >> => \E f \in S : f.head = b

(* r builds F, and T is its last bio. *)
Builds(R, r, F, T) ==
    /\ F \in FbioSet \cup {NULL}
    /\ F # NULL => F.head = First(R[<<"built", r>>]) /\ MadeOf(F, R[<<"built", r>>])
    /\ F = NULL => R[<<"built", r>>] = << >>
    /\ T = Final(R[<<"built", r>>])

(* Only r's kickoff and the core may differ. *)
Kept(Q, R, r) ==
    /\ \A u \in Threads : R[<<"plug", u>>] = Q[<<"plug", u>>] /\ R[<<"cur", u>>] = Q[<<"cur", u>>]
    /\ \A u \in Runners \ {r} : R[<<"rest", u>>] = Q[<<"rest", u>>] /\ R[<<"built", u>>] = Q[<<"built", u>>]
    /\ \A b \in Bios : R[<<"work", b>>] = Q[<<"work", b>>]

(* S, and F if there is one. *)
Given(S, F) == IF F = NULL THEN S ELSE S \cup {F}

(* The end of a round: go on with the next bio, or hand over what is built. *)
GoOn(r, S, F, T) ==
    LET next == bi_next[kick[r].bio]
    IN  IF next = NULL
        THEN kick' = [kick EXCEPT ![r] = NoKick] /\ fbios' = Given(S, F)
        ELSE kick' = [kick EXCEPT ![r] = [bio |-> next, fbio |-> F, tail |-> T]] /\ fbios' = S

(* The fbio that was built goes to the core. *)
LEMMA GiveBuilt ==
    ASSUME NEW n, NEW R, WellStrung(n, R), NEW r \in Runners, NEW S, NEW F, NEW T,
           CoreHolds(R, S), Builds(R, r, F, T)
    PROVE  \E P : /\ WellStrung(n, P) /\ CoreHolds(P, Given(S, F)) /\ P[<<"built", r>>] = << >>
                  /\ P[<<"rest", r>>] = R[<<"rest", r>>] /\ Kept(R, P, r)
                  /\ \A x : Somewhere(x, P) <=> Somewhere(x, R)
  <1>1. CASE F = NULL
    <2>1. R[<<"built", r>>] = << >> /\ Given(S, F) = S /\ Kept(R, R, r)
      BY <1>1 DEF Builds, Given, Kept
    <2> QED
      BY <2>1
  <1>2. CASE F # NULL
    <2> DEFINE h == F.head
               p == <<"built", r>>
               q == <<"core", h>>
    <2>1. F \in FbioSet /\ h \in Bios /\ h = First(R[p]) /\ MadeOf(F, R[p])
      BY <1>2 DEF Builds, FbioSet
    <2>2. p \in Places /\ q \in Places /\ p # q
      BY <2>1, PlaceNames
    <2>3. R[p] \in Seq(Bios) /\ R[q] \in Seq(Bios)
      BY <2>2 DEF WellStrung
    <2>4. Listed(h, R[p])
      BY <2>1, <2>3, Ends, NullIsNoBio
    <2>5. \A f \in S : f.head # h
      <3> SUFFICES ASSUME NEW f \in S, f.head = h PROVE FALSE
        OBVIOUS
      <3>1. First(R[q]) = h
        BY DEF CoreHolds
      <3>2. Listed(h, R[q])
        BY <2>1, <2>3, <3>1, Ends, NullIsNoBio
      <3> QED
        BY <2>1, <2>2, <2>4, <3>2 DEF WellStrung
    <2>6. R[q] = << >>
      BY <2>1, <2>5 DEF CoreHolds
    <2>7. PICK P : /\ WellStrung(n, P) /\ P[q] = R[p] /\ P[p] = << >>
                   /\ \A o \in Places : o # p /\ o # q => P[o] = R[o]
                   /\ \A x : Somewhere(x, P) <=> Somewhere(x, R)
      <3> HIDE DEF p, q
      <3> QED
        BY <2>2, <2>6, MoveList
    <2>8. /\ \A u \in Threads : P[<<"plug", u>>] = R[<<"plug", u>>] /\ P[<<"cur", u>>] = R[<<"cur", u>>]
          /\ \A u \in Runners : P[<<"rest", u>>] = R[<<"rest", u>>]
          /\ \A u \in Runners \ {r} : P[<<"built", u>>] = R[<<"built", u>>]
          /\ \A b \in Bios : P[<<"work", b>>] = R[<<"work", b>>]
          /\ \A b \in Bios : b # h => P[<<"core", b>>] = R[<<"core", b>>]
      BY <2>7, PlaceNames
    <2>9. Kept(R, P, r)
      BY <2>8 DEF Kept
    <2>10. \A f : f \in Given(S, F) <=> f \in S \/ f = F
      BY <1>2 DEF Given
    <2>11. CoreHolds(P, Given(S, F))
      <3> DEFINE G == Given(S, F)
      <3> HIDE DEF G
      <3>1. G \subseteq FbioSet
        BY <2>1, <2>10 DEF CoreHolds, G
      <3>2. \A f, g \in G : f.head = g.head => f = g
        BY <2>5, <2>10 DEF CoreHolds, G
      <3>3. ASSUME NEW f \in G PROVE First(P[<<"core", f.head>>]) = f.head /\ MadeOf(f, P[<<"core", f.head>>])
        <4>1. CASE f = F
          BY <2>1, <2>7, <4>1
        <4>2. CASE f \in S
          BY <2>5, <2>8, <3>1, <4>2 DEF CoreHolds, FbioSet
        <4> QED
          BY <2>10, <4>1, <4>2 DEF G
      <3>4. \A b \in Bios : P[<<"core", b>>] # << >> => \E f \in G : f.head = b
        BY <2>8, <2>10 DEF CoreHolds, G
      <3> QED
        BY <3>1, <3>2, <3>3, <3>4 DEF CoreHolds, G
    <2> QED
      BY <2>7, <2>8, <2>9, <2>11
  <1> QED
    BY <1>1, <1>2

(* A new state of r's kickoff that fits the lists. *)
LEMMA KickSet ==
    ASSUME TypeOK, NoSleepWithoutPressure, NEW Q, Waiting(Q), NEW r \in Runners,
           NEW R, NEW nb \in Bios \cup {NULL}, NEW F, NEW T,
           WellStrung(bi_next, R)', Covered(R)', Kept(Q, R, r),
           CoreHolds(R, fbios)', Builds(R, r, F, T),
           nb = First(R[<<"rest", r>>]), nb = NULL => F = NULL,
           kick' = [kick EXCEPT ![r] = [bio |-> nb, fbio |-> F, tail |-> T]],
           ended' \in [Bios -> Nat],
           r \in Threads => at[r] = "kick",
           at' = IF r \in Threads /\ nb = NULL THEN [at EXCEPT ![r] = "idle"] ELSE at,
           UNCHANGED <<shape, cur, stalls, plug, work, holdoff>>
    PROVE  IInv'
  <1>1. R[<<"built", r>>] \in Seq(Bios)
    BY PlaceNames DEF WellStrung
  <1>2. T \in Bios \cup {NULL} /\ F \in FbioSet \cup {NULL}
    BY <1>1, Ends DEF Builds
  <1>3. kick \in [Runners -> [bio : Bios \cup {NULL}, fbio : FbioSet \cup {NULL}, tail : Bios \cup {NULL}]]
    BY DEF TypeOK
  <1>4. /\ kick'[r] = [bio |-> nb, fbio |-> F, tail |-> T]
        /\ \A u \in Runners \ {r} : kick'[u] = kick[u]
    BY <1>3
  <1>5. TypeOK'
    <2>1. kick' \in [Runners -> [bio : Bios \cup {NULL}, fbio : FbioSet \cup {NULL}, tail : Bios \cup {NULL}]]
      BY <1>2, <1>3
    <2>2. at' \in [Threads -> {"idle", "hold", "asleep", "stalled", "place", "kick"}]
      BY DEF TypeOK
    <2>3. bi_next' \in [Bios -> Bios \cup {NULL}] /\ fbios' \subseteq FbioSet
      BY DEF WellStrung, CoreHolds
    <2> QED
      BY <2>1, <2>2, <2>3 DEF TypeOK
  <1>6. NoSleepWithoutPressure'
    <2>1. \A t \in Threads : at'[t] = "asleep" => at[t] = "asleep"
      BY DEF TypeOK
    <2> QED
      BY <2>1 DEF NoSleepWithoutPressure
  <1>7. KickPoint(R, r)'
    BY <1>4 DEF KickPoint, Builds
  <1>8. r \in Threads => SubmitterPoint(R, r)'
    <2> SUFFICES ASSUME r \in Threads PROVE SubmitterPoint(R, r)'
      OBVIOUS
    <2>1. SubmitterPoint(Q, r)
      BY DEF Waiting, SubmitterPoints
    <2>2. at'[r] \in {"idle", "kick"} /\ (at'[r] = "kick" <=> nb # NULL) /\ at[r] = "kick"
      BY DEF TypeOK
    <2>3. at'[r] \notin Held \cup {"place"} /\ at[r] \notin Held \cup {"place"}
      BY <2>2 DEF Held
    <2>4. R[<<"plug", r>>] = Q[<<"plug", r>>] /\ R[<<"cur", r>>] = Q[<<"cur", r>>]
      BY DEF Kept
    <2>5. kick'[r].bio # NULL <=> at'[r] = "kick"
      BY <1>4, <2>2
    <2> QED
      BY <2>1, <2>3, <2>4, <2>5 DEF SubmitterPoint
  <1>9. SubmitterPoints(R)' /\ KickPoints(R)' /\ WorkPoints(R)'
    <2>1. Alike(Q, R, r)
      BY DEF Kept, Alike
    <2>2. \A u \in Threads \ {r} : plug'[u] = plug[u] /\ cur'[u] = cur[u] /\ at'[u] = at[u]
      BY DEF TypeOK
    <2> QED
      BY <1>4, <1>7, <1>8, <2>1, <2>2, AlikePoints
  <1>10. CorePoints(R)'
    BY DEF CoreHolds, CorePoints
  <1>11. FbiosMadeOf(R)'
    <2>1. \A f, c : MadeOf(f, c)' <=> MadeOf(f, c)
      BY MadeOfFrame
    <2>2. \A f \in fbios' : MadeOf(f, R[<<"core", f.head>>])'
      BY DEF CoreHolds
    <2>3. ASSUME NEW u \in Runners, kick'[u].fbio # NULL PROVE MadeOf(kick'[u].fbio, R[<<"built", u>>])
      <3>1. CASE u = r
        <4>1. kick'[u].fbio = F
          BY <1>4, <3>1
        <4> QED
          BY <2>1, <2>3, <3>1, <4>1 DEF Builds
      <3>2. CASE u # r
        <4>1. kick'[u] = kick[u] /\ R[<<"built", u>>] = Q[<<"built", u>>]
          BY <1>4, <3>2 DEF Kept
        <4> QED
          BY <2>3, <4>1 DEF Waiting, FbiosMadeOf
      <3> QED
        BY <3>1, <3>2
    <2> QED
      BY <2>1, <2>2, <2>3 DEF FbiosMadeOf
  <1> QED
    BY <1>5, <1>6, <1>9, <1>10, <1>11 DEF IInv, Waiting

(* Whichever way a round ends, the lists fit. *)
LEMMA RoundEnds ==
    ASSUME TypeOK, NoSleepWithoutPressure, NEW Q, Waiting(Q), NEW r \in Runners,
           NEW R, NEW S, NEW F, NEW T,
           WellStrung(bi_next, R)', Covered(R)', Kept(Q, R, r),
           CoreHolds(R, S), Builds(R, r, F, T),
           bi_next[kick[r].bio] = First(R[<<"rest", r>>]),
           GoOn(r, S, F, T), ended' \in [Bios -> Nat],
           r \in Threads => at[r] = "kick",
           at' = IF r \in Threads /\ kick'[r].bio = NULL THEN [at EXCEPT ![r] = "idle"] ELSE at,
           UNCHANGED <<shape, cur, stalls, plug, work, holdoff>>
    PROVE  IInv'
  <1> DEFINE next == bi_next[kick[r].bio]
  <1>1. R[<<"rest", r>>] \in Seq(Bios)
    BY PlaceNames DEF WellStrung
  <1>2. next \in Bios \cup {NULL}
    BY <1>1, Ends
  <1>3. \A f, c : MadeOf(f, c)' <=> MadeOf(f, c)
    BY MadeOfFrame
  <1>4. kick \in [Runners -> [bio : Bios \cup {NULL}, fbio : FbioSet \cup {NULL}, tail : Bios \cup {NULL}]]
    BY DEF TypeOK
  <1>5. CASE next # NULL
    <2>1. kick' = [kick EXCEPT ![r] = [bio |-> next, fbio |-> F, tail |-> T]] /\ fbios' = S
      BY <1>5 DEF GoOn
    <2> HIDE DEF next
    <2>2. kick'[r].bio = next
      BY <1>4, <2>1
    <2>3. CoreHolds(R, fbios)'
      BY <1>3, <2>1 DEF CoreHolds
    <2>4. at' = IF r \in Threads /\ next = NULL THEN [at EXCEPT ![r] = "idle"] ELSE at
      BY <2>2
    <2> QED
      BY <1>2, <1>5, <2>1, <2>3, <2>4, KickSet DEF next
  <1>6. CASE next = NULL
    <2>1. kick' = [kick EXCEPT ![r] = NoKick] /\ fbios' = Given(S, F)
      BY <1>6 DEF GoOn
    <2> HIDE DEF next
    <2>2. kick' = [kick EXCEPT ![r] = [bio |-> NULL, fbio |-> NULL, tail |-> NULL]]
      BY <2>1 DEF NoKick
    <2>3. kick'[r].bio = NULL
      BY <1>4, <2>2
    <2>4. PICK n : n = bi_next'
      OBVIOUS
    <2>5. WellStrung(n, R)
      BY <2>4
    <2>6. PICK P : /\ WellStrung(n, P) /\ CoreHolds(P, Given(S, F)) /\ P[<<"built", r>>] = << >>
                   /\ P[<<"rest", r>>] = R[<<"rest", r>>] /\ Kept(R, P, r)
                   /\ \A x : Somewhere(x, P) <=> Somewhere(x, R)
      BY <2>5, GiveBuilt
    <2>7. WellStrung(bi_next, P)'
      BY <2>4, <2>6
    <2>8. Covered(P)'
      BY <2>6 DEF Covered
    <2>9. Kept(Q, P, r)
      BY <2>6 DEF Kept
    <2>10. CoreHolds(P, fbios)'
      BY <1>3, <2>1, <2>6 DEF CoreHolds
    <2>11. Builds(P, r, NULL, NULL)
      BY <2>6 DEF Builds, Final
    <2>12. First(P[<<"rest", r>>]) = NULL
      BY <1>6, <2>6 DEF next
    <2>13. at' = IF r \in Threads /\ NULL = NULL THEN [at EXCEPT ![r] = "idle"] ELSE at
      BY <2>3
    <2> QED
      BY <2>2, <2>7, <2>8, <2>9, <2>10, <2>11, <2>12, <2>13, KickSet
  <1> QED
    BY <1>5, <1>6

(* An fbio that a bio joined covers one bio more. *)
LEMMA JoinedMadeOf ==
    ASSUME TypeOK, NEW F \in FbioSet, NEW b \in Bios, shape[b] \in Shapes, NEW u \in Seq(Bios), u # << >>,
           MadeOf(F, u), kfio_kbio_add_bio(F, b), \A i \in 1..Len(u) : shape[u[i]] \in Shapes
    PROVE  /\ Joined(F, b) \in FbioSet /\ Joined(F, b) # NULL /\ Joined(F, b).head = F.head
           /\ MadeOf(Joined(F, b), Append(u, b))
  <1> DEFINE J == Joined(F, b)
             v == Append(u, b)
  <1>1. /\ \A x \in Shapes : x.base \in Nat /\ x.len \in Nat
        /\ F.base \in Nat /\ F.length \in Nat /\ F.sg \in Nat /\ MaxSg \in Nat
    BY ShapesType, Limits DEF FbioSet
  <1>2. /\ J \in FbioSet /\ J.cmd = F.cmd /\ J.base = F.base /\ J.head = F.head
        /\ J.length = F.length + shape[b].len
    <2> DEFINE d == IF shape[b].len = 0 THEN 0 ELSE 1
    <2>1. /\ J.cmd = F.cmd /\ J.base = F.base /\ J.head = F.head
          /\ J.length = F.length + shape[b].len /\ J.sg = F.sg + d
      BY DEF Joined, FbioSet
    <2>2. d \in {0, 1} /\ F.sg + d <= MaxSg
      BY DEF kfio_kbio_add_bio
    <2> DEFINE l == F.length + shape[b].len
               g == F.sg + d
    <2>3. J = [F EXCEPT !.length = l, !.sg = g]
      BY DEF Joined
    <2> HIDE DEF J, d
    <2>4. g \in 0..MaxSg /\ l \in Nat
      BY <1>1, <2>2
    <2> HIDE DEF l, g
    <2>5. J \in FbioSet
      BY <2>3, <2>4 DEF FbioSet
    <2> QED
      BY <2>1, <2>5
  <1>3. J # NULL
    BY <1>2, NullIsNoBio
  <1>4. /\ Len(v) = Len(u) + 1 /\ Len(u) \in Nat /\ Len(u) >= 1
        /\ v[Len(u) + 1] = b /\ \A i \in 1..Len(u) : v[i] = u[i]
    OBVIOUS
  <1> HIDE DEF J, v
  <1>5. \A i \in 1..Len(v) : shape[v[i]].dir = J.cmd
    BY <1>2, <1>4 DEF MadeOf, kfio_kbio_add_bio
  <1>6. F.base + F.length = shape[b].base /\ F.base + F.length = shape[u[Len(u)]].base + shape[u[Len(u)]].len
    BY DEF MadeOf, kfio_kbio_add_bio
  <1>7. ASSUME NEW i \in 1..(Len(v) - 1)
        PROVE  shape[v[i]].base + shape[v[i]].len = shape[v[i + 1]].base
    <2>1. CASE i = Len(u)
      BY <1>4, <1>6, <2>1
    <2>2. CASE i # Len(u)
      <3>1. i \in 1..(Len(u) - 1) /\ v[i] = u[i] /\ v[i + 1] = u[i + 1]
        BY <1>4, <2>2
      <3> QED
        BY <3>1 DEF MadeOf
    <2> QED
      BY <2>1, <2>2
  <1>8. J.base = shape[v[1]].base
    BY <1>2, <1>4 DEF MadeOf
  <1>9. J.base + J.length = shape[v[Len(v)]].base + shape[v[Len(v)]].len
    BY <1>1, <1>2, <1>4, <1>6
  <1>10. J.length <= MaxLen /\ J.cmd # "DISCARD"
    BY <1>2 DEF kfio_kbio_add_bio
  <1>11. MadeOf(J, v)
    BY <1>5, <1>7, <1>8, <1>9, <1>10 DEF MadeOf
  <1> QED
    BY <1>2, <1>3, <1>11 DEF J, v

(* What r kicks off and builds. *)
LEMMA RoundStart ==
    ASSUME TypeOK, NEW Q, Waiting(Q), NEW r \in Runners, kick[r].bio # NULL
    PROVE  /\ kick[r].bio \in Bios /\ Q[<<"rest", r>>] # << >> /\ Q[<<"rest", r>>][1] = kick[r].bio
           /\ <<"rest", r>> \in Places /\ <<"built", r>> \in Places
           /\ Q[<<"built", r>>] \in Seq(Bios)
           /\ shape[kick[r].bio] \in Shapes /\ ended[kick[r].bio] = 0 /\ Somewhere(kick[r].bio, Q)
           /\ ~Listed(kick[r].bio, Q[<<"built", r>>])
           /\ CoreHolds(Q, fbios) /\ Builds(Q, r, kick[r].fbio, kick[r].tail)
  <1> DEFINE b == kick[r].bio
             s == Q[<<"rest", r>>]
  <1>1. <<"rest", r>> \in Places /\ <<"built", r>> \in Places /\ <<"rest", r>> # <<"built", r>>
    BY PlaceNames
  <1>2. s \in Seq(Bios) /\ Q[<<"built", r>>] \in Seq(Bios) /\ KickPoint(Q, r)
    BY <1>1 DEF Waiting, WellStrung, KickPoints
  <1>3. b = First(s)
    BY <1>2 DEF KickPoint
  <1>4. s # << >> /\ s[1] = b /\ b \in Bios /\ Listed(b, s)
    BY <1>2, <1>3, Ends
  <1>5. shape[b] # NULL /\ ended[b] = 0 /\ Somewhere(b, Q)
    BY <1>1, <1>4, WaitingIsOpen
  <1>6. shape[b] \in Shapes
    BY <1>4, <1>5 DEF TypeOK
  <1>7. ~Listed(b, Q[<<"built", r>>])
    BY <1>1, <1>4 DEF Waiting, WellStrung
  <1>8. CoreHolds(Q, fbios)
    BY DEF CoreHolds, TypeOK, Waiting, CorePoints, FbiosMadeOf
  <1>9. Builds(Q, r, kick[r].fbio, kick[r].tail)
    BY <1>2 DEF Builds, TypeOK, Waiting, KickPoint, FbiosMadeOf
  <1> QED
    BY <1>1, <1>2, <1>4, <1>5, <1>6, <1>7, <1>8, <1>9

(* The first bio of the kickoff is taken. *)
LEMMA TakeFirst ==
    ASSUME TypeOK, NEW Q, Waiting(Q), NEW r \in Runners, kick[r].bio # NULL
    PROVE  /\ Unlink(kick[r].bio) \in [Bios -> Bios \cup {NULL}]
           /\ \A x \in Bios : Unlink(kick[r].bio)[x] = IF x = kick[r].bio THEN NULL ELSE bi_next[x]
           /\ \E R : /\ WellStrung(Unlink(kick[r].bio), R)
                     /\ bi_next[kick[r].bio] = First(R[<<"rest", r>>])
                     /\ R[<<"built", r>>] = Q[<<"built", r>>]
                     /\ Kept(Q, R, r) /\ CoreHolds(R, fbios) /\ Builds(R, r, kick[r].fbio, kick[r].tail)
                     /\ \A x : Somewhere(x, R) <=> x # kick[r].bio /\ Somewhere(x, Q)
  <1> DEFINE b == kick[r].bio
             n == Unlink(b)
             p == <<"rest", r>>
  <1>1. /\ b \in Bios /\ Q[p] # << >> /\ Q[p][1] = b /\ p \in Places /\ <<"built", r>> \in Places
        /\ CoreHolds(Q, fbios) /\ Builds(Q, r, kick[r].fbio, kick[r].tail) /\ WellStrung(bi_next, Q)
    BY RoundStart DEF Waiting
  <1>2. /\ n \in [Bios -> Bios \cup {NULL}]
        /\ \A x \in Bios : n[x] = IF x = b THEN NULL ELSE bi_next[x]
    BY <1>1 DEF TypeOK, Unlink
  <1> HIDE DEF b, n, p
  <1>3. /\ bi_next[b] = First(Tail(Q[p]))
        /\ \E R : /\ WellStrung(n, R) /\ R[p] = Tail(Q[p])
                  /\ \A q \in Places : q # p => R[q] = Q[q]
                  /\ \A x : Somewhere(x, R) <=> x # b /\ Somewhere(x, Q)
    BY <1>1, <1>2, PopFirst
  <1>4. PICK R : /\ WellStrung(n, R) /\ R[p] = Tail(Q[p])
                 /\ \A q \in Places : q # p => R[q] = Q[q]
                 /\ \A x : Somewhere(x, R) <=> x # b /\ Somewhere(x, Q)
    BY <1>3
  <1>5. /\ \A u \in Threads : R[<<"plug", u>>] = Q[<<"plug", u>>] /\ R[<<"cur", u>>] = Q[<<"cur", u>>]
        /\ \A u \in Runners : /\ u # r => R[<<"rest", u>>] = Q[<<"rest", u>>]
                              /\ R[<<"built", u>>] = Q[<<"built", u>>]
        /\ \A x \in Bios : R[<<"work", x>>] = Q[<<"work", x>>] /\ R[<<"core", x>>] = Q[<<"core", x>>]
    BY <1>4, PlaceNames DEF p
  <1>6. Kept(Q, R, r) /\ R[<<"built", r>>] = Q[<<"built", r>>]
    BY <1>5 DEF Kept
  <1>7. Builds(R, r, kick[r].fbio, kick[r].tail)
    BY <1>1, <1>6 DEF Builds
  <1>8. CoreHolds(R, fbios)
    <2>1. \A f \in fbios : f.head \in Bios
      BY DEF TypeOK, FbioSet
    <2> QED
      BY <1>1, <1>5, <2>1 DEF CoreHolds
  <1>9. bi_next[b] = First(R[<<"rest", r>>])
    BY <1>3, <1>4 DEF p
  <1> QED
    BY <1>2, <1>4, <1>6, <1>7, <1>8, <1>9 DEF b, n

(* A round in which the bio joins the fbio being built. *)
LEMMA JoinRound ==
    ASSUME TypeOK, NoSleepWithoutPressure, NEW Q, Waiting(Q), NEW r \in Runners,
           kick[r].bio # NULL, kick[r].fbio # NULL, kfio_kbio_add_bio(kick[r].fbio, kick[r].bio),
           bi_next' = IF kick[r].tail = NULL THEN Unlink(kick[r].bio)
                      ELSE [Unlink(kick[r].bio) EXCEPT ![kick[r].tail] = kick[r].bio],
           GoOn(r, fbios, Joined(kick[r].fbio, kick[r].bio), kick[r].bio), ended' = ended,
           r \in Threads => at[r] = "kick",
           at' = IF r \in Threads /\ kick'[r].bio = NULL THEN [at EXCEPT ![r] = "idle"] ELSE at,
           UNCHANGED <<shape, cur, stalls, plug, work, holdoff>>
    PROVE  IInv'
  <1> DEFINE b == kick[r].bio
             F == kick[r].fbio
             e == kick[r].tail
             n == Unlink(b)
             p == <<"built", r>>
             u == Q[p]
             J == Joined(F, b)
  <1>1. /\ b \in Bios /\ p \in Places /\ u \in Seq(Bios) /\ shape[b] \in Shapes /\ Somewhere(b, Q)
        /\ ~Listed(b, u) /\ Builds(Q, r, F, e)
    BY RoundStart
  <1>2. F \in FbioSet /\ F.head = First(u) /\ F.head \in Bios /\ MadeOf(F, u) /\ e = Final(u)
    BY <1>1 DEF Builds, FbioSet
  <1>3. u # << >> /\ e \in Bios /\ Listed(e, u) /\ e # b /\ e # NULL
    BY <1>1, <1>2, Ends, NullIsNoBio
  <1>4. PICK R1 : /\ WellStrung(n, R1) /\ bi_next[b] = First(R1[<<"rest", r>>]) /\ R1[p] = u
                  /\ Kept(Q, R1, r) /\ CoreHolds(R1, fbios)
                  /\ \A x : Somewhere(x, R1) <=> x # b /\ Somewhere(x, Q)
    BY TakeFirst
  <1>5. /\ n \in [Bios -> Bios \cup {NULL}] /\ \A x \in Bios : n[x] = IF x = b THEN NULL ELSE bi_next[x]
    BY TakeFirst
  <1>6. GoOn(r, fbios, J, b) /\ bi_next' = [n EXCEPT ![e] = b]
    BY <1>3
  <1>7. ASSUME NEW i \in 1..Len(u) PROVE shape[u[i]] \in Shapes
    <2>1. u[i] \in Bios /\ Listed(u[i], u)
      BY <1>1 DEF Listed
    <2> QED
      BY <1>1, <2>1, WaitingIsOpen DEF TypeOK
  <1>8. J \in FbioSet /\ J # NULL /\ J.head = F.head /\ MadeOf(J, Append(u, b))
    <2> HIDE DEF b, F, u
    <2>1. kfio_kbio_add_bio(F, b)
      BY DEF F, b
    <2> QED
      BY <1>1, <1>2, <1>3, <1>7, <2>1, JoinedMadeOf
  <1> HIDE DEF b, F, e, n, p, u, J
  <1>9. PICK m : /\ m = bi_next' /\ m \in [Bios -> Bios \cup {NULL}]
                 /\ \A x \in Bios : m[x] = IF x = e THEN b ELSE n[x]
    BY <1>1, <1>3, <1>5, <1>6
  <1>10. PICK R : /\ WellStrung(m, R) /\ R[p] = Append(u, b)
                  /\ \A q \in Places : q # p => R[q] = R1[q]
                  /\ \A x : Somewhere(x, R) <=> x = b \/ Somewhere(x, R1)
    <2>1. WellStrung(n, R1) /\ ~Somewhere(b, R1) /\ n[b] = NULL /\ e = Final(R1[p])
      BY <1>1, <1>2, <1>4, <1>5
    <2>2. \E R : /\ WellStrung(m, R) /\ R[p] = Append(R1[p], b)
                 /\ \A q \in Places : q # p => R[q] = R1[q]
                 /\ \A x : Somewhere(x, R) <=> x = b \/ Somewhere(x, R1)
      BY <1>1, <1>9, <2>1, AppendTo, SMTT(30)
    <2> QED
      BY <1>4, <2>2
  <1>11. /\ \A v \in Threads : R[<<"plug", v>>] = R1[<<"plug", v>>] /\ R[<<"cur", v>>] = R1[<<"cur", v>>]
         /\ \A v \in Runners : /\ v # r => R[<<"built", v>>] = R1[<<"built", v>>]
                               /\ R[<<"rest", v>>] = R1[<<"rest", v>>]
         /\ \A x \in Bios : R[<<"work", x>>] = R1[<<"work", x>>] /\ R[<<"core", x>>] = R1[<<"core", x>>]
    BY <1>10, PlaceNames DEF p
  <1>12. Kept(Q, R, r)
    BY <1>4, <1>11 DEF Kept
  <1>13. CoreHolds(R, fbios)
    <2>1. \A f \in fbios : f.head \in Bios
      BY DEF TypeOK, FbioSet
    <2> QED
      BY <1>4, <1>11, <2>1 DEF CoreHolds
  <1>14. Builds(R, r, J, b)
    <2>1. First(Append(u, b)) = First(u) /\ Final(Append(u, b)) = b
      BY <1>1, <1>3, AppendEnds
    <2> QED
      BY <1>2, <1>8, <1>10, <2>1 DEF Builds, p
  <1>15. WellStrung(bi_next, R)'
    BY <1>9, <1>10
  <1>16. Covered(R)'
    <2>1. \A x : Somewhere(x, R) <=> Somewhere(x, Q)
      BY <1>1, <1>4, <1>10
    <2>2. shape[e] # NULL
      BY <1>1, <1>3, WaitingIsOpen DEF u
    <2>3. ASSUME NEW x \in Bios, shape[x] = NULL PROVE bi_next'[x] = NULL
      BY <1>5, <1>9, <2>2, <2>3 DEF Waiting, Covered
    <2> QED
      BY <2>1, <2>3 DEF Waiting, Covered
  <1>17. bi_next[kick[r].bio] = First(R[<<"rest", r>>])
    BY <1>4, <1>11 DEF b
  <1>18. ended' \in [Bios -> Nat]
    BY DEF TypeOK
  <1> QED
    BY <1>6, <1>12, <1>13, <1>14, <1>15, <1>16, <1>17, <1>18, RoundEnds

(* A round in which the fbio being built goes to the core, and the bio is  *)
(* the first of a new one or ends with an error.                           *)
LEMMA SplitRound ==
    ASSUME TypeOK, NoSleepWithoutPressure, NEW Q, Waiting(Q), NEW r \in Runners,
           kick[r].bio # NULL, bi_next' = Unlink(kick[r].bio), NEW f,
           \/ f = NULL /\ ended' = [ended EXCEPT ![kick[r].bio] = @ + 1]
           \/ f = NewFbio(kick[r].bio) /\ ended' = ended,
           GoOn(r, Given(fbios, kick[r].fbio), f, IF f = NULL THEN NULL ELSE kick[r].bio),
           r \in Threads => at[r] = "kick",
           at' = IF r \in Threads /\ kick'[r].bio = NULL THEN [at EXCEPT ![r] = "idle"] ELSE at,
           UNCHANGED <<shape, cur, stalls, plug, work, holdoff>>
    PROVE  IInv'
  <1> DEFINE b == kick[r].bio
             n == Unlink(b)
             p == <<"built", r>>
             G == Given(fbios, kick[r].fbio)
  <1>1. /\ b \in Bios /\ p \in Places /\ shape[b] \in Shapes /\ Somewhere(b, Q) /\ ended[b] = 0
    BY RoundStart
  <1>2. NewFbio(b) # NULL /\ NewFbio(b) \in FbioSet /\ NewFbio(b).head = b /\ MadeOf(NewFbio(b), <<b>>)
    <2>1. Len(<<b>>) = 1 /\ <<b>>[1] = b
      OBVIOUS
    <2> HIDE DEF b
    <2> QED
      BY <1>1, <2>1, NewFbioMadeOf
  <1>3. /\ n \in [Bios -> Bios \cup {NULL}] /\ \A x \in Bios : n[x] = IF x = b THEN NULL ELSE bi_next[x]
    BY TakeFirst
  <1>4. PICK R1 : /\ WellStrung(n, R1) /\ bi_next[b] = First(R1[<<"rest", r>>])
                  /\ Kept(Q, R1, r) /\ CoreHolds(R1, fbios) /\ Builds(R1, r, kick[r].fbio, kick[r].tail)
                  /\ \A x : Somewhere(x, R1) <=> x # b /\ Somewhere(x, Q)
    BY TakeFirst
  <1>5. bi_next' = n /\ GoOn(r, G, f, IF f = NULL THEN NULL ELSE b)
    OBVIOUS
  <1> HIDE DEF n
  <1>6. PICK R2 : /\ WellStrung(n, R2) /\ CoreHolds(R2, G) /\ R2[p] = << >>
                  /\ R2[<<"rest", r>>] = R1[<<"rest", r>>] /\ Kept(R1, R2, r)
                  /\ \A x : Somewhere(x, R2) <=> Somewhere(x, R1)
    BY <1>4, GiveBuilt
  <1>7. Kept(Q, R2, r) /\ bi_next[b] = First(R2[<<"rest", r>>])
    BY <1>4, <1>6 DEF Kept
  <1>8. \A x \in Bios : shape[x] = NULL => bi_next'[x] = NULL
    BY <1>3, <1>5 DEF Waiting, Covered
  <1>9. ended \in [Bios -> Nat]
    BY DEF TypeOK
  <1>10. CASE f = NULL
    <2>1. ended' = [ended EXCEPT ![b] = @ + 1]
      BY <1>2, <1>10
    <2> HIDE DEF b, p, G
    <2>2. ended' \in [Bios -> Nat] /\ ended'[b] = 1 /\ \A x \in Bios : x # b => ended'[x] = ended[x]
      BY <1>1, <1>9, <2>1
    <2>3. Covered(R2)'
      <3>1. shape[b] # NULL
        BY <1>1, NullIsNoBio
      <3>2. \A x : Somewhere(x, R2) <=> x # b /\ Somewhere(x, Q)
        BY <1>4, <1>6
      <3>3. ASSUME NEW x \in Bios
            PROVE  /\ Somewhere(x, R2) <=> shape[x] # NULL /\ ended'[x] = 0
                   /\ ended'[x] \in {0, 1}
                   /\ shape[x] = NULL => ended'[x] = 0
        BY <2>2, <3>1, <3>2 DEF Waiting, Covered
      <3> QED
        BY <1>8, <3>3 DEF Covered
    <2>4. Builds(R2, r, NULL, NULL)
      BY <1>6 DEF Builds, Final, p
    <2>5. WellStrung(bi_next, R2)'
      BY <1>5, <1>6
    <2>6. GoOn(r, G, NULL, NULL)
      BY <1>5, <1>10
    <2> QED
      BY <1>6, <1>7, <2>2, <2>3, <2>4, <2>5, <2>6, RoundEnds DEF b
  <1>11. CASE f # NULL
    <2>1. f = NewFbio(b) /\ ended' = ended
      BY <1>11
    <2> HIDE DEF b, p, G
    <2>2. \A x \in Bios : n[x] = IF x = Final(R2[p]) THEN b ELSE n[x]
      BY <1>6, NullIsNoBio DEF Final
    <2>3. PICK R : /\ WellStrung(n, R) /\ R[p] = Append(R2[p], b)
                   /\ \A q \in Places : q # p => R[q] = R2[q]
                   /\ \A x : Somewhere(x, R) <=> x = b \/ Somewhere(x, R2)
      <3>1. WellStrung(n, R2) /\ ~Somewhere(b, R2) /\ n[b] = NULL
        BY <1>1, <1>3, <1>4, <1>6
      <3> QED
        BY <1>1, <1>3, <2>2, <3>1, AppendTo
    <2>4. R[p] = <<b>>
      BY <1>6, <2>3
    <2>5. /\ \A v \in Threads : R[<<"plug", v>>] = R2[<<"plug", v>>] /\ R[<<"cur", v>>] = R2[<<"cur", v>>]
          /\ \A v \in Runners : /\ v # r => R[<<"built", v>>] = R2[<<"built", v>>]
                                /\ R[<<"rest", v>>] = R2[<<"rest", v>>]
          /\ \A x \in Bios : R[<<"work", x>>] = R2[<<"work", x>>] /\ R[<<"core", x>>] = R2[<<"core", x>>]
      BY <2>3, PlaceNames DEF p
    <2>6. Kept(Q, R, r)
      BY <1>7, <2>5 DEF Kept
    <2>7. CoreHolds(R, G)
      <3>1. \A g \in G : g.head \in Bios
        BY <1>6 DEF CoreHolds, FbioSet
      <3> QED
        BY <1>6, <2>5, <3>1 DEF CoreHolds
    <2>8. Builds(R, r, f, b)
      <3>1. First(<<b>>) = b /\ Final(<<b>>) = b
        BY DEF First, Final
      <3> QED
        BY <1>2, <2>1, <2>4, <3>1 DEF Builds, p
    <2>9. WellStrung(bi_next, R)'
      BY <1>5, <2>3
    <2>10. Covered(R)'
      <3>1. \A x : Somewhere(x, R) <=> Somewhere(x, Q)
        BY <1>1, <1>4, <1>6, <2>3
      <3> QED
        BY <1>8, <2>1, <3>1 DEF Waiting, Covered
    <2>11. GoOn(r, G, f, b) /\ bi_next[b] = First(R[<<"rest", r>>]) /\ ended' \in [Bios -> Nat]
      BY <1>5, <1>7, <1>9, <1>11, <2>1, <2>5
    <2> QED
      BY <2>6, <2>7, <2>8, <2>9, <2>10, <2>11, RoundEnds DEF b
  <1> QED
    BY <1>10, <1>11

(* A round of kfio_kickoff_plugged_io is one or the other. *)
LEMMA KickInv ==
    ASSUME TypeOK, NoSleepWithoutPressure, NEW Q, Waiting(Q), NEW r \in Runners,
           kfio_kickoff_plugged_io(r), r \in Threads => at[r] = "kick",
           at' = IF r \in Threads /\ kick'[r].bio = NULL THEN [at EXCEPT ![r] = "idle"] ELSE at
    PROVE  IInv'
  <1> DEFINE join == kick[r].fbio # NULL /\ kfio_kbio_add_bio(kick[r].fbio, kick[r].bio)
  <1>1. kick[r].bio # NULL /\ UNCHANGED <<shape, cur, stalls, plug, work, holdoff>>
    BY DEF kfio_kickoff_plugged_io, queues
  <1>2. CASE join
    <2>1. /\ bi_next' = IF kick[r].tail = NULL THEN Unlink(kick[r].bio)
                        ELSE [Unlink(kick[r].bio) EXCEPT ![kick[r].tail] = kick[r].bio]
          /\ GoOn(r, fbios, Joined(kick[r].fbio, kick[r].bio), kick[r].bio) /\ ended' = ended
      BY <1>2, Zenon DEF kfio_kickoff_plugged_io, GoOn, Given
    <2> QED
      BY <1>1, <1>2, <2>1, JoinRound
  <1>3. CASE ~join
    <2>1. /\ bi_next' = Unlink(kick[r].bio)
          /\ \E f \in kfio_map_to_fbio(kick[r].bio) :
               /\ GoOn(r, Given(fbios, kick[r].fbio), f, IF f = NULL THEN NULL ELSE kick[r].bio)
               /\ ended' = IF f = NULL THEN [ended EXCEPT ![kick[r].bio] = @ + 1] ELSE ended
      BY <1>3, Zenon DEF kfio_kickoff_plugged_io, GoOn, Given
    <2>2. PICK f \in kfio_map_to_fbio(kick[r].bio) :
               /\ GoOn(r, Given(fbios, kick[r].fbio), f, IF f = NULL THEN NULL ELSE kick[r].bio)
               /\ ended' = IF f = NULL THEN [ended EXCEPT ![kick[r].bio] = @ + 1] ELSE ended
      BY <2>1
    <2>3. NewFbio(kick[r].bio) # NULL
      BY <1>1, RoundStart, NewFbioMadeOf
    <2>4. \/ f = NULL /\ ended' = [ended EXCEPT ![kick[r].bio] = @ + 1]
          \/ f = NewFbio(kick[r].bio) /\ ended' = ended
      BY <2>2, <2>3 DEF kfio_map_to_fbio
    <2> QED
      BY <1>1, <2>1, <2>2, <2>4, SplitRound
  <1> QED
    BY <1>2, <1>3

-----------------------------------------------------------------------------
(* Every step *)

(* What a submitter does keeps the invariant. *)
LEMMA SubmitterInv ==
    ASSUME TypeOK, NoSleepWithoutPressure, NEW Q, Waiting(Q), NEW t \in Threads
    PROVE  /\ holdoff_writes_under_pressure(t) => IInv'
           /\ HoldoffTimeout(t) => IInv'
           /\ HoldoffStalled(t) => IInv'
           /\ SubmitNow(t) => IInv'
           /\ KickSubmitter(t) => IInv'
           /\ blk_start_plug(t) => IInv'
           /\ UnplugFromSchedule(t) => IInv'
           /\ UnplugFinish(t) => IInv'
  <1>1. ASSUME holdoff_writes_under_pressure(t) PROVE IInv'
    <2>1. at[t] = "hold" /\ UNCHANGED <<shape, bi_next, ended, cur, stalls, kick, fbios, holdoff>>
      BY <1>1 DEF holdoff_writes_under_pressure
    <2>2. CASE ~holdoff
      <3>1. at' = [at EXCEPT ![t] = "place"] /\ UNCHANGED <<plug, work>>
        BY <1>1, <2>2 DEF holdoff_writes_under_pressure, queues
      <3> QED
        BY <2>1, <2>2, <3>1, StillSteps
    <2>3. CASE holdoff
      <3>1. at' = [at EXCEPT ![t] = "asleep"] /\ QueueUnplug(t)
        BY <1>1, <2>3 DEF holdoff_writes_under_pressure
      <3>2. CASE plug[t].head = NULL
        <4>1. plug' = [plug EXCEPT ![t] = EmptyPlug(plug[t].on)] /\ UNCHANGED work
          BY <3>1, <3>2 DEF QueueUnplug
        <4> QED
          BY <2>1, <2>3, <3>1, <3>2, <4>1, StillSteps
      <3>3. CASE plug[t].head # NULL
        BY <2>1, <2>3, <3>1, <3>3, QueueUnplugInv
      <3> QED
        BY <3>2, <3>3
    <2> QED
      BY <2>2, <2>3
  <1>2. ASSUME HoldoffTimeout(t) PROVE IInv'
    <2>1. UNCHANGED <<shape, bi_next, ended, cur, work, kick, fbios>>
      BY <1>2 DEF HoldoffTimeout, queues
    <2> QED
      BY <1>2, <2>1, StillSteps
  <1>3. ASSUME HoldoffStalled(t) PROVE IInv'
    <2>1. at[t] = "stalled" /\ UNCHANGED <<shape, bi_next, plug, work, kick, fbios, holdoff>>
      BY <1>3 DEF HoldoffStalled, queues
    <2>2. CASE /\ stalls[t] + 1 < MaxStalls /\ stalls' = [stalls EXCEPT ![t] = @ + 1]
               /\ at' = [at EXCEPT ![t] = "hold"] /\ UNCHANGED <<ended, cur>>
      BY <2>1, <2>2, StillSteps
    <2>3. CASE at' = [at EXCEPT ![t] = "place"] /\ UNCHANGED <<stalls, ended, cur>>
      BY <2>1, <2>3, StillSteps
    <2>4. CASE /\ ended' = [ended EXCEPT ![cur[t]] = @ + 1] /\ cur' = [cur EXCEPT ![t] = NULL]
               /\ at' = [at EXCEPT ![t] = "idle"] /\ UNCHANGED stalls
      BY <2>1, <2>4, EndInHandInv DEF Held
    <2> QED
      BY <1>3, <2>2, <2>3, <2>4 DEF HoldoffStalled
  <1>4. ASSUME SubmitNow(t) PROVE IInv'
    <2>1. /\ at[t] = "place" /\ at' = [at EXCEPT ![t] = "idle"] /\ cur' = [cur EXCEPT ![t] = NULL]
          /\ UNCHANGED <<shape, bi_next, stalls, plug, work, kick, holdoff>>
      BY <1>4 DEF SubmitNow, queues
    <2>2. PICK f \in kfio_map_to_fbio(cur[t]) :
            /\ fbios' = IF f = NULL THEN fbios ELSE fbios \cup {f}
            /\ ended' = IF f = NULL THEN [ended EXCEPT ![cur[t]] = @ + 1] ELSE ended
      BY <1>4 DEF SubmitNow
    <2>3. CASE f = NULL
      BY <2>1, <2>2, <2>3, EndInHandInv DEF Held
    <2>4. CASE f # NULL
      <3>1. f = NewFbio(cur[t])
        BY <2>2, <2>4 DEF kfio_map_to_fbio
      <3>2. fbios' = fbios \cup {NewFbio(cur[t])} /\ ended' = ended
        BY <2>2, <2>4, <3>1
      <3> QED
        BY <2>1, <3>2, SubmitNowInv
    <2> QED
      BY <2>3, <2>4
  <1>5. ASSUME KickSubmitter(t) PROVE IInv'
    <2>1. /\ t \in Runners /\ kfio_kickoff_plugged_io(t) /\ at[t] = "kick"
          /\ at' = IF t \in Threads /\ kick'[t].bio = NULL THEN [at EXCEPT ![t] = "idle"] ELSE at
      BY <1>5, PlaceNames DEF KickSubmitter
    <2> QED
      BY <2>1, KickInv
  <1>6. ASSUME blk_start_plug(t) PROVE IInv'
    <2>1. plug[t].head = NULL
      BY <1>6 DEF blk_start_plug, Waiting, SubmitterPoints, SubmitterPoint
    <2> QED
      BY <1>6, <2>1, StillSteps DEF blk_start_plug
  <1>7. ASSUME UnplugFromSchedule(t) PROVE IInv'
    BY <1>7, QueueUnplugInv DEF UnplugFromSchedule
  <1>8. ASSUME UnplugFinish(t) PROVE IInv'
    <2>1. CASE plug[t].head # NULL
      BY <1>8, <2>1, UnplugFinishInv
    <2>2. CASE plug[t].head = NULL
      BY <1>8, <2>2, StillSteps DEF UnplugFinish
    <2> QED
      BY <2>1, <2>2
  <1> QED
    BY <1>1, <1>2, <1>3, <1>4, <1>5, <1>6, <1>7, <1>8

(* The invariant depends on the variables alone. *)
LEMMA StutterInv == ASSUME IInv, UNCHANGED vars PROVE IInv'
  <1>1. PICK Q : Waiting(Q)
    BY DEF IInv
  <1>2. UNCHANGED <<shape, bi_next, ended, at, cur, stalls, plug, work, kick, fbios, holdoff>>
    BY DEF vars
  <1>3. TypeOK'
    BY <1>2 DEF IInv, TypeOK
  <1>4. NoSleepWithoutPressure'
    BY <1>2 DEF IInv, NoSleepWithoutPressure
  <1>5. (WellStrung(bi_next, Q) /\ Covered(Q) /\ KickPoints(Q) /\ WorkPoints(Q) /\ CorePoints(Q) /\ FbiosMadeOf(Q))'
    BY <1>1, <1>2 DEF Waiting, Covered, KickPoints, KickPoint, WorkPoints, CorePoints, FbiosMadeOf, MadeOf
  <1>6. SubmitterPoints(Q)'
    BY <1>1, <1>2 DEF Waiting, SubmitterPoints, SubmitterPoint
  <1> QED
    BY <1>3, <1>4, <1>5, <1>6 DEF IInv, Waiting

(* Every step keeps the invariant. *)
LEMMA NextInv == IInv /\ [Next]_vars => IInv'
  <1> SUFFICES ASSUME IInv, [Next]_vars PROVE IInv'
    OBVIOUS
  <1>1. PICK Q : Waiting(Q)
    BY DEF IInv
  <1>2. TypeOK /\ NoSleepWithoutPressure
    BY DEF IInv
  <1>3. ASSUME NEW t \in Threads, NEW b \in Bios, NEW s \in Shapes, kfio_submit_bio(t, b, s) PROVE IInv'
    BY <1>1, <1>2, <1>3, SubmitInv
  <1>4. ASSUME NEW t \in Threads, Progress(t) PROVE IInv'
    BY <1>1, <1>2, <1>4, SubmitterInv, AddToPlugInv DEF Progress
  <1>5. ASSUME NEW t \in Threads,
               HoldoffTimeout(t) \/ blk_start_plug(t) \/ UnplugFromSchedule(t) \/ UnplugFinish(t)
        PROVE  IInv'
    BY <1>1, <1>2, <1>5, SubmitterInv
  <1>6. ASSUME NEW on \in BOOLEAN, linux_bdev_backpressure(on) PROVE IInv'
    BY <1>1, <1>2, <1>6, BackpressureInv
  <1>7. ASSUME kfio_unplug_do_cb PROVE IInv'
    BY <1>1, <1>2, <1>7, UnplugWorkInv
  <1>8. ASSUME KickKblockd PROVE IInv'
    <2>1. /\ Kblockd \in Runners /\ Kblockd \notin Threads /\ kfio_kickoff_plugged_io(Kblockd)
          /\ at' = at
      BY <1>8, PlaceNames, KblockdIsNoSubmitter DEF KickKblockd
    <2> QED
      BY <1>1, <1>2, <2>1, KickInv
  <1>9. ASSUME NEW f \in fbios, kfio_bio_completor(f) PROVE IInv'
    BY <1>1, <1>2, <1>9, CompletorInv
  <1>10. CASE UNCHANGED vars
    BY <1>10, StutterInv
  <1> QED
    BY <1>3, <1>4, <1>5, <1>6, <1>7, <1>8, <1>9, <1>10 DEF Next

-----------------------------------------------------------------------------
(* What the invariant says of the lists that the driver can walk *)

(* The fbios in the core are made of the bios found from their heads. *)
LEMMA FbiosMatch == IInv => FbioMatchesChain
  <1> SUFFICES ASSUME IInv PROVE FbioMatchesChain
    OBVIOUS
  <1>1. PICK Q : Waiting(Q)
    BY DEF IInv
  <1> SUFFICES ASSUME NEW f \in fbios
               PROVE  LET c == Chain(f.head)
                      IN  /\ \A i \in 1..Len(c) : shape[c[i]].dir = f.cmd
                          /\ \A i \in 1..(Len(c) - 1) :
                               shape[c[i]].base + shape[c[i]].len = shape[c[i + 1]].base
                          /\ f.base = shape[c[1]].base
                          /\ f.base + f.length = shape[Last(c)].base + shape[Last(c)].len
                          /\ Len(c) > 1 => f.length <= MaxLen /\ f.cmd # "DISCARD"
    BY DEF FbioMatchesChain
  <1>2. Chain(f.head) = Q[<<"core", f.head>>]
    BY <1>1, CoreChain DEF IInv
  <1>3. MadeOf(f, Chain(f.head))
    BY <1>1, <1>2 DEF Waiting, FbiosMadeOf
  <1> QED
    BY <1>3 DEF MadeOf, Last

(* The place of a list. *)
PlaceOf(l) ==
    CASE l.kind = "plug"  -> <<"plug", l.who>>
      [] l.kind = "cur"   -> <<"cur", l.who>>
      [] l.kind = "rest"  -> <<"rest", l.who>>
      [] l.kind = "built" -> <<"built", l.who>>
      [] l.kind = "work"  -> <<"work", work[l.who]>>
      [] l.kind = "fbio"  -> <<"core", l.who.head>>

(* What a walk finds from the head of any place. *)
LEMMA WalkPlace ==
    ASSUME NEW Q, Waiting(Q), NEW p \in Places
    PROVE  Chain(First(Q[p])) = Q[p]
  <1> DEFINE s == Q[p]
  <1>1. s \in Seq(Bios) /\ NoneTwice(s) /\ Strung(bi_next, s)
    BY DEF Waiting, WellStrung
  <1> HIDE DEF s
  <1>2. CASE s = << >>
    <2>1. First(s) = NULL
      BY <1>2 DEF First
    <2>2. Chain(NULL) = << >>
      BY DEF Chain
    <2> QED
      BY <1>2, <2>1, <2>2 DEF s
  <1>3. CASE s # << >>
    <2>1. First(s) = s[1] /\ Chain(s[1]) = s
      BY <1>1, <1>3, ChainIs DEF First
    <2> QED
      BY <2>1 DEF s
  <1> QED
    BY <1>2, <1>3

(* Every list of the driver is what waits in its place. *)
LEMMA ContentsArePlaces ==
    ASSUME TypeOK, NEW Q, Waiting(Q), NEW l \in Lists
    PROVE  PlaceOf(l) \in Places /\ Contents(l) = Q[PlaceOf(l)]
  <1>1. CASE l.kind = "plug" /\ l.who \in Threads
    <2>1. PlaceOf(l) = <<"plug", l.who>> /\ Contents(l) = Chain(plug[l.who].head)
      BY <1>1 DEF PlaceOf, Contents
    <2>2. plug[l.who].head = First(Q[<<"plug", l.who>>]) /\ <<"plug", l.who>> \in Places
      BY <1>1, PlaceNames DEF Waiting, SubmitterPoints, SubmitterPoint
    <2> QED
      BY <2>1, <2>2, WalkPlace
  <1>2. CASE l.kind = "cur" /\ l.who \in Threads
    <2>1. PlaceOf(l) = <<"cur", l.who>> /\ Contents(l) = Chain(cur[l.who])
      BY <1>2 DEF PlaceOf, Contents
    <2>2. cur[l.who] = First(Q[<<"cur", l.who>>]) /\ <<"cur", l.who>> \in Places
      BY <1>2, PlaceNames DEF Waiting, SubmitterPoints, SubmitterPoint
    <2> QED
      BY <2>1, <2>2, WalkPlace
  <1>3. CASE l.kind = "rest" /\ l.who \in Runners
    <2>1. PlaceOf(l) = <<"rest", l.who>> /\ Contents(l) = Chain(kick[l.who].bio)
      BY <1>3 DEF PlaceOf, Contents
    <2>2. kick[l.who].bio = First(Q[<<"rest", l.who>>]) /\ <<"rest", l.who>> \in Places
      BY <1>3, PlaceNames DEF Waiting, KickPoints, KickPoint
    <2> QED
      BY <2>1, <2>2, WalkPlace
  <1>4. CASE l.kind = "built" /\ l.who \in Runners
    <2>1. PlaceOf(l) = <<"built", l.who>> /\ Contents(l) = Chain(FbioHead(l.who))
      BY <1>4 DEF PlaceOf, Contents
    <2>2. FbioHead(l.who) = First(Q[<<"built", l.who>>]) /\ <<"built", l.who>> \in Places
      BY <1>4, PlaceNames DEF Waiting, KickPoints, KickPoint, FbioHead, First
    <2> QED
      BY <2>1, <2>2, WalkPlace
  <1>5. CASE l.kind = "work" /\ l.who \in 1..Len(work)
    <2>1. PlaceOf(l) = <<"work", work[l.who]>> /\ Contents(l) = Chain(work[l.who])
      BY <1>5 DEF PlaceOf, Contents
    <2>2. work[l.who] \in Bios /\ Listed(work[l.who], work)
      BY <1>5 DEF TypeOK, Listed
    <2>3. work[l.who] = First(Q[<<"work", work[l.who]>>]) /\ <<"work", work[l.who]>> \in Places
      BY <2>2, PlaceNames DEF Waiting, WorkPoints
    <2> QED
      BY <2>1, <2>3, WalkPlace
  <1>6. CASE l.kind = "fbio" /\ l.who \in fbios
    <2>1. PlaceOf(l) = <<"core", l.who.head>> /\ Contents(l) = Chain(l.who.head)
      BY <1>6 DEF PlaceOf, Contents
    <2> QED
      BY <1>6, <2>1, CoreChain
  <1> QED
    BY <1>1, <1>2, <1>3, <1>4, <1>5, <1>6 DEF Lists

(* Different lists are in different places. *)
LEMMA PlacesDiffer ==
    ASSUME TypeOK, NEW Q, Waiting(Q), NEW l \in Lists, NEW m \in Lists, PlaceOf(l) = PlaceOf(m)
    PROVE  l = m
  <1>1. l.kind = m.kind
    BY DEF PlaceOf, Lists
  <1>2. l = [kind |-> l.kind, who |-> l.who] /\ m = [kind |-> m.kind, who |-> m.who]
    BY DEF Lists
  <1>3. CASE l.kind \notin {"work", "fbio"}
    <2>1. l.who = m.who
      BY <1>1, <1>3 DEF PlaceOf, Lists
    <2> QED
      BY <1>1, <1>2, <2>1
  <1>4. CASE l.kind = "work"
    <2>1. l.who \in 1..Len(work) /\ m.who \in 1..Len(work) /\ work[l.who] = work[m.who]
      BY <1>1, <1>4 DEF PlaceOf, Lists
    <2>2. l.who = m.who
      BY <2>1 DEF Waiting, WorkPoints, NoneTwice
    <2> QED
      BY <1>1, <1>2, <2>2
  <1>5. CASE l.kind = "fbio"
    <2>1. l.who \in fbios /\ m.who \in fbios /\ l.who.head = m.who.head
      BY <1>1, <1>5 DEF PlaceOf, Lists
    <2>2. l.who = m.who
      BY <2>1 DEF Waiting, CorePoints
    <2> QED
      BY <1>1, <1>2, <2>2
  <1> QED
    BY <1>3, <1>4, <1>5

(* Every place where a bio waits is that of a list. *)
LEMMA PlaceHasList ==
    ASSUME TypeOK, NEW Q, Waiting(Q), NEW p \in Places, Q[p] # << >>
    PROVE  \E l \in Lists : PlaceOf(l) = p
  <1>1. ASSUME NEW t \in Threads, NEW k \in {"plug", "cur"}, p = <<k, t>>
        PROVE  \E l \in Lists : PlaceOf(l) = p
    <2> DEFINE l == [kind |-> k, who |-> t]
    <2>1. l \in Lists /\ PlaceOf(l) = p
      BY <1>1 DEF Lists, PlaceOf
    <2> QED
      BY <2>1
  <1>2. ASSUME NEW r \in Runners, NEW k \in {"rest", "built"}, p = <<k, r>>
        PROVE  \E l \in Lists : PlaceOf(l) = p
    <2> DEFINE l == [kind |-> k, who |-> r]
    <2>1. l \in Lists /\ PlaceOf(l) = p
      BY <1>2 DEF Lists, PlaceOf
    <2> QED
      BY <2>1
  <1>3. ASSUME NEW b \in Bios, p = <<"work", b>>
        PROVE  \E l \in Lists : PlaceOf(l) = p
    <2>1. PICK i \in 1..Len(work) : work[i] = b
      BY <1>3 DEF Waiting, WorkPoints, Listed
    <2> DEFINE l == [kind |-> "work", who |-> i]
    <2>2. l \in Lists /\ PlaceOf(l) = p
      BY <1>3, <2>1 DEF Lists, PlaceOf
    <2> QED
      BY <2>2
  <1>4. ASSUME NEW b \in Bios, p = <<"core", b>>
        PROVE  \E l \in Lists : PlaceOf(l) = p
    <2>1. PICK f \in fbios : f.head = b
      BY <1>4 DEF Waiting, CorePoints
    <2> DEFINE l == [kind |-> "fbio", who |-> f]
    <2>2. l \in Lists /\ PlaceOf(l) = p
      BY <1>4, <2>1 DEF Lists, PlaceOf
    <2> QED
      BY <2>2
  <1> QED
    BY <1>1, <1>2, <1>3, <1>4 DEF Places

(* The lists of the driver hold every bio that waits once, and no other. *)
LEMMA OnePlace == IInv => EachBioInOnePlace
  <1> SUFFICES ASSUME IInv, NEW b \in Bios
               PROVE  LET places == {p \in Lists \X (1..Cardinality(Bios) + 1) :
                                       p[2] <= Len(Contents(p[1])) /\ Contents(p[1])[p[2]] = b}
                      IN  Cardinality(places) + ended[b] = IF shape[b] = NULL THEN 0 ELSE 1
    BY DEF EachBioInOnePlace
  <1> DEFINE N == 1..Cardinality(Bios) + 1
             places == {p \in Lists \X N : p[2] <= Len(Contents(p[1])) /\ Contents(p[1])[p[2]] = b}
  <1>1. PICK Q : Waiting(Q)
    BY DEF IInv
  <1>2. TypeOK
    BY DEF IInv
  <1>3. \A l \in Lists : PlaceOf(l) \in Places /\ Contents(l) = Q[PlaceOf(l)]
    BY <1>1, <1>2, ContentsArePlaces
  <1>4. \A p \in Places : Q[p] \in Seq(Bios) /\ NoneTwice(Q[p])
    BY <1>1 DEF Waiting, WellStrung
  <1>5. /\ Somewhere(b, Q) <=> shape[b] # NULL /\ ended[b] = 0
        /\ ended[b] \in {0, 1} /\ (shape[b] = NULL => ended[b] = 0)
    BY <1>1 DEF Waiting, Covered
  <1>6. N \subseteq Nat \ {0}
    <2>1. Cardinality(Bios) \in Nat
      BY NullIsNoBio, FS_CardinalityType
    <2> QED
      BY <2>1
  <1>7. ASSUME NEW x \in places
        PROVE  /\ x[1] \in Lists /\ x[2] \in 1..Len(Q[PlaceOf(x[1])]) /\ Q[PlaceOf(x[1])][x[2]] = b
               /\ Listed(b, Q[PlaceOf(x[1])]) /\ x = <<x[1], x[2]>>
    <2>1. x[1] \in Lists /\ x[2] \in N /\ x = <<x[1], x[2]>> /\ x[2] <= Len(Contents(x[1])) /\ Contents(x[1])[x[2]] = b
      OBVIOUS
    <2>2. Contents(x[1]) = Q[PlaceOf(x[1])] /\ Q[PlaceOf(x[1])] \in Seq(Bios)
      BY <1>3, <1>4, <2>1
    <2> HIDE DEF N, places
    <2>3. x[2] \in 1..Len(Q[PlaceOf(x[1])])
      BY <1>6, <2>1, <2>2
    <2> QED
      BY <2>1, <2>2, <2>3 DEF Listed
  <1>8. CASE Somewhere(b, Q)
    <2>1. PICK p \in Places : Listed(b, Q[p])
      BY <1>8 DEF Somewhere
    <2>2. PICK i \in 1..Len(Q[p]) : Q[p][i] = b
      BY <2>1 DEF Listed
    <2>3. Q[p] # << >>
      BY <2>2
    <2>4. PICK l \in Lists : PlaceOf(l) = p
      BY <1>1, <1>2, <2>3, PlaceHasList
    <2>5. i \in N
      <3>1. /\ Cardinality(Bios) \in Nat /\ Len(Q[p]) \in Nat /\ Len(Q[p]) <= Cardinality(Bios)
        BY <1>4, ListFits
      <3> QED
        BY <3>1
    <2>6. <<l, i>> \in places
      <3>1. Contents(l) = Q[p] /\ i <= Len(Contents(l)) /\ Contents(l)[i] = b
        BY <1>3, <1>4, <2>2, <2>4
      <3> HIDE DEF N
      <3> QED
        BY <2>4, <2>5, <3>1
    <2>7. ASSUME NEW x \in places PROVE x = <<l, i>>
      <3>1. x[1] \in Lists /\ x[2] \in 1..Len(Q[PlaceOf(x[1])]) /\ Q[PlaceOf(x[1])][x[2]] = b
            /\ Listed(b, Q[PlaceOf(x[1])]) /\ x = <<x[1], x[2]>>
        BY <1>7
      <3>2. PlaceOf(x[1]) = p
        BY <1>1, <1>3, <2>1, <3>1 DEF Waiting, WellStrung
      <3>3. x[1] = l
        BY <1>1, <1>2, <2>4, <3>1, <3>2, PlacesDiffer
      <3>4. x[2] = i
        BY <1>4, <2>2, <3>1, <3>2 DEF NoneTwice
      <3> QED
        BY <3>1, <3>3, <3>4
    <2> HIDE DEF places
    <2>8. places = {<<l, i>>}
      BY <2>6, <2>7
    <2>9. Cardinality(places) = 1
      BY <2>8, FS_Singleton
    <2> QED
      BY <1>5, <1>8, <2>9 DEF places
  <1>9. CASE ~Somewhere(b, Q)
    <2> HIDE DEF places
    <2>1. places = {}
      BY <1>3, <1>7, <1>9 DEF Somewhere
    <2>2. Cardinality(places) = 0
      BY <2>1, FS_EmptySet
    <2> QED
      BY <1>5, <1>9, <2>2 DEF places
  <1> QED
    BY <1>8, <1>9

-----------------------------------------------------------------------------
(* Theorems *)

(* Whatever the submitters, kblockd and the core do, in whatever order, the *)
(* links of the bios are those of lists that share nothing, and every head  *)
(* and tail the driver keeps is that of its list.                           *)
THEOREM BioInvariant == Spec => []IInv
  BY InitInv, NextInv, PTL DEF Spec

(* A bio is never lost, never on two lists, and never ended twice: a bio    *)
(* that was submitted and has not ended is on one list, once, and one that  *)
(* ended is on none.  So bio_endio is called at most once on every bio,     *)
(* however kfio_kickoff_plugged_io relinked it.                             *)
THEOREM BiosNeverLost == Spec => [](TypeOK /\ EachBioInOnePlace)
  <1>1. IInv => TypeOK /\ EachBioInOnePlace
    BY OnePlace DEF IInv
  <1> QED
    BY <1>1, BioInvariant, PTL

(* The range, direction and size of an fbio in the core are those of the    *)
(* bios that kfio_bio_completor finds from its head and will end.           *)
THEOREM FbiosCoverTheirBios == Spec => []FbioMatchesChain
  BY BioInvariant, FbiosMatch, PTL

(* No writer sleeps in holdoff_writes_under_pressure with the pressure off: *)
(* whoever clears the bit wakes all who went to sleep while it was set.     *)
THEOREM SleepersArePressed == Spec => []NoSleepWithoutPressure
  <1>1. IInv => NoSleepWithoutPressure
    BY DEF IInv
  <1> QED
    BY <1>1, BioInvariant, PTL
=============================================================================
