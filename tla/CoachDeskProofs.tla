--------------------------- MODULE CoachDeskProofs ---------------------------
(***************************************************************************)
(* Proofs about CoachDesk: what apply, coach and the quarantine keep, for  *)
(* any number of clerks, files, commands and edits by hand, whatever dies  *)
(* and, where the property says so, however commands overlap.              *)
(***************************************************************************)
EXTENDS CoachDesk, Integers, FiniteSetTheorems, SequenceTheorems, WellFoundedInduction,
  TLAPS

-----------------------------------------------------------------------------
(* The inductive invariant                                                 *)

Has(b, t)  == \E i \in DOMAIN t : t[i] = b
Once(b, t) == \A i, j \in DOMAIN t : t[i] = b /\ t[j] = b => i = j

WorldInv ==
  /\ text \in [Files -> Texts] /\ committed \in [Files -> Texts]
  /\ reports = [n \in DOMAIN reports |-> reports[n]] /\ DOMAIN reports \subseteq 1..clock
  /\ \A n \in DOMAIN reports : reports[n] \in Report
  /\ quarantine \subseteq Items
  /\ runs \in 0..MaxRuns /\ clock \in Nat
  /\ pc \in [Clerks -> Steps]
  /\ job = [c \in Clerks |-> job[c]] /\ desk = [c \in Clerks |-> desk[c]]
  /\ commands \in 0..MaxCommands /\ kills \in 0..MaxKills /\ hands \in 0..MaxHands
  /\ again \in Nat /\ forced \subseteq Blocks /\ replaced \subseteq Blocks
  /\ touched \subseteq Files
  /\ overlapped \in BOOLEAN

\* What the call of a coach or a diagnosis is about.
IsAbout(c, about) ==
  \/ job[c].kind = "coach" /\ about \in 1..runs
  \/ job[c].kind = "heldout" /\ about = job[c].item

\* What a clerk holds at each step of its command.
Holds(c) ==
  /\ pc[c] # "idle" => job[c] \in Commands
  /\ pc[c] = "asking" => job[c].kind \in {"coach", "heldout"}
  /\ pc[c] \in {"calling", "drafting"} => IsAbout(c, desk[c].about)
  /\ pc[c] = "saving" =>
       desk[c].stamp \in 1..clock /\ desk[c].report \in Report /\ IsAbout(c, desk[c].report.about)
  /\ pc[c] \in {"quarantining", "marking"} => job[c].kind = "heldout"
  /\ pc[c] = "marking" => desk[c].ids \subseteq Items
  /\ pc[c] \in {"loading", "picking", "writing"} => job[c].kind = "apply"
  /\ pc[c] \in {"picking", "writing"} =>
       /\ desk[c].stamp \in DOMAIN reports /\ desk[c].report \in Report
       /\ desk[c].report.about = reports[desk[c].stamp].about
       /\ desk[c].picks \in Seq(1..MaxProposals)
  /\ pc[c] = "picking" =>
       desk[c] = [stamp |-> desk[c].stamp, report |-> desk[c].report, picks |-> desk[c].picks,
                  changed |-> desk[c].changed]
  /\ pc[c] = "writing" =>
       /\ desk[c].picks # << >> /\ Head(desk[c].picks) <= Len(desk[c].report.proposals)
       /\ Picked(c).file # Unsafe
       /\ \E t \in Texts : /\ CanApply(Picked(c), t, job[c].force)
                           /\ desk[c].after = Applied(Picked(c), t)

\* Nobody else has the number a report is about to be saved under.
NumbersInv ==
  \A c \in Clerks : pc[c] = "saving" =>
    /\ desk[c].stamp \notin DOMAIN reports
    /\ \A d \in Clerks : pc[d] = "saving" /\ desk[d].stamp = desk[c].stamp => d = c

\* Every command drafts one report at most.
Drafting == {c \in Clerks : pc[c] \in {"asking", "calling", "drafting"}}
ClockInv == clock + Cardinality(Drafting) <= commands

\* The proposals that are saved or in somebody's hands.
Kept == {reports[n] : n \in DOMAIN reports}
          \cup {desk[c].report : c \in {d \in Clerks : pc[d] \in {"saving", "picking", "writing"}}}
Lines == UNION {Range(R.proposals) : R \in Kept}

\* The proposals drafted so far, and the blocks they have.
Drawn == clock * MaxProposals
Upto(t, bound) == \A i \in DOMAIN t : t[i] <= bound

BlocksInv ==
  /\ \A f \in Files : Upto(text[f], Drawn) /\ Upto(committed[f], 0)
  /\ \A c \in Clerks : pc[c] = "writing" => Upto(desk[c].after, Drawn)
  /\ \A p \in Lines : p.block <= Drawn /\ ~Has(p.block, p.seen)
  /\ \A p, q \in Lines : p.block = q.block => p.seen = q.seen

Guarded(p) == p.seen # << >> /\ p.block \notin forced

\* Neither a file nor a text about to be written has a guarded block twice, unless that
\* write is about to force it in.
OnceInv ==
  \A p \in Lines : Guarded(p) =>
    /\ \A f \in Files : Once(p.block, text[f])
    /\ \A c \in Clerks :
         pc[c] = "writing" /\ (job[c].force => Picked(c).block # p.block)
           => Once(p.block, desk[c].after)

\* Commands that wait for each other.
AloneInv ==
  ~overlapped => \A c, d \in Clerks : Busy(c) /\ Busy(d) => c = d

\* What may have taken a block out of a file again.
Gone(p) == p.file \in touched \/ p.block \in replaced

StampsInv ==
  ~overlapped =>
    /\ \A p \in Lines :
         p.applied => p.file # Unsafe /\ (Gone(p) \/ Has(p.block, text[p.file]))
    /\ \A c \in Clerks : pc[c] = "writing" =>
         \/ Picked(c).file \in touched
         \/ /\ CanApply(Picked(c), text[Picked(c).file], job[c].force)
            /\ desk[c].after = Applied(Picked(c), text[Picked(c).file])

\* The blocks of a report say where it stands among the reports, and each proposal in it.
Numbered(n, R) == \A i \in DOMAIN R.proposals :
  i \in 1..MaxProposals /\ R.proposals[i].block = (n - 1) * MaxProposals + i

NamesInv ==
  /\ \A n \in DOMAIN reports : Numbered(n, reports[n])
  /\ \A c \in Clerks : pc[c] \in {"saving", "picking", "writing"} =>
       Numbered(desk[c].stamp, desk[c].report)

\* What a command that applies has in memory is the report on disk with some more stamps.
CopyOf(R, S) ==
  /\ DOMAIN R.proposals = DOMAIN S.proposals
  /\ \A i \in DOMAIN S.proposals :
       \/ R.proposals[i] = S.proposals[i]
       \/ R.proposals[i] = [S.proposals[i] EXCEPT !.applied = TRUE]

CopiesInv ==
  ~overlapped =>
    /\ \A c \in Clerks : pc[c] \in {"picking", "writing"} =>
         CopyOf(desk[c].report, reports[desk[c].stamp])
    /\ \A c \in Clerks : pc[c] = "picking" /\ ~desk[c].changed =>
         desk[c].report = reports[desk[c].stamp]

\* What has just been drafted is in no file yet.
FreshInv ==
  ~overlapped => \A c \in Clerks : pc[c] = "saving" =>
    \A i \in DOMAIN desk[c].report.proposals : \A f \in Files :
      ~Has(desk[c].report.proposals[i].block, text[f])

\* In its file, or in the text that is about to be written there for another proposal.
InFile(p) ==
  /\ p.file # Unsafe
  /\ \/ Has(p.block, text[p.file])
     \/ \E c \in Clerks : /\ pc[c] = "writing"
                          /\ Picked(c).file = p.file /\ Picked(c).block # p.block
                          /\ Has(p.block, desk[c].after)

Stamping(c, n, i) ==
  /\ pc[c] \in {"picking", "writing"} /\ desk[c].stamp = n
  /\ i \in DOMAIN desk[c].report.proposals /\ desk[c].report.proposals[i].applied

StampingInv ==
  ~overlapped /\ kills = 0 =>
    \A n \in DOMAIN reports : \A i \in DOMAIN reports[n].proposals :
      ~reports[n].proposals[i].applied /\ InFile(reports[n].proposals[i])
        => \E c \in Clerks : Stamping(c, n, i)

Pending == {job[c].item : c \in {d \in Clerks : pc[d] \in {"quarantining", "marking"}}}

QuarantineInv ==
  ~overlapped =>
    /\ Cardinality(Diagnosed \ (quarantine \cup Pending)) <= kills
    /\ \A c \in Clerks : pc[c] = "marking" => desk[c].ids = quarantine

\* The report a clerk works on.
Coaching(c) == pc[c] \in {"calling", "drafting", "saving"} /\ job[c].kind = "coach"
About(c)    == IF pc[c] = "saving" THEN desk[c].report.about ELSE desk[c].about

HeldOut == {k \in DOMAIN reports : reports[k].about \in Items}
Allowed == again + kills + Cardinality(HeldOut)

PaidInv ==
  /\ paid \in [1..MaxRuns -> Nat]
  /\ \A n \in 1..MaxRuns : n > runs => paid[n] = 0
  /\ ~overlapped =>
       /\ \A n \in 1..MaxRuns :
            /\ paid[n] <= 1 + Allowed
            /\ paid[n] > Allowed =>
                 \/ n < runs
                 \/ reports # << >> /\ reports[Latest].about = n
                 \/ \E c \in Clerks : Coaching(c) /\ pc[c] # "calling" /\ About(c) = n
       /\ \A c \in Clerks : Coaching(c) =>
            /\ \A n \in 1..MaxRuns : n > About(c) => paid[n] = 0
            /\ pc[c] = "calling" /\ ~job[c].regenerate => paid[About(c)] <= Allowed
       /\ \A c \in Clerks : pc[c] = "saving" => \A k \in DOMAIN reports : k < desk[c].stamp

Inv == /\ WorldInv /\ (\A c \in Clerks : Holds(c)) /\ NumbersInv /\ ClockInv /\ BlocksInv
       /\ OnceInv /\ AloneInv /\ StampsInv /\ NamesInv /\ CopiesInv /\ FreshInv /\ StampingInv
       /\ QuarantineInv /\ PaidInv

-----------------------------------------------------------------------------
(* Numbers                                                                 *)

\* Of some numbers under a bound one is the greatest: the interval from it to the bound is
\* the smallest.
LEMMA Greatest ==
  ASSUME NEW N \in SUBSET Nat, N # {}, NEW bound \in Nat, \A i \in N : i <= bound
  PROVE  \E i \in N : \A j \in N : j <= i
<1> DEFINE above == {i..bound : i \in N}
<1>1. above \in SUBSET FiniteSubsetsOf(Nat) /\ above # {}
  <2>1. ASSUME NEW i \in N
        PROVE  IsFiniteSet(i..bound) /\ i..bound \in SUBSET Nat
    BY FS_Interval
  <2>2. QED
    BY <2>1 DEF FiniteSubsetsOf
<1>2. \E s \in above : \A t \in above : ~(<<t, s>> \in StrictSubsetOrdering(Nat))
  <2> HIDE DEF above
  <2>1. QED
    BY <1>1, FS_StrictSubsetOrderingWellFounded, WFMin
<1>3. PICK i \in N : \A j \in N : ~(<<j..bound, i..bound>> \in StrictSubsetOrdering(Nat))
  BY <1>2
<1>4. ASSUME NEW j \in N, i < j
      PROVE  FALSE
  <2>1. j..bound \subseteq i..bound /\ i \in i..bound /\ i \notin j..bound
    BY <1>4
  <2>2. <<j..bound, i..bound>> \in StrictSubsetOrdering(Nat)
    BY <2>1 DEF StrictSubsetOrdering
  <2>3. QED
    BY <1>3, <2>2
<1>5. QED
  BY <1>4

LEMMA Scale ==
  ASSUME NEW m \in Nat, NEW a \in Nat, NEW b \in Nat, a <= b
  PROVE  a * m \in Nat /\ b * m \in Nat /\ a * m <= b * m
<1>1. PICK k \in Nat : b = a + k
  <2>1. b - a \in Nat /\ b = a + (b - a)
    OBVIOUS
  <2>2. QED
    BY <2>1
<1>2. b * m = a * m + k * m
  BY <1>1
<1>3. a * m \in Nat /\ b * m \in Nat /\ k * m \in Nat
  OBVIOUS
<1> DEFINE x == a * m
           y == b * m
           z == k * m
<1>4. y = x + z /\ x \in Nat /\ y \in Nat /\ z \in Nat
  BY <1>2, <1>3
<1> HIDE DEF x, y, z
<1>5. x <= y
  BY <1>4
<1>6. QED
  BY <1>4, <1>5 DEF x, y

LEMMA OneMore ==
  ASSUME NEW S, IsFiniteSet(S), NEW x, NEW T, T \subseteq S \cup {x}
  PROVE  IsFiniteSet(T) /\ Cardinality(T) \in Nat /\ Cardinality(T) <= Cardinality(S) + 1
<1> DEFINE k == Cardinality(S)
           l == Cardinality(S \cup {x})
           m == Cardinality(T)
<1>1. IsFiniteSet(S \cup {x}) /\ l = IF x \in S THEN k ELSE k + 1
  BY FS_AddElement
<1>2. IsFiniteSet(T) /\ m <= l
  BY <1>1, FS_Subset
<1>3. k \in Nat /\ l \in Nat /\ m \in Nat
  BY <1>1, <1>2, FS_CardinalityType
<1> HIDE DEF k, l, m
<1>4. l <= k + 1
  BY <1>1, <1>3
<1>5. m <= k + 1
  BY <1>2, <1>3, <1>4
<1>6. QED
  BY <1>2, <1>3, <1>5 DEF k, m

-----------------------------------------------------------------------------
(* Texts                                                                   *)

\* What a number of occurrences says.
LEMMA Counting ==
  ASSUME NEW X, NEW t \in Seq(X), NEW b
  PROVE  /\ Count(b, t) <= 1 <=> Once(b, t)
         /\ Count(b, t) >= 1 <=> Has(b, t)
         /\ Count(b, t) = 1 => Has(b, t) /\ Once(b, t)
<1> DEFINE S == {i \in DOMAIN t : t[i] = b}
<1>1. IsFiniteSet(1..Len(t)) /\ DOMAIN t = 1..Len(t)
  <2>1. Len(t) \in Nat /\ DOMAIN t = 1..Len(t)
    OBVIOUS
  <2>2. QED
    BY <2>1, FS_Interval
<1>2. IsFiniteSet(S) /\ Cardinality(S) \in Nat
  BY <1>1, FS_Subset, FS_CardinalityType
<1>3. Cardinality(S) = 0 <=> S = {}
  BY <1>2, FS_EmptySet
<1>4. Cardinality(S) = 1 <=> \E x : S = {x}
  BY <1>2, FS_Singleton
<1>5. Has(b, t) <=> S # {}
  BY DEF Has
<1>6. Once(b, t) <=> S = {} \/ \E x : S = {x}
  <2>1. Once(b, t) <=> \A i, j \in S : i = j
    BY DEF Once
  <2> HIDE DEF S
  <2>2. ASSUME \A i, j \in S : i = j, S # {}
        PROVE  \E x : S = {x}
    <3>1. PICK x : x \in S
      BY <2>2
    <3>2. S = {x}
      BY <2>2, <3>1
    <3>3. QED
      BY <3>2
  <2>3. QED
    BY <2>1, <2>2
<1>7. Count(b, t) = Cardinality(S)
  BY DEF Count
<1> HIDE DEF S
<1> DEFINE n == Cardinality(S)
<1>8. n \in Nat
  BY <1>2
<1>9. (n <= 1 <=> n = 0 \/ n = 1) /\ (n >= 1 <=> n # 0)
  <2> HIDE DEF n
  <2>1. QED
    BY <1>8
<1>10. ~\E x : S = {x} /\ S = {}
  OBVIOUS
<1>11. QED
  BY <1>3, <1>4, <1>5, <1>6, <1>7, <1>9, <1>10

\* A text with one more block after its k-th.
Widened(t, k, b) == SubSeq(t, 1, k) \o <<b>> \o SubSeq(t, k + 1, Len(t))

LEMMA Inserted ==
  ASSUME NEW t \in Seq(Nat), NEW k \in 1..Len(t), NEW b \in Nat
  PROVE  /\ Widened(t, k, b) \in Seq(Nat) /\ DOMAIN Widened(t, k, b) = 1..(Len(t) + 1)
         /\ \A i \in 1..(Len(t) + 1) :
              Widened(t, k, b)[i] =
                IF i <= k THEN t[i] ELSE IF i = k + 1 THEN b ELSE t[i - 1]
<1> DEFINE n == Len(t)
           fore == SubSeq(t, 1, k)
           rest == SubSeq(t, k + 1, n)
           one  == <<b>>
           mid  == fore \o one
           u    == Widened(t, k, b)
<1>1. n \in Nat /\ k \in Nat /\ 1 <= k /\ k <= n /\ \A i \in 1..n : t[i] \in Nat
  OBVIOUS
<1> HIDE DEF n
<1>2. fore \in Seq(Nat) /\ Len(fore) = k /\ \A i \in 1..k : fore[i] = t[i]
  <2>1. \A i \in 1..k : t[i] \in Nat
    BY <1>1
  <2>2. /\ fore \in Seq(Nat) /\ Len(fore) = IF 1 <= k THEN k - 1 + 1 ELSE 0
        /\ \A i \in 1..(k - 1 + 1) : fore[i] = t[1 + i - 1]
    BY <1>1, <2>1, SubSeqProperties
  <2> HIDE DEF fore
  <2>3. QED
    BY <1>1, <2>2
<1>3. rest \in Seq(Nat) /\ Len(rest) = n - k /\ \A i \in 1..(n - k) : rest[i] = t[i + k]
  <2>1. k + 1 \in Int /\ n \in Int /\ \A i \in (k + 1)..n : t[i] \in Nat
    BY <1>1
  <2>2. /\ rest \in Seq(Nat) /\ Len(rest) = IF k + 1 <= n THEN n - (k + 1) + 1 ELSE 0
        /\ \A i \in 1..(n - (k + 1) + 1) : rest[i] = t[k + 1 + i - 1]
    BY <2>1, SubSeqProperties
  <2> HIDE DEF rest
  <2>3. n - (k + 1) + 1 = n - k /\ (k + 1 <= n \/ n - k = 0)
        /\ \A i \in 1..(n - k) : k + 1 + i - 1 = i + k
    BY <1>1
  <2>4. Len(rest) = n - k
    BY <1>1, <2>2, <2>3
  <2>5. QED
    BY <2>2, <2>3, <2>4
<1>4. one \in Seq(Nat) /\ Len(one) = 1 /\ one[1] = b
  OBVIOUS
<1>5. u = mid \o rest
  BY DEF Widened, n
<1> HIDE DEF fore, rest, one, u
<1>6. /\ mid \in Seq(Nat) /\ Len(mid) = k + 1
      /\ \A i \in 1..(k + 1) : mid[i] = IF i <= k THEN fore[i] ELSE one[i - k]
  <2>1. /\ mid \in Seq(Nat) /\ Len(mid) = Len(fore) + Len(one)
        /\ \A i \in 1..(Len(fore) + Len(one)) :
             mid[i] = IF i <= Len(fore) THEN fore[i] ELSE one[i - Len(fore)]
    BY <1>2, <1>4, ConcatProperties
  <2> HIDE DEF mid
  <2>2. QED
    BY <1>2, <1>4, <2>1
<1> HIDE DEF mid
<1>7. /\ u \in Seq(Nat) /\ Len(u) = n + 1
      /\ \A i \in 1..(n + 1) : u[i] = IF i <= k + 1 THEN mid[i] ELSE rest[i - (k + 1)]
  <2>1. /\ mid \o rest \in Seq(Nat) /\ Len(mid \o rest) = Len(mid) + Len(rest)
        /\ \A i \in 1..(Len(mid) + Len(rest)) :
             (mid \o rest)[i] = IF i <= Len(mid) THEN mid[i] ELSE rest[i - Len(mid)]
    BY <1>3, <1>6, ConcatProperties
  <2>2. Len(mid) + Len(rest) = n + 1
    BY <1>1, <1>3, <1>6
  <2>3. QED
    BY <1>5, <1>6, <2>1, <2>2
<1>9. DOMAIN u = 1..(n + 1)
  BY <1>7
<1>10. ASSUME NEW i \in 1..(n + 1)
       PROVE  u[i] = IF i <= k THEN t[i] ELSE IF i = k + 1 THEN b ELSE t[i - 1]
  <2>1. u[i] = IF i <= k + 1 THEN mid[i] ELSE rest[i - (k + 1)]
    BY <1>7
  <2>2. CASE i <= k
    BY <1>1, <1>2, <1>6, <2>1, <2>2
  <2>3. CASE i = k + 1
    <3>1. mid[k + 1] = one[1]
      BY <1>1, <1>6
    <3>2. QED
      BY <1>1, <1>4, <2>1, <2>3, <3>1
  <2>4. CASE i > k + 1
    <3>1. i - (k + 1) \in 1..(n - k) /\ (i - (k + 1)) + k = i - 1
      BY <1>1, <2>4
    <3>2. QED
      BY <1>1, <1>3, <2>1, <2>4, <3>1
  <2>5. QED
    BY <1>1, <2>2, <2>3, <2>4
<1>11. QED
  BY <1>7, <1>9, <1>10 DEF n, u

\* An edit puts its own block into the text, and adds no other; only its anchor may go.
LEMMA Edit ==
  ASSUME NEW p, p.block \in Nat \ {0}, p.edit \in {"append", "insert", "replace"},
         NEW t \in Seq(Nat), Fits(p, t)
  PROVE  /\ Applied(p, t) \in Seq(Nat)
         /\ \A i \in DOMAIN Applied(p, t) : Applied(p, t)[i] = p.block \/ Has(Applied(p, t)[i], t)
         /\ Has(p.block, Applied(p, t))
         /\ ~Has(p.block, t) => Once(p.block, Applied(p, t))
         /\ \A b \in Nat \ {p.block} :
              /\ Has(b, t) => Has(b, Applied(p, t)) \/ (p.edit = "replace" /\ p.anchor = b)
              /\ Once(b, t) => Once(b, Applied(p, t))
<1> DEFINE n == Len(t)
<1>1. n \in Nat /\ DOMAIN t = 1..n /\ \A i \in 1..n : t[i] \in Nat
  OBVIOUS
<1>2. CASE p.edit = "append"
  <2> DEFINE u == Append(t, p.block)
  <2>1. /\ u \in Seq(Nat) /\ DOMAIN u = 1..(n + 1) /\ u[n + 1] = p.block
        /\ \A i \in 1..n : u[i] = t[i]
    OBVIOUS
  <2>2. Applied(p, t) = u
    BY <1>2 DEF Applied
  <2> HIDE DEF u, n
  <2>3. \A i \in 1..(n + 1) : i \in 1..n \/ i = n + 1
    BY <1>1
  <2>4. 1..n \subseteq 1..(n + 1) /\ n + 1 \in 1..(n + 1)
    BY <1>1
  <2>5. QED
    BY <1>1, <2>1, <2>2, <2>3, <2>4 DEF Has, Once
<1>3. CASE p.edit \in {"insert", "replace"}
  <2> DEFINE k == CHOOSE i \in DOMAIN t : t[i] = p.anchor
  <2>1. Has(p.anchor, t)
    BY <1>3, Counting DEF Fits, Anchored
  <2>2. k \in 1..n /\ t[k] = p.anchor
    BY <1>1, <2>1 DEF Has
  <2>3. CASE p.edit = "replace"
    <3> DEFINE u == [t EXCEPT ![k] = p.block]
    <3>1. Applied(p, t) = u
      BY <2>3 DEF Applied
    <3> HIDE DEF k
    <3>2. u \in Seq(Nat) /\ DOMAIN u = 1..n
      BY <1>1, <2>2
    <3>3. \A i \in 1..n : u[i] = IF i = k THEN p.block ELSE t[i]
      BY <1>1
    <3> HIDE DEF u, n
    <3>4. QED
      BY <1>1, <2>2, <2>3, <3>1, <3>2, <3>3 DEF Has, Once
  <2>4. CASE p.edit = "insert"
    <3> DEFINE u == InsertAt(t, k + 1, p.block)
    <3>1. Applied(p, t) = u
      BY <2>4 DEF Applied
    <3> HIDE DEF k
    <3>2. u = Widened(t, k, p.block)
      <4>1. (k + 1) - 1 = k
        BY <2>2
      <4>2. QED
        BY <4>1 DEF InsertAt, Widened
    <3>3. /\ u \in Seq(Nat) /\ DOMAIN u = 1..(n + 1)
          /\ \A i \in 1..(n + 1) :
               u[i] = IF i <= k THEN t[i] ELSE IF i = k + 1 THEN p.block ELSE t[i - 1]
      <4> DEFINE w == Widened(t, k, p.block)
      <4>1. k \in 1..Len(t) /\ p.block \in Nat
        BY <2>2
      <4>2. /\ w \in Seq(Nat) /\ DOMAIN w = 1..(Len(t) + 1)
            /\ \A i \in 1..(Len(t) + 1) :
                 w[i] = IF i <= k THEN t[i] ELSE IF i = k + 1 THEN p.block ELSE t[i - 1]
        BY <4>1, Inserted
      <4> HIDE DEF u, w
      <4>3. u = w
        BY <3>2 DEF w
      <4>4. QED
        BY <4>2, <4>3
    <3> HIDE DEF u, n
    <3>4. k + 1 \in 1..(n + 1) /\ u[k + 1] = p.block
      BY <1>1, <2>2, <3>3
    <3>5. \A i \in 1..n : \E j \in 1..(n + 1) : j = (IF i <= k THEN i ELSE i + 1) /\ u[j] = t[i]
      <4>1. TAKE i \in 1..n
      <4>2. CASE i <= k
        <5>1. i \in 1..(n + 1) /\ u[i] = t[i]
          BY <1>1, <2>2, <3>3, <4>2
        <5>2. QED
          BY <4>2, <5>1
      <4>3. CASE ~(i <= k)
        <5>1. i + 1 \in 1..(n + 1) /\ u[i + 1] = t[i]
          BY <1>1, <2>2, <3>3, <4>3
        <5>2. QED
          BY <4>3, <5>1
      <4>4. QED
        BY <4>2, <4>3
    <3>6. \A i \in 1..(n + 1) : i # k + 1 =>
            \E j \in 1..n : j = (IF i <= k THEN i ELSE i - 1) /\ u[i] = t[j]
      <4>1. TAKE i \in 1..(n + 1)
      <4>2. HAVE i # k + 1
      <4>3. CASE i <= k
        <5>1. i \in 1..n /\ u[i] = t[i]
          BY <1>1, <2>2, <3>3, <4>3
        <5>2. QED
          BY <4>3, <5>1
      <4>4. CASE ~(i <= k)
        <5>1. i - 1 \in 1..n /\ u[i] = t[i - 1]
          BY <1>1, <2>2, <3>3, <4>2, <4>4
        <5>2. QED
          BY <4>4, <5>1
      <4>5. QED
        BY <4>3, <4>4
    <3>7. \A i \in 1..(n + 1) : u[i] = p.block \/ Has(u[i], t)
      BY <1>1, <3>4, <3>6 DEF Has
    <3>8. \A b \in Nat : Has(b, t) => Has(b, u)
      BY <1>1, <3>3, <3>5 DEF Has
    <3>9. ASSUME NEW b \in Nat, Once(b, t), NEW i \in 1..(n + 1), NEW j \in 1..(n + 1),
                 i # k + 1, j # k + 1, u[i] = b, u[j] = b
          PROVE  i = j
      <4>1. PICK x \in 1..n : x = (IF i <= k THEN i ELSE i - 1) /\ u[i] = t[x]
        BY <3>6, <3>9
      <4>2. PICK y \in 1..n : y = (IF j <= k THEN j ELSE j - 1) /\ u[j] = t[y]
        BY <3>6, <3>9
      <4>3. x = y
        BY <1>1, <3>9, <4>1, <4>2 DEF Once
      <4>4. QED
        BY <1>1, <2>2, <3>9, <4>1, <4>2, <4>3
    <3>10. ASSUME NEW b \in Nat \ {p.block}, Once(b, t)
           PROVE  Once(b, u)
      BY <3>3, <3>4, <3>9, <3>10 DEF Once
    <3>11. ASSUME ~Has(p.block, t)
           PROVE  Once(p.block, u)
      <4>1. \A i \in 1..(n + 1) : u[i] = p.block => i = k + 1
        BY <1>1, <3>6, <3>11 DEF Has
      <4>2. QED
        BY <3>3, <4>1 DEF Once
    <3>12. Has(p.block, u)
      BY <3>3, <3>4 DEF Has
    <3>13. QED
      BY <3>1, <3>3, <3>7, <3>8, <3>10, <3>11, <3>12
  <2>5. QED
    BY <1>3, <2>3, <2>4
<1>4. QED
  BY <1>2, <1>3

-----------------------------------------------------------------------------
(* Steps                                                                   *)

\* A clerk that moves leaves the other ones where they are.
LEMMA Frame ==
  ASSUME WorldInv, NEW c \in Clerks, Clerk(c)
  PROVE  /\ \A d \in Clerks \ {c} : pc'[d] = pc[d] /\ job'[d] = job[d] /\ desk'[d] = desk[d]
         /\ pc' = [d \in Clerks |-> pc'[d]]
         /\ job' = [d \in Clerks |-> job'[d]] /\ desk' = [d \in Clerks |-> desk'[d]]
<1>1. \/ \E step : pc' = [pc EXCEPT ![c] = step]
      \/ pc' = pc
  BY DEF Clerk, Start, Ask, Call, Draft, Save, LoadQuarantine, Quarantine, Load, Pick, Write,
         Stamp, Kill, Done, Goto
<1>2. \/ \E value : job' = [job EXCEPT ![c] = value]
      \/ job' = job
  BY DEF Clerk, Start, Ask, Call, Draft, Save, LoadQuarantine, Quarantine, Load, Pick, Write,
         Stamp, Kill, Done
<1>3. \/ \E value : desk' = [desk EXCEPT ![c] = value]
      \/ desk' = desk
  <2>1. CASE Start(c) \/ Call(c)
    BY <2>1 DEF Start, Call
  <2>2. CASE Ask(c) \/ Save(c) \/ Load(c) \/ Quarantine(c) \/ Stamp(c) \/ Kill(c)
    BY <2>2 DEF Ask, Save, Load, Quarantine, Stamp, Kill, Done, Hold
  <2>3. CASE Draft(c) \/ LoadQuarantine(c) \/ Pick(c) \/ Write(c)
    BY <2>3 DEF Draft, LoadQuarantine, Pick, Write, Hold
  <2>4. QED
    BY <2>1, <2>2, <2>3 DEF Clerk
<1>4. QED
  BY <1>1, <1>2, <1>3 DEF WorldInv

LEMMA Ends ==
  ASSUME WorldInv, NEW c \in Clerks, Done(c)
  PROVE  pc'[c] = "idle"
BY DEF WorldInv, Done, Goto

\* What a step never takes back.
LEMMA Histories ==
  ASSUME Next
  PROVE  /\ committed' = committed
         /\ forced \subseteq forced' /\ replaced \subseteq replaced' /\ touched \subseteq touched'
<1>1. CASE DevEval
  BY <1>1 DEF DevEval, hist
<1>2. CASE \E f \in Files : HandEdit(f)
  BY <1>2 DEF HandEdit
<1>3. ASSUME NEW c \in Clerks, Clerk(c)
      PROVE  /\ committed' = committed
             /\ forced \subseteq forced' /\ replaced \subseteq replaced' /\ touched \subseteq touched'
  <2>1. CASE Start(c) \/ Kill(c)
    BY <2>1 DEF Start, Kill, disk, hist
  <2>2. CASE Write(c)
    BY <2>2 DEF Write, unchangedByClerk
  <2>3. CASE Ask(c) \/ Call(c) \/ Draft(c) \/ Save(c) \/ LoadQuarantine(c)
    BY <2>3 DEF Ask, Call, Draft, Save, LoadQuarantine, unchangedByClerk
  <2>4. CASE Quarantine(c) \/ Load(c) \/ Pick(c) \/ Stamp(c)
    BY <2>4 DEF Quarantine, Load, Pick, Stamp, unchangedByClerk
  <2>5. QED
    BY <1>3, <2>1, <2>2, <2>3, <2>4 DEF Clerk
<1>4. QED
  BY <1>1, <1>2, <1>3 DEF Next

LEMMA InvInit == Init => Inv
<1> SUFFICES ASSUME Init PROVE Inv
  OBVIOUS
<1>1. WorldInv
  <2>1. {0} \subseteq Blocks
    BY CoachDeskAssumption DEF Blocks
  <2>2. << >> \in Texts /\ <<0>> \in Texts
    BY <2>1 DEF Texts
  <2>3. text \in [Files -> Texts] /\ committed \in [Files -> Texts]
    BY <2>2 DEF Init
  <2>4. 0 \in 0..MaxRuns /\ 0 \in 0..MaxCommands /\ 0 \in 0..MaxKills /\ 0 \in 0..MaxHands
    BY CoachDeskAssumption
  <2>5. /\ reports = [n \in DOMAIN reports |-> reports[n]] /\ DOMAIN reports \subseteq 1..clock
        /\ \A n \in DOMAIN reports : reports[n] \in Report
    BY DEF Init
  <2>6. pc \in [Clerks -> Steps] /\ job = [c \in Clerks |-> job[c]]
        /\ desk = [c \in Clerks |-> desk[c]]
    BY DEF Init, Steps
  <2>7. QED
    BY <2>3, <2>4, <2>5, <2>6 DEF Init, WorldInv
<1>2. ASSUME NEW c \in Clerks
      PROVE  Holds(c)
  BY DEF Init, Holds
<1>3. Kept = {} /\ Lines = {}
  BY DEF Init, Kept, Lines
<1>4. ClockInv
  <2>1. Drafting = {}
    BY DEF Init, Drafting
  <2>2. QED
    BY <2>1, FS_EmptySet DEF Init, ClockInv
<1>5. BlocksInv
  BY <1>3, CoachDeskAssumption DEF Init, BlocksInv, Upto, Drawn
<1>6. OnceInv /\ AloneInv /\ StampsInv
  BY <1>3 DEF Init, OnceInv, AloneInv, StampsInv, Busy
<1>7. NamesInv /\ CopiesInv /\ FreshInv /\ StampingInv
  BY DEF Init, NamesInv, CopiesInv, FreshInv, StampingInv
<1>8. NumbersInv
  BY DEF Init, NumbersInv
<1>9. QuarantineInv
  <2>1. Diagnosed = {}
    BY DEF Init, Diagnosed
  <2>2. Diagnosed \ (quarantine \cup Pending) = {}
    BY <2>1
  <2>3. Cardinality(Diagnosed \ (quarantine \cup Pending)) = 0
    BY <2>2, FS_EmptySet
  <2>4. kills = 0 /\ \A c \in Clerks : pc[c] # "marking"
    BY DEF Init
  <2>5. QED
    BY <2>3, <2>4 DEF QuarantineInv
<1>10. PaidInv
  <2>1. HeldOut = {}
    BY DEF Init, HeldOut
  <2>2. Allowed = 0
    BY <2>1, FS_EmptySet DEF Init, Allowed
  <2>3. QED
    BY <2>2 DEF Init, PaidInv, Coaching
<1>11. QED
  BY <1>1, <1>2, <1>4, <1>5, <1>6, <1>7, <1>8, <1>9, <1>10 DEF Inv

-----------------------------------------------------------------------------
(* What a clerk holds                                                      *)

LEMMA LatestIsOne ==
  ASSUME WorldInv, reports # << >>
  PROVE  Latest \in DOMAIN reports /\ \A k \in DOMAIN reports : k <= Latest
<1>1. DOMAIN reports \in SUBSET Nat /\ \A k \in DOMAIN reports : k <= clock
  BY DEF WorldInv
<1>2. DOMAIN reports # {}
  <2>1. SUFFICES ASSUME DOMAIN reports = {} PROVE reports = << >>
    OBVIOUS
  <2>2. reports = [n \in {} |-> reports[n]]
    BY <2>1 DEF WorldInv
  <2>3. << >> = [n \in {} |-> reports[n]]
    OBVIOUS
  <2>4. QED
    BY <2>2, <2>3
<1>3. clock \in Nat
  BY DEF WorldInv
<1>4. \E n \in DOMAIN reports : \A k \in DOMAIN reports : k <= n
  BY <1>1, <1>2, <1>3, Greatest
<1>5. QED
  BY <1>4 DEF Latest

LEMMA BlocksAreNumbers ==
  /\ Blocks \subseteq Nat /\ 0 \in Blocks
  /\ \A t \in Texts : t \in Seq(Nat)
  /\ \A t \in Seq(Nat) : (\A i \in DOMAIN t : t[i] \in Blocks) => t \in Texts
<1>1. MaxCommands * MaxProposals \in Nat
  BY CoachDeskAssumption
<1>2. Blocks \subseteq Nat /\ 0 \in Blocks
  <2> DEFINE m == MaxCommands * MaxProposals
  <2>1. Blocks = 0..m /\ m \in Nat
    BY <1>1 DEF Blocks
  <2> HIDE DEF m
  <2>2. QED
    BY <2>1
<1>3. ASSUME NEW t \in Texts
      PROVE  t \in Seq(Nat)
  <2>1. t \in Seq(Blocks)
    BY DEF Texts
  <2>2. Len(t) \in Nat /\ t = [i \in 1..Len(t) |-> t[i]] /\ \A i \in 1..Len(t) : t[i] \in Blocks
    BY <2>1
  <2>3. \A i \in 1..Len(t) : t[i] \in Nat
    BY <1>2, <2>2
  <2>4. QED
    BY <2>2, <2>3
<1>4. ASSUME NEW t \in Seq(Nat), \A i \in DOMAIN t : t[i] \in Blocks
      PROVE  t \in Texts
  BY <1>4 DEF Texts
<1>5. QED
  BY <1>2, <1>3, <1>4

LEMMA EditIsText ==
  ASSUME NEW p \in Proposal, NEW t \in Texts, NEW force, CanApply(p, t, force)
  PROVE  /\ Applied(p, t) \in Texts
         /\ \A i \in DOMAIN Applied(p, t) : Applied(p, t)[i] = p.block \/ Has(Applied(p, t)[i], t)
         /\ Has(p.block, Applied(p, t))
         /\ ~Has(p.block, t) => Once(p.block, Applied(p, t))
         /\ \A b \in Nat \ {p.block} :
              /\ Has(b, t) => Has(b, Applied(p, t)) \/ (p.edit = "replace" /\ p.anchor = b)
              /\ Once(b, t) => Once(b, Applied(p, t))
<1>1. p.block \in Blocks \ {0} /\ p.edit \in {"append", "insert", "replace"} /\ Fits(p, t)
  BY DEF Proposal, CanApply
<1>2. p.block \in Nat \ {0} /\ t \in Seq(Nat)
  BY <1>1, BlocksAreNumbers
<1>7. \A i \in DOMAIN t : t[i] \in Blocks
  BY DEF Texts
<1> DEFINE u == Applied(p, t)
<1>3. /\ u \in Seq(Nat)
      /\ \A i \in DOMAIN u : u[i] = p.block \/ Has(u[i], t)
      /\ Has(p.block, u) /\ (~Has(p.block, t) => Once(p.block, u))
      /\ \A b \in Nat \ {p.block} :
              /\ Has(b, t) => Has(b, u) \/ (p.edit = "replace" /\ p.anchor = b)
              /\ Once(b, t) => Once(b, u)
  BY <1>1, <1>2, Edit
<1> HIDE DEF u
<1>4. \A i \in DOMAIN u : u[i] \in Blocks
  BY <1>1, <1>3, <1>7 DEF Has
<1>5. u \in Texts
  BY <1>3, <1>4, BlocksAreNumbers
<1>6. QED
  BY <1>3, <1>5 DEF u

\* A proposal as it is validated.
LEMMA ValidatedIsProposal ==
  ASSUME WorldInv, NEW d \in Answer, NEW b \in Blocks \ {0}
  PROVE  /\ Validated(d, b) \in Proposal
         /\ Validated(d, b).block = b /\ Validated(d, b).applied = FALSE
         /\ \/ Validated(d, b).seen = << >>
            \/ \E f \in Files : Validated(d, b).seen = text[f]
<1> DEFINE file == IF Moves(d) THEN CHOOSE f \in Owners(d) : TRUE ELSE d.file
           now  == IF Moves(d) THEN text[file] ELSE Named(d)
           keep == Fits(d, now)
           edit == IF keep THEN d.edit ELSE "none"
           anchor == IF keep /\ Anchored(d) THEN d.anchor ELSE 0
<1>1. Validated(d, b) = [file |-> file, edit |-> edit, anchor |-> anchor,
                         block |-> b, seen |-> now, applied |-> FALSE]
  BY DEF Validated
<1>2. d.file \in Files \cup {Unsafe} /\ d.edit \in {"append", "insert", "replace"}
      /\ d.anchor \in Blocks
  BY DEF Answer
<1>3. /\ file \in Files \cup {Unsafe}
      /\ now = << >> \/ \E f \in Files : now = text[f]
  <2>1. CASE Moves(d)
    <3>1. Owners(d) # {} /\ Owners(d) \subseteq Files
      BY <2>1, FS_EmptySet, CoachDeskAssumption DEF Moves, Owners
    <3>2. file \in Files /\ now = text[file]
      BY <2>1, <3>1
    <3>3. QED
      BY <3>2
  <2>2. CASE ~Moves(d)
    <3>1. Named(d) = << >> \/ \E f \in Files : Named(d) = text[f]
      BY CoachDeskAssumption DEF Named
    <3>2. QED
      BY <1>2, <2>2, <3>1
  <2>3. QED
    BY <2>1, <2>2
<1> HIDE DEF file, now, keep
<1>4. now \in Texts
  <2>1. << >> \in Texts
    BY DEF Texts
  <2>2. QED
    BY <1>3, <2>1 DEF WorldInv
<1>5. edit \in {"none", "append", "insert", "replace"} /\ anchor \in Blocks
  BY <1>2, BlocksAreNumbers
<1> HIDE DEF edit, anchor
<1>6. QED
  BY <1>1, <1>3, <1>4, <1>5 DEF Proposal

LEMMA CommandHas ==
  ASSUME NEW cmd \in Commands
  PROVE  /\ cmd.kind \in {"coach", "heldout", "apply"}
         /\ cmd.kind = "coach" => cmd.regenerate \in BOOLEAN
         /\ cmd.kind = "heldout" => cmd.item \in Items
         /\ cmd.kind = "apply" => cmd.picks \in Seq(1..MaxProposals) /\ cmd.force \in BOOLEAN
<1> DEFINE P == UNION {[1..k -> 1..MaxProposals] : k \in 1..MaxPicks}
<1>1. \A s \in P : s \in Seq(1..MaxProposals)
  <2>1. TAKE s \in P
  <2>2. PICK k \in 1..MaxPicks : s \in [1..k -> 1..MaxProposals]
    BY <2>1
  <2>3. k \in Nat
    BY <2>2 DEF MaxPicks
  <2> DEFINE N == 1..MaxProposals
  <2>4. s \in [1..k -> N]
    BY <2>2
  <2> HIDE DEF N
  <2>5. s \in Seq(N)
    BY <2>3, <2>4
  <2>6. QED
    BY <2>5 DEF N
<1>2. \/ cmd \in [kind : {"coach"}, regenerate : BOOLEAN]
      \/ cmd \in [kind : {"heldout"}, item : Items]
      \/ cmd \in [kind : {"apply"}, picks : P, force : BOOLEAN]
  BY DEF Commands
<1> HIDE DEF P
<1>3. QED
  BY <1>1, <1>2

LEMMA PickedIsProposal ==
  ASSUME NEW c, desk[c].report \in Report, desk[c].picks \in Seq(1..MaxProposals),
         desk[c].picks # << >>
  PROVE  /\ desk[c].report.proposals \in Seq(Proposal)
         /\ Head(desk[c].picks) \in 1..MaxProposals /\ Tail(desk[c].picks) \in Seq(1..MaxProposals)
         /\ Head(desk[c].picks) <= Len(desk[c].report.proposals) =>
              Head(desk[c].picks) \in DOMAIN desk[c].report.proposals /\ Picked(c) \in Proposal
<1> DEFINE s == desk[c].report.proposals
           h == Head(desk[c].picks)
<1>1. s \in Seq(Proposal)
  BY DEF Report
<1>2. h \in 1..MaxProposals /\ Tail(desk[c].picks) \in Seq(1..MaxProposals)
  BY HeadTailProperties
<1>3. h \in Nat \ {0}
  BY <1>2, CoachDeskAssumption
<1>4. Picked(c) = s[h]
  BY DEF Picked
<1> HIDE DEF s, h
<1>5. h <= Len(s) => h \in DOMAIN s /\ s[h] \in Proposal
  BY <1>1, <1>3
<1>6. QED
  BY <1>1, <1>2, <1>4, <1>5 DEF s, h

\* What a clerk is about to write is the text it read, edited.
LEMMA AboutToWrite ==
  ASSUME NEW c, Holds(c), pc[c] = "writing"
  PROVE  /\ Picked(c) \in Proposal /\ Picked(c).file \in Files /\ desk[c].after \in Texts
         /\ \E t \in Texts : /\ CanApply(Picked(c), t, job[c].force)
                             /\ desk[c].after = Applied(Picked(c), t)
<1>1. /\ desk[c].report \in Report /\ desk[c].picks \in Seq(1..MaxProposals)
      /\ desk[c].picks # << >> /\ Head(desk[c].picks) <= Len(desk[c].report.proposals)
      /\ Picked(c).file # Unsafe
  BY DEF Holds
<1>2. Picked(c) \in Proposal
  BY <1>1, PickedIsProposal
<1>3. PICK t \in Texts : /\ CanApply(Picked(c), t, job[c].force)
                         /\ desk[c].after = Applied(Picked(c), t)
  BY DEF Holds
<1>4. desk[c].after \in Texts
  BY <1>2, <1>3, EditIsText
<1>5. Picked(c).file \in Files
  BY <1>1, <1>2 DEF Proposal
<1>6. QED
  BY <1>2, <1>3, <1>4, <1>5

LEMMA WorldStep ==
  ASSUME WorldInv, \A d \in Clerks : Holds(d), Next
  PROVE  WorldInv'
<1>1. CASE DevEval
  BY <1>1, CoachDeskAssumption DEF DevEval, WorldInv, disk, local, hist
<1>2. ASSUME NEW f \in Files, HandEdit(f)
      PROVE  WorldInv'
  <2>1. PICK t \in {Append(text[f], 0), committed[f]} : text' = [text EXCEPT ![f] = t]
    BY <1>2 DEF HandEdit
  <2>2. t \in Texts
    <3>1. text[f] \in Texts /\ committed[f] \in Texts
      BY DEF WorldInv
    <3>2. Append(text[f], 0) \in Texts
      BY <3>1, BlocksAreNumbers DEF Texts
    <3>3. QED
      BY <3>1, <3>2
  <2>3. text' \in [Files -> Texts]
    BY <2>1, <2>2 DEF WorldInv
  <2>4. QED
    BY <1>2, <2>3, CoachDeskAssumption DEF HandEdit, WorldInv, local
<1>3. ASSUME NEW c \in Clerks, Clerk(c)
      PROVE  WorldInv'
  <2>1. Holds(c) /\ (pc[c] # "idle" => job[c] \in Commands)
    BY DEF Holds
  <2>2. pc' \in [Clerks -> Steps]
    BY <1>3 DEF Clerk, Start, Ask, Call, Draft, Save, LoadQuarantine, Quarantine, Load, Pick,
                Write, Stamp, Kill, Done, Goto, WorldInv, Steps
  <2>3. job' = [d \in Clerks |-> job'[d]] /\ desk' = [d \in Clerks |-> desk'[d]]
    BY <1>3, Frame
  <2>4. committed' = committed /\ runs' = runs
    BY <1>3 DEF Clerk, Start, Ask, Call, Draft, Save, LoadQuarantine, Quarantine, Load, Pick,
                Write, Stamp, Kill, unchangedByClerk, disk
  <2>5. CASE Start(c)
    BY <2>2, <2>3, <2>4, <2>5, CoachDeskAssumption DEF Start, WorldInv, disk, hist
  <2>6. CASE Ask(c) \/ LoadQuarantine(c) \/ Load(c) \/ Pick(c)
    BY <2>2, <2>3, <2>4, <2>6 DEF Ask, LoadQuarantine, Load, Pick, WorldInv, unchangedByClerk
  <2>7. CASE Call(c)
    BY <2>2, <2>3, <2>4, <2>7 DEF Call, WorldInv, unchangedByClerk
  <2>8. CASE Draft(c)
    BY <2>2, <2>3, <2>4, <2>8 DEF Draft, WorldInv, unchangedByClerk
  <2>9. CASE Save(c)
    <3>1. desk[c].stamp \in 1..clock /\ desk[c].report \in Report
      BY <2>1, <2>9 DEF Save, Holds
    <3>2. reports' = [n \in DOMAIN reports \cup {desk[c].stamp} |->
                        IF n = desk[c].stamp THEN desk[c].report ELSE reports[n]]
      BY <2>9 DEF Save
    <3>3. /\ reports' = [n \in DOMAIN reports' |-> reports'[n]] /\ DOMAIN reports' \subseteq 1..clock
          /\ \A n \in DOMAIN reports' : reports'[n] \in Report
      BY <3>1, <3>2 DEF WorldInv
    <3>4. QED
      BY <2>2, <2>3, <2>4, <2>9, <3>3 DEF Save, WorldInv, unchangedByClerk
  <2>10. CASE Quarantine(c)
    <3>1. desk[c].ids \subseteq Items /\ job[c].item \in Items
      BY <2>1, <2>10, CommandHas DEF Quarantine, Holds
    <3>2. QED
      BY <2>2, <2>3, <2>4, <2>10, <3>1 DEF Quarantine, WorldInv, unchangedByClerk
  <2>11. CASE Write(c)
    <3>1. Picked(c) \in Proposal /\ desk[c].after \in Texts
      BY <2>1, <2>11, AboutToWrite DEF Write
    <3>2. Picked(c).block \in Blocks /\ Picked(c).anchor \in Blocks
      BY <3>1 DEF Proposal
    <3>3. text' \in [Files -> Texts] /\ forced' \subseteq Blocks /\ replaced' \subseteq Blocks
      BY <2>11, <3>1, <3>2 DEF Write, WorldInv
    <3>4. QED
      BY <2>2, <2>3, <2>4, <2>11, <3>3 DEF Write, WorldInv, unchangedByClerk
  <2>12. CASE Stamp(c)
    <3>1. desk[c].stamp \in DOMAIN reports /\ desk[c].report \in Report
      BY <2>1, <2>12 DEF Stamp, Holds
    <3>2. reports' = IF desk[c].changed
                     THEN [reports EXCEPT ![desk[c].stamp] = desk[c].report]
                     ELSE reports
      BY <2>12 DEF Stamp
    <3>3. /\ reports' = [n \in DOMAIN reports' |-> reports'[n]] /\ DOMAIN reports' \subseteq 1..clock
          /\ \A n \in DOMAIN reports' : reports'[n] \in Report
      BY <3>1, <3>2 DEF WorldInv
    <3>4. QED
      BY <2>2, <2>3, <2>4, <2>12, <3>3 DEF Stamp, WorldInv, unchangedByClerk
  <2>13. CASE Kill(c)
    BY <2>2, <2>3, <2>4, <2>13, CoachDeskAssumption DEF Kill, WorldInv, disk, hist
  <2>14. QED
    BY <1>3, <2>5, <2>6, <2>7, <2>8, <2>9, <2>10, <2>11, <2>12, <2>13 DEF Clerk
<1>4. QED
  BY <1>1, <1>2, <1>3 DEF Next

\* A report stays under its number, about what it was about.
LEMMA ReportsStay ==
  ASSUME WorldInv, \A d \in Clerks : Holds(d), NumbersInv, Next
  PROVE  /\ clock' \in Nat /\ clock <= clock' /\ runs' \in Nat /\ runs <= runs'
         /\ \A n \in DOMAIN reports : n \in DOMAIN reports' /\ reports'[n].about = reports[n].about
<1> clock \in Nat /\ runs \in Nat
  BY DEF WorldInv
<1>1. CASE DevEval
  BY <1>1 DEF DevEval
<1>2. CASE \E f \in Files : HandEdit(f)
  BY <1>2 DEF HandEdit
<1>3. ASSUME NEW c \in Clerks, Clerk(c)
      PROVE  /\ clock' \in Nat /\ clock <= clock' /\ runs' \in Nat /\ runs <= runs'
             /\ \A n \in DOMAIN reports :
                  n \in DOMAIN reports' /\ reports'[n].about = reports[n].about
  <2>1. Holds(c)
    OBVIOUS
  <2>2. CASE Start(c) \/ Ask(c) \/ Call(c) \/ LoadQuarantine(c) \/ Quarantine(c) \/ Load(c)
             \/ Pick(c) \/ Write(c) \/ Kill(c)
    BY SMTT(30), <2>2 DEF Start, Ask, Call, LoadQuarantine, Quarantine, Load, Pick, Write, Kill,
                unchangedByClerk, disk
  <2>3. CASE Draft(c)
    BY <2>3 DEF Draft, unchangedByClerk
  <2>4. CASE Save(c)
    <3>1. desk[c].stamp \notin DOMAIN reports
      BY <2>4 DEF Save, NumbersInv
    <3>2. reports' = [n \in DOMAIN reports \cup {desk[c].stamp} |->
                        IF n = desk[c].stamp THEN desk[c].report ELSE reports[n]]
      BY <2>4 DEF Save
    <3>3. \A n \in DOMAIN reports : n \in DOMAIN reports' /\ reports'[n] = reports[n]
      BY <3>1, <3>2
    <3>4. QED
      BY <2>4, <3>3 DEF Save, unchangedByClerk
  <2>5. CASE Stamp(c)
    <3>1. desk[c].stamp \in DOMAIN reports
          /\ desk[c].report.about = reports[desk[c].stamp].about
      BY <2>1, <2>5 DEF Stamp, Holds
    <3>2. reports' = IF desk[c].changed
                     THEN [reports EXCEPT ![desk[c].stamp] = desk[c].report]
                     ELSE reports
      BY <2>5 DEF Stamp
    <3>3. \A n \in DOMAIN reports : n \in DOMAIN reports' /\ reports'[n].about = reports[n].about
      BY <3>1, <3>2
    <3>4. QED
      BY <2>5, <3>3 DEF Stamp, unchangedByClerk
  <2>6. QED
    BY <1>3, <2>2, <2>3, <2>4, <2>5 DEF Clerk
<1>4. QED
  BY <1>1, <1>2, <1>3 DEF Next

LEMMA HoldsStill ==
  ASSUME WorldInv, NEW d \in Clerks, Holds(d),
         pc'[d] = pc[d], job'[d] = job[d], desk'[d] = desk[d],
         clock' \in Nat, clock <= clock', runs' \in Nat, runs <= runs',
         \A n \in DOMAIN reports : n \in DOMAIN reports' /\ reports'[n].about = reports[n].about
  PROVE  Holds(d)'
<1> DEFINE about == IF pc[d] = "saving" THEN desk[d].report.about ELSE desk[d].about
<1>1. 1..clock \subseteq 1..clock' /\ 1..runs \subseteq 1..runs'
  BY DEF WorldInv
<1>2. \A a : IsAbout(d, a) => IsAbout(d, a)'
  BY <1>1 DEF IsAbout
<1>3. Picked(d)' = Picked(d)
  BY DEF Picked
<1>4. /\ pc[d] # "idle" => job[d] \in Commands
      /\ pc[d] = "asking" => job[d].kind \in {"coach", "heldout"}
      /\ pc[d] \in {"quarantining", "marking"} => job[d].kind = "heldout"
      /\ pc[d] = "marking" => desk[d].ids \subseteq Items
      /\ pc[d] \in {"loading", "picking", "writing"} => job[d].kind = "apply"
      /\ pc[d] = "picking" =>
           desk[d] = [stamp |-> desk[d].stamp, report |-> desk[d].report, picks |-> desk[d].picks,
                      changed |-> desk[d].changed]
  BY DEF Holds
<1>5. /\ pc[d] \in {"calling", "drafting"} => IsAbout(d, desk[d].about)
      /\ pc[d] = "saving" => desk[d].stamp \in 1..clock /\ desk[d].report \in Report
                             /\ IsAbout(d, desk[d].report.about)
  BY DEF Holds
<1>6. /\ pc[d] \in {"calling", "drafting"} => IsAbout(d, desk[d].about)'
      /\ pc[d] = "saving" => desk[d].stamp \in 1..clock' /\ desk[d].report \in Report
                             /\ IsAbout(d, desk[d].report.about)'
  BY <1>1, <1>5 DEF IsAbout
<1>7. pc[d] \in {"picking", "writing"} =>
        /\ desk[d].stamp \in DOMAIN reports' /\ desk[d].report \in Report
        /\ desk[d].report.about = reports'[desk[d].stamp].about
        /\ desk[d].picks \in Seq(1..MaxProposals)
  BY DEF Holds
<1>8. pc[d] = "writing" =>
       /\ desk[d].picks # << >> /\ Head(desk[d].picks) <= Len(desk[d].report.proposals)
       /\ Picked(d).file # Unsafe
       /\ \E t \in Texts : /\ CanApply(Picked(d), t, job[d].force)
                           /\ desk[d].after = Applied(Picked(d), t)
  BY DEF Holds
<1>9. QED
  BY <1>3, <1>4, <1>6, <1>7, <1>8 DEF Holds

LEMMA BlocksFit ==
  ASSUME clock \in Nat, clock < MaxCommands, NEW i \in 1..MaxProposals
  PROVE  /\ clock * MaxProposals + i \in Blocks \ {0}
         /\ clock * MaxProposals + i > Drawn /\ clock * MaxProposals + i <= (clock + 1) * MaxProposals
<1>1. MaxCommands \in Nat /\ MaxProposals \in Nat /\ clock + 1 \in Nat /\ clock + 1 <= MaxCommands
  BY CoachDeskAssumption
<1>2. (clock + 1) * MaxProposals = clock * MaxProposals + MaxProposals
  BY <1>1
<1> DEFINE a == clock * MaxProposals
           z == MaxCommands * MaxProposals
           u == (clock + 1) * MaxProposals
<1>3. u \in Nat /\ z \in Nat /\ u <= z
  BY <1>1, Scale
<1>4. a \in Nat /\ u = a + MaxProposals
  BY <1>1, <1>2
<1>5. Blocks = 0..z /\ Drawn = a
  BY DEF Blocks, Drawn
<1> HIDE DEF a, z, u
<1>6. a + i \in 0..z /\ a + i # 0 /\ a + i > a /\ a + i <= u
  BY <1>1, <1>3, <1>4
<1>7. QED
  BY <1>5, <1>6 DEF a, u

\* What comes of an answer.
DraftedReport(about, n, drafts) ==
  [about |-> about,
   proposals |-> [i \in 1..n |-> Validated(drafts[i], clock * MaxProposals + i)]]

LEMMA Drafted ==
  ASSUME WorldInv, clock < MaxCommands, NEW about \in 1..MaxRuns \cup Items,
         NEW n \in 0..MaxProposals, NEW drafts \in [1..n -> Answer],
         NEW R, R = DraftedReport(about, n, drafts)
  PROVE  /\ R \in Report /\ R.about = about
         /\ \A i \in DOMAIN R.proposals :
              LET p == R.proposals[i]
              IN  /\ p.block = clock * MaxProposals + i /\ i \in 1..MaxProposals /\ ~p.applied
                  /\ p.seen = << >> \/ \E f \in Files : p.seen = text[f]
<1> DEFINE s == [i \in 1..n |-> Validated(drafts[i], clock * MaxProposals + i)]
<1>1. n \in Nat /\ \A i \in 1..n : i \in 1..MaxProposals
  BY CoachDeskAssumption
<1>2. ASSUME NEW i \in 1..n
      PROVE  /\ s[i] \in Proposal /\ s[i].block = clock * MaxProposals + i /\ s[i].applied = FALSE
             /\ s[i].seen = << >> \/ \E f \in Files : s[i].seen = text[f]
  <2> DEFINE d == drafts[i]
             b == clock * MaxProposals + i
  <2>1. b \in Blocks \ {0}
    BY <1>1, BlocksFit DEF WorldInv
  <2>2. d \in Answer
    OBVIOUS
  <2>3. s[i] = Validated(d, b)
    OBVIOUS
  <2> HIDE DEF s, d, b
  <2>4. /\ s[i] \in Proposal /\ s[i].block = b /\ s[i].applied = FALSE
        /\ s[i].seen = << >> \/ \E f \in Files : s[i].seen = text[f]
    <3> DEFINE v == Validated(d, b)
    <3>1. /\ v \in Proposal /\ v.block = b /\ v.applied = FALSE
          /\ v.seen = << >> \/ \E f \in Files : v.seen = text[f]
      BY <2>1, <2>2, ValidatedIsProposal
    <3> HIDE DEF v
    <3>2. s[i] = v
      BY <2>3 DEF v
    <3>3. QED
      BY <3>1, <3>2
  <2>5. QED
    BY <2>4 DEF b
<1>3. s \in Seq(Proposal) /\ DOMAIN s = 1..n
  <2>1. DOMAIN s = 1..n /\ s = [i \in 1..n |-> s[i]]
    OBVIOUS
  <2> HIDE DEF s
  <2>2. \A i \in 1..n : s[i] \in Proposal
    BY <1>2
  <2>3. s \in [1..n -> Proposal]
    BY <2>1, <2>2
  <2>4. QED
    BY <1>1, <2>1, <2>3
<1>4. R = [about |-> about, proposals |-> s]
  BY DEF DraftedReport
<1> HIDE DEF s
<1>5. R.about = about /\ R.proposals = s /\ R \in Report
  BY <1>3, <1>4 DEF Report
<1>6. QED
  BY ZenonT(30), <1>1, <1>2, <1>3, <1>5

StampedAt(R, h) == [R EXCEPT !.proposals[h].applied = TRUE]

\* A stamp changes nothing else of a report.
LEMMA Stamped ==
  ASSUME NEW R0 \in Report, NEW h \in Nat \ {0}, h <= Len(R0.proposals)
  PROVE  /\ StampedAt(R0, h) \in Report /\ StampedAt(R0, h).about = R0.about
         /\ DOMAIN StampedAt(R0, h).proposals = DOMAIN R0.proposals /\ h \in DOMAIN R0.proposals
         /\ \A i \in DOMAIN R0.proposals \ {h} :
              StampedAt(R0, h).proposals[i] = R0.proposals[i]
         /\ LET p == StampedAt(R0, h).proposals[h]
                q == R0.proposals[h]
            IN  p = [q EXCEPT !.applied = TRUE]
                /\ p.file = q.file /\ p.block = q.block /\ p.seen = q.seen /\ p.applied = TRUE
<1> DEFINE R  == StampedAt(R0, h)
           s  == R0.proposals
           p  == [s[h] EXCEPT !.applied = TRUE]
           s1 == [s EXCEPT ![h] = p]
<1>1. s \in Seq(Proposal) /\ R0.about \in 1..MaxRuns \cup Items
      /\ R0 = [about |-> R0.about, proposals |-> s]
  BY DEF Report
<1>2. h \in DOMAIN s /\ s[h] \in Proposal /\ DOMAIN s = 1..Len(s) /\ Len(s) \in Nat
  <2> HIDE DEF s
  <2>1. QED
    BY <1>1 DEF s
<1>3. /\ p \in Proposal /\ p.file = s[h].file /\ p.block = s[h].block /\ p.seen = s[h].seen
      /\ p.applied = TRUE
  BY <1>2 DEF Proposal
<1>4. R = [about |-> R0.about, proposals |-> s1]
  <2>1. PICK r : r = [R0 EXCEPT !.proposals[h].applied = TRUE]
    OBVIOUS
  <2>2. r = [about |-> R0.about, proposals |-> s1]
    BY <1>1, <2>1
  <2>3. R = r
    BY <2>1 DEF StampedAt
  <2>4. QED
    BY <2>2, <2>3
<1> HIDE DEF p, R
<1>5. DOMAIN s1 = DOMAIN s /\ s1[h] = p /\ \A i \in DOMAIN s \ {h} : s1[i] = s[i]
  BY <1>2
<1>6. s1 = [i \in 1..Len(s) |-> s1[i]]
  BY <1>2
<1> HIDE DEF s1
<1>7. \A i \in 1..Len(s) : s1[i] \in Proposal
  <2> HIDE DEF s
  <2>1. QED
    BY <1>1, <1>2, <1>3, <1>5
<1>8. s1 \in Seq(Proposal)
  <2> DEFINE L == Len(s)
  <2>1. L \in Nat /\ s1 = [i \in 1..L |-> s1[i]] /\ \A i \in 1..L : s1[i] \in Proposal
    BY <1>2, <1>6, <1>7
  <2> HIDE DEF L, s
  <2>2. QED
    BY <2>1
<1> HIDE DEF s
<1>9. R \in Report /\ R.about = R0.about /\ R.proposals = s1
  BY <1>1, <1>4, <1>8 DEF Report
<1>10. /\ DOMAIN R.proposals = DOMAIN s /\ R.proposals[h] = p
       /\ \A i \in DOMAIN s \ {h} : R.proposals[i] = s[i]
  BY <1>5, <1>9
<1>11. p = [R0.proposals[h] EXCEPT !.applied = TRUE]
  BY DEF p, s
<1>12. QED
  BY <1>2, <1>3, <1>9, <1>10, <1>11 DEF s, R

LEMMA ClockBound ==
  ASSUME WorldInv, ClockInv
  PROVE  /\ clock <= MaxCommands
         /\ \A c \in Clerks : pc[c] \in {"asking", "calling", "drafting"} => clock < MaxCommands
<1>1. IsFiniteSet(Drafting)
  BY FS_Subset, CoachDeskAssumption DEF Drafting
<1>2. Cardinality(Drafting) \in Nat /\ (Cardinality(Drafting) = 0 <=> Drafting = {})
  BY <1>1, FS_CardinalityType, FS_EmptySet
<1>3. clock \in Nat /\ commands \in Nat /\ commands <= MaxCommands /\ MaxCommands \in Nat
      /\ clock + Cardinality(Drafting) <= commands
  BY CoachDeskAssumption DEF WorldInv, ClockInv
<1>4. clock <= MaxCommands /\ (Drafting # {} => clock < MaxCommands)
  BY <1>2, <1>3
<1>5. QED
  BY <1>4 DEF Drafting

LEMMA HoldsMoved ==
  ASSUME WorldInv, ClockInv, NEW c \in Clerks, Holds(c), Clerk(c)
  PROVE  Holds(c)'
<1>1. ASSUME pc'[c] = "idle"
      PROVE  Holds(c)'
  BY <1>1 DEF Holds
<1>2. ASSUME NEW step, Goto(c, step)
      PROVE  pc'[c] = step
  BY <1>2 DEF Goto, WorldInv
<1>3. ASSUME NEW value, Hold(c, value)
      PROVE  desk'[c] = value
  BY <1>3 DEF Hold, WorldInv
<1>4. CASE Start(c)
  <2>1. PICK cmd \in Commands :
          /\ job' = [job EXCEPT ![c] = cmd]
          /\ Goto(c, IF cmd.kind = "apply" THEN "loading" ELSE "asking")
    BY <1>4 DEF Start
  <2>2. job'[c] = cmd
    BY <2>1 DEF WorldInv
  <2>3. pc'[c] = IF cmd.kind = "apply" THEN "loading" ELSE "asking"
    BY <1>2, <2>1
  <2>4. cmd.kind \in {"coach", "heldout", "apply"}
    BY CommandHas
  <2>5. QED
    BY <2>2, <2>3, <2>4 DEF Holds
<1>5. CASE Ask(c)
  <2>1. CASE Done(c)
    BY <1>1, <2>1, Ends
  <2>2. CASE ~Done(c)
    <3> DEFINE about == IF job[c].kind = "coach" THEN runs ELSE job[c].item
    <3>1. Hold(c, [about |-> about]) /\ Goto(c, "calling") /\ job' = job /\ runs' = runs
          /\ ~(job[c].kind = "coach" /\ runs = 0)
      BY <1>5, <2>2 DEF Ask, unchangedByClerk
    <3>2. pc'[c] = "calling" /\ job'[c] = job[c]
      BY <1>2, <3>1
    <3>3. desk'[c].about = about
      BY <1>3, <3>1
    <3>4. job[c] \in Commands /\ job[c].kind \in {"coach", "heldout"}
      BY <1>5 DEF Ask, Holds
    <3>5. job[c].kind = "coach" => runs \in 1..runs
      BY <3>1 DEF WorldInv
    <3>6. IsAbout(c, desk[c].about)'
      BY <3>1, <3>2, <3>3, <3>4, <3>5 DEF IsAbout
    <3>7. QED
      BY <3>2, <3>4, <3>6 DEF Holds
  <2>3. QED
    BY <2>1, <2>2
<1>6. CASE Call(c)
  <2>1. pc'[c] = "drafting" /\ job' = job /\ desk' = desk /\ runs' = runs
    BY <1>2, <1>6 DEF Call, unchangedByClerk
  <2>2. IsAbout(c, desk[c].about)'
    BY <1>6, <2>1 DEF Call, Holds, IsAbout
  <2>3. QED
    BY <1>6, <2>1, <2>2 DEF Call, Holds
<1>7. CASE Draft(c)
  <2>1. PICK n \in 0..MaxProposals :
        \E drafts \in [1..n -> Answer] :
          Hold(c, [stamp |-> clock + 1, report |-> DraftedReport(desk[c].about, n, drafts)])
    BY <1>7 DEF Draft, DraftedReport
  <2>2. PICK drafts \in [1..n -> Answer] :
          Hold(c, [stamp |-> clock + 1, report |-> DraftedReport(desk[c].about, n, drafts)])
    BY <2>1
  <2> DEFINE R == DraftedReport(desk[c].about, n, drafts)
  <2>3. pc'[c] = "saving" /\ job' = job /\ runs' = runs /\ clock' = clock + 1
    BY <1>2, <1>7 DEF Draft, unchangedByClerk
  <2>4. desk'[c] = [stamp |-> clock + 1, report |-> R]
    BY <1>3, <2>2
  <2>5. job[c] \in Commands /\ IsAbout(c, desk[c].about)
    BY <1>7 DEF Draft, Holds
  <2>6. desk[c].about \in 1..MaxRuns \cup Items
    BY <2>5, CommandHas, CoachDeskAssumption DEF IsAbout, WorldInv
  <2>7. clock < MaxCommands
    BY <1>7, ClockBound DEF Draft
  <2>8. R \in Report /\ R.about = desk[c].about
    <3>1. R = DraftedReport(desk[c].about, n, drafts)
      OBVIOUS
    <3> DEFINE a == desk[c].about
    <3>2. a \in 1..MaxRuns \cup Items
      BY <2>6
    <3> HIDE DEF R, a
    <3>3. R = DraftedReport(a, n, drafts)
      BY <3>1 DEF a
    <3>4. DraftedReport(a, n, drafts) \in Report /\ DraftedReport(a, n, drafts).about = a
      BY <2>7, <3>2, Drafted
    <3>5. R \in Report /\ R.about = a
      BY <3>3, <3>4
    <3>6. QED
      BY <3>5 DEF a
  <2>9. clock + 1 \in 1..clock'
    BY <2>3 DEF WorldInv
  <2> HIDE DEF R
  <2>10. desk'[c].stamp = clock + 1 /\ desk'[c].report = R
    BY <2>4
  <2>11. IsAbout(c, desk[c].report.about)'
    BY <2>3, <2>5, <2>8, <2>10 DEF IsAbout
  <2>12. QED
    BY <2>3, <2>5, <2>8, <2>9, <2>10, <2>11 DEF Holds
<1>8. CASE Save(c)
  <2>1. CASE job[c].kind = "coach"
    BY <1>1, <1>8, <2>1, Ends DEF Save
  <2>2. CASE job[c].kind # "coach"
    <3>1. pc'[c] = "quarantining" /\ job' = job /\ desk' = desk
      BY <1>2, <1>8, <2>2 DEF Save
    <3>2. job[c] \in Commands /\ job[c].kind = "heldout"
      BY <1>8, <2>2 DEF Save, Holds, IsAbout
    <3>3. QED
      BY <3>1, <3>2 DEF Holds
  <2>3. QED
    BY <2>1, <2>2
<1>9. CASE LoadQuarantine(c)
  <2>1. pc'[c] = "marking" /\ job' = job
    BY <1>2, <1>9 DEF LoadQuarantine
  <2>2. desk'[c].ids = quarantine
    BY <1>3, <1>9 DEF LoadQuarantine
  <2>3. job[c] \in Commands /\ job[c].kind = "heldout"
    BY <1>9 DEF LoadQuarantine, Holds
  <2>4. quarantine \subseteq Items
    BY DEF WorldInv
  <2>5. QED
    BY <2>1, <2>2, <2>3, <2>4 DEF Holds
<1>10. CASE Quarantine(c)
  BY <1>1, <1>10, Ends DEF Quarantine
<1>11. CASE Load(c)
  <2>1. CASE reports = << >>
    BY <1>1, <1>11, <2>1, Ends DEF Load
  <2>2. CASE reports # << >>
    <3>1. pc'[c] = "picking" /\ job' = job /\ reports' = reports
      BY <1>2, <1>11, <2>2 DEF Load
    <3>2. desk'[c] = [stamp |-> Latest, report |-> reports[Latest], picks |-> job[c].picks,
                      changed |-> FALSE]
      BY <1>3, <1>11, <2>2 DEF Load
    <3>3. job[c] \in Commands /\ job[c].kind = "apply"
      BY <1>11 DEF Load, Holds
    <3>4. job[c].picks \in Seq(1..MaxProposals)
      BY <3>3, CommandHas
    <3>5. Latest \in DOMAIN reports /\ reports[Latest] \in Report
      BY <2>2, LatestIsOne DEF WorldInv
    <3>6. QED
      BY <3>1, <3>2, <3>3, <3>4, <3>5 DEF Holds
  <2>3. QED
    BY <2>1, <2>2
<1>12. CASE Pick(c)
  <2>1. /\ job' = job /\ reports' = reports /\ pc[c] = "picking" /\ desk[c].picks # << >>
    BY <1>12 DEF Pick
  <2>2. /\ job[c] \in Commands /\ job[c].kind = "apply"
        /\ desk[c].stamp \in DOMAIN reports /\ desk[c].report \in Report
        /\ desk[c].report.about = reports[desk[c].stamp].about
        /\ desk[c].picks \in Seq(1..MaxProposals)
        /\ desk[c] = [stamp |-> desk[c].stamp, report |-> desk[c].report,
                      picks |-> desk[c].picks, changed |-> desk[c].changed]
    BY <2>1 DEF Holds
  <2>3. Tail(desk[c].picks) \in Seq(1..MaxProposals)
    BY <2>1, <2>2, PickedIsProposal
  <2> DEFINE doable == /\ Wanted(c) /\ Picked(c).file # Unsafe
                       /\ CanApply(Picked(c), text[Picked(c).file], job[c].force)
  <2>4. CASE doable
    <3> DEFINE u == Applied(Picked(c), text[Picked(c).file])
    <3>1. Hold(c, [stamp |-> desk[c].stamp, report |-> desk[c].report,
                   picks |-> desk[c].picks, changed |-> desk[c].changed, after |-> u])
          /\ Goto(c, "writing")
      BY <1>12, <2>4 DEF Pick
    <3>2. desk'[c] = [stamp |-> desk[c].stamp, report |-> desk[c].report,
                      picks |-> desk[c].picks, changed |-> desk[c].changed, after |-> u]
          /\ pc'[c] = "writing"
      BY <1>2, <1>3, <3>1
    <3>3. Head(desk[c].picks) <= Len(desk[c].report.proposals)
      BY <2>4 DEF Wanted
    <3>4. Picked(c) \in Proposal
      BY <2>1, <2>2, <3>3, PickedIsProposal
    <3>5. text[Picked(c).file] \in Texts
      BY <2>4, <3>4 DEF Proposal, WorldInv
    <3>6. /\ Picked(c).file # Unsafe
          /\ \E t \in Texts : CanApply(Picked(c), t, job[c].force) /\ u = Applied(Picked(c), t)
      BY <2>4, <3>5
    <3> HIDE DEF u
    <3>7. /\ desk'[c].stamp = desk[c].stamp /\ desk'[c].report = desk[c].report
          /\ desk'[c].picks = desk[c].picks /\ desk'[c].after = u
      BY <3>2
    <3>8. Picked(c)' = Picked(c) /\ job'[c] = job[c]
      BY <2>1, <3>7 DEF Picked
    <3>9. QED
      BY <2>1, <2>2, <3>2, <3>3, <3>6, <3>7, <3>8 DEF Holds
  <2>5. CASE ~doable
    <3>1. Hold(c, [desk[c] EXCEPT !.picks = Tail(@)]) /\ pc' = pc
      BY <1>12, <2>5 DEF Pick
    <3>2. desk'[c] = [desk[c] EXCEPT !.picks = Tail(@)]
      BY <1>3, <3>1
    <3>3. desk'[c] = [stamp |-> desk[c].stamp, report |-> desk[c].report,
                      picks |-> Tail(desk[c].picks), changed |-> desk[c].changed]
      BY <2>2, <3>2
    <3>4. QED
      BY <2>1, <2>2, <2>3, <3>1, <3>3 DEF Holds
  <2>6. QED
    BY <2>4, <2>5
<1>13. CASE Write(c)
  <2> DEFINE h == Head(desk[c].picks)
             R == [desk[c].report EXCEPT !.proposals[h].applied = TRUE]
  <2>1. /\ job' = job /\ reports' = reports /\ pc[c] = "writing" /\ pc'[c] = "picking"
    BY <1>2, <1>13 DEF Write
  <2>2. desk'[c] = [stamp |-> desk[c].stamp, changed |-> TRUE, picks |-> Tail(desk[c].picks),
                    report |-> R]
    BY <1>3, <1>13 DEF Write
  <2>3. /\ job[c] \in Commands /\ job[c].kind = "apply"
        /\ desk[c].stamp \in DOMAIN reports /\ desk[c].report \in Report
        /\ desk[c].report.about = reports[desk[c].stamp].about
        /\ desk[c].picks \in Seq(1..MaxProposals) /\ desk[c].picks # << >>
        /\ Head(desk[c].picks) <= Len(desk[c].report.proposals)
    BY <2>1 DEF Holds
  <2>4. Tail(desk[c].picks) \in Seq(1..MaxProposals)
    BY <2>3, PickedIsProposal
  <2>5. R \in Report /\ R.about = desk[c].report.about
    <3>1. R = StampedAt(desk[c].report, h)
      BY DEF StampedAt
    <3>2. h \in 1..MaxProposals
      BY <2>3, PickedIsProposal
    <3>3. h \in Nat \ {0} /\ h <= Len(desk[c].report.proposals)
      BY <2>3, <3>2, CoachDeskAssumption
    <3> HIDE DEF R, h
    <3>4. QED
      BY <2>3, <3>1, <3>3, Stamped
  <2> HIDE DEF R
  <2>6. QED
    BY <2>1, <2>2, <2>3, <2>4, <2>5 DEF Holds
<1>14. CASE Stamp(c) \/ Kill(c)
  BY <1>1, <1>14, Ends DEF Stamp, Kill
<1>15. QED
  BY <1>4, <1>5, <1>6, <1>7, <1>8, <1>9, <1>10, <1>11, <1>12, <1>13, <1>14 DEF Clerk

LEMMA HoldsStep ==
  ASSUME WorldInv, \A d \in Clerks : Holds(d), NumbersInv, ClockInv, Next
  PROVE  \A d \in Clerks : Holds(d)'
<1>1. /\ clock' \in Nat /\ clock <= clock' /\ runs' \in Nat /\ runs <= runs'
      /\ \A n \in DOMAIN reports : n \in DOMAIN reports' /\ reports'[n].about = reports[n].about
  BY ReportsStay
<1>2. ASSUME NEW d \in Clerks, pc'[d] = pc[d], job'[d] = job[d], desk'[d] = desk[d]
      PROVE  Holds(d)'
  BY <1>1, <1>2, HoldsStill
<1>3. CASE DevEval \/ \E f \in Files : HandEdit(f)
  BY <1>2, <1>3 DEF DevEval, HandEdit, local
<1>4. ASSUME NEW c \in Clerks, Clerk(c), NEW d \in Clerks
      PROVE  Holds(d)'
  <2>1. CASE d = c
    BY <1>4, <2>1, HoldsMoved
  <2>2. CASE d # c
    BY <1>2, <1>4, <2>2, Frame
  <2>3. QED
    BY <2>1, <2>2
<1>5. QED
  BY <1>3, <1>4 DEF Next

LEMMA NumbersStep ==
  ASSUME WorldInv, \A d \in Clerks : Holds(d), NumbersInv, Next
  PROVE  NumbersInv'
<1>1. \A n \in DOMAIN reports : n \in Nat /\ n <= clock
  BY DEF WorldInv
<1>2. \A d \in Clerks : pc[d] = "saving" => desk[d].stamp \in Nat /\ desk[d].stamp <= clock
  BY DEF Holds, WorldInv
<1>3. clock \in Nat
  BY DEF WorldInv
<1>4. CASE DevEval \/ \E f \in Files : HandEdit(f)
  BY <1>4 DEF NumbersInv, DevEval, HandEdit, local
<1>5. ASSUME NEW c \in Clerks, Clerk(c)
      PROVE  NumbersInv'
  <2>1. \A d \in Clerks \ {c} : pc'[d] = pc[d] /\ desk'[d] = desk[d]
    BY <1>5, Frame
  <2>2. CASE Draft(c)
    <3>1. PICK R : Hold(c, [stamp |-> clock + 1, report |-> R]) /\ reports' = reports
      BY <2>2 DEF Draft
    <3>2. desk'[c].stamp = clock + 1
      BY <3>1 DEF Hold, WorldInv
    <3>3. ASSUME NEW d \in Clerks, pc'[d] = "saving"
          PROVE  /\ desk'[d].stamp \notin DOMAIN reports'
                 /\ \A e \in Clerks : pc'[e] = "saving" /\ desk'[e].stamp = desk'[d].stamp => e = d
      <4>1. CASE d = c
        <5>1. clock + 1 \notin DOMAIN reports
          BY <1>1, <1>3
        <5>2. \A e \in Clerks \ {c} : pc'[e] = "saving" => desk'[e].stamp # clock + 1
          BY <1>2, <1>3, <2>1
        <5>3. QED
          BY <3>1, <3>2, <4>1, <5>1, <5>2
      <4>2. CASE d # c
        <5>1. pc[d] = "saving" /\ desk'[d].stamp = desk[d].stamp /\ desk'[d].stamp # desk'[c].stamp
          BY <1>2, <1>3, <2>1, <3>2, <3>3, <4>2
        <5>2. QED
          BY <2>1, <3>1, <5>1 DEF NumbersInv
      <4>3. QED
        BY <4>1, <4>2
    <3>4. QED
      BY <3>3 DEF NumbersInv
  <2>3. CASE ~Draft(c)
    <3>1. pc'[c] # "saving"
      BY <1>5, <2>3 DEF Clerk, Start, Ask, Call, Save, LoadQuarantine, Quarantine, Load, Pick,
                        Write, Stamp, Kill, Done, Goto, WorldInv
    <3>2. \A d \in Clerks : pc'[d] = "saving" => pc[d] = "saving" /\ desk'[d] = desk[d] /\ d # c
      BY <2>1, <3>1
    <3>3. CASE Save(c)
      <4>1. DOMAIN reports' = DOMAIN reports \cup {desk[c].stamp} /\ pc[c] = "saving"
        BY <3>3 DEF Save
      <4>2. QED
        BY <3>2, <4>1 DEF NumbersInv
    <3>4. CASE ~Save(c)
      <4>1. DOMAIN reports' = DOMAIN reports
        BY <1>5, <2>3, <3>4 DEF Clerk, Start, Ask, Call, LoadQuarantine, Quarantine, Load, Pick,
                                Write, Stamp, Kill, disk
      <4>2. QED
        BY <3>2, <4>1 DEF NumbersInv
    <3>5. QED
      BY <3>3, <3>4
  <2>4. QED
    BY <2>2, <2>3
<1>6. QED
  BY <1>4, <1>5 DEF Next

LEMMA ClockStep ==
  ASSUME WorldInv, ClockInv, Next
  PROVE  ClockInv'
<1> DEFINE D == Drafting
           k == Cardinality(D)
           l == Cardinality(D')
<1>1. IsFiniteSet(D) /\ IsFiniteSet(D')
  BY FS_Subset, CoachDeskAssumption DEF Drafting
<1>2. k \in Nat /\ l \in Nat
  BY <1>1, FS_CardinalityType
<1>3. clock \in Nat /\ commands \in Nat /\ clock + k <= commands
  BY DEF WorldInv, ClockInv
<1>4. D' \subseteq D => l <= k
  BY <1>1, FS_Subset
<1>5. ASSUME NEW c, D' \subseteq D \cup {c}
      PROVE  l <= k + 1
  BY <1>1, <1>5, OneMore
<1>6. ASSUME NEW c \in D, D' \subseteq D \ {c}
      PROVE  l + 1 <= k
  <2>1. IsFiniteSet(D \ {c}) /\ Cardinality(D \ {c}) = k - 1
    BY <1>1, <1>2, FS_RemoveElement
  <2>2. l <= Cardinality(D \ {c})
    BY <1>6, <2>1, FS_Subset
  <2> HIDE DEF D, k, l
  <2>3. QED
    BY <1>2, <2>1, <2>2
<1> HIDE DEF k, l
<1>7. CASE DevEval \/ \E f \in Files : HandEdit(f)
  <2>1. D' \subseteq D /\ clock' = clock /\ commands' = commands
    BY <1>7 DEF DevEval, HandEdit, local, Drafting
  <2>2. clock' + l <= commands'
    <3> HIDE DEF D
    <3>1. QED
      BY <1>2, <1>3, <1>4, <2>1
  <2>3. QED
    BY <2>2 DEF ClockInv, l
<1>8. ASSUME NEW c \in Clerks, Clerk(c)
      PROVE  ClockInv'
  <2>1. \A d \in Clerks \ {c} : pc'[d] = pc[d]
    BY <1>8, Frame
  <2>2. CASE Start(c)
    <3>1. clock' = clock /\ commands' = commands + 1
      BY <2>2 DEF Start
    <3>2. D' \subseteq D \cup {c}
      BY <2>1 DEF Drafting
    <3>3. l <= k + 1
      BY <1>5, <3>2
    <3>4. clock' + l <= commands'
      <4> HIDE DEF D
      <4>1. QED
        BY <1>2, <1>3, <3>1, <3>3
    <3>5. QED
      BY <3>4 DEF ClockInv, l
  <2>3. CASE Draft(c)
    <3>1. clock' = clock + 1 /\ commands' = commands /\ pc[c] = "drafting" /\ pc'[c] = "saving"
      BY <2>3 DEF Draft, Goto, unchangedByClerk, WorldInv
    <3>2. c \in D /\ D' \subseteq D \ {c}
      BY <2>1, <3>1 DEF Drafting
    <3>3. l + 1 <= k
      BY <1>6, <3>2
    <3>4. clock' + l <= commands'
      <4> HIDE DEF D
      <4>1. QED
        BY <1>2, <1>3, <3>1, <3>3
    <3>5. QED
      BY <3>4 DEF ClockInv, l
  <2>4. CASE ~Start(c) /\ ~Draft(c)
    <3>1. clock' = clock /\ commands' = commands
      BY <1>8, <2>4 DEF Clerk, Ask, Call, Save, LoadQuarantine, Quarantine, Load, Pick, Write,
                        Stamp, Kill, unchangedByClerk
    <3>2. pc'[c] \in {"asking", "calling", "drafting"} =>
            pc[c] \in {"asking", "calling", "drafting"}
      BY <1>8, <2>4 DEF Clerk, Ask, Call, Save, LoadQuarantine, Quarantine, Load, Pick, Write,
                        Stamp, Kill, Done, Goto, WorldInv
    <3>3. D' \subseteq D
      BY <2>1, <3>2 DEF Drafting
    <3>4. clock' + l <= commands'
      <4> HIDE DEF D
      <4>1. QED
        BY <1>2, <1>3, <1>4, <3>1, <3>3
    <3>5. QED
      BY <3>4 DEF ClockInv, l
  <2>5. QED
    BY <2>2, <2>3, <2>4
<1>9. QED
  BY <1>7, <1>8 DEF Next

LEMMA AloneStep ==
  ASSUME WorldInv, AloneInv, Next
  PROVE  AloneInv'
<1>1. CASE DevEval \/ \E f \in Files : HandEdit(f)
  BY <1>1 DEF AloneInv, DevEval, HandEdit, local, Busy
<1>2. ASSUME NEW c \in Clerks, Clerk(c)
      PROVE  AloneInv'
  <2>1. \A d \in Clerks \ {c} : pc'[d] = pc[d]
    BY <1>2, Frame
  <2>2. CASE Start(c)
    BY <2>1, <2>2 DEF Start, AloneInv, Busy
  <2>3. CASE ~Start(c)
    <3>1. overlapped' = overlapped /\ Busy(c)
      BY <1>2, <2>3 DEF Clerk, Ask, Call, Draft, Save, LoadQuarantine, Quarantine, Load, Pick,
                        Write, Stamp, Kill, unchangedByClerk, Busy
    <3>2. QED
      BY <2>1, <3>1 DEF AloneInv, Busy
  <2>4. QED
    BY <2>2, <2>3
<1>3. QED
  BY <1>1, <1>2 DEF Next

-----------------------------------------------------------------------------
(* Proposals and blocks                                                    *)

LEMMA LinesAreProposals ==
  ASSUME WorldInv, \A d \in Clerks : Holds(d)
  PROVE  /\ Kept \subseteq Report /\ Lines \subseteq Proposal
         /\ \A R \in Kept : \A i \in DOMAIN R.proposals : R.proposals[i] \in Lines
         /\ \A p \in Lines : \E R \in Kept : \E i \in DOMAIN R.proposals : p = R.proposals[i]
<1>1. ASSUME NEW R \in Kept
      PROVE  R \in Report
  <2>1. CASE \E n \in DOMAIN reports : R = reports[n]
    BY <2>1 DEF WorldInv
  <2>2. CASE \E d \in Clerks : pc[d] \in {"saving", "picking", "writing"} /\ R = desk[d].report
    BY <2>2 DEF Holds
  <2>3. QED
    BY <2>1, <2>2 DEF Kept
<1>2. ASSUME NEW R \in Kept, NEW p
      PROVE  p \in Range(R.proposals) <=> \E i \in DOMAIN R.proposals : p = R.proposals[i]
  BY DEF Range
<1>3. ASSUME NEW R \in Kept, NEW i \in DOMAIN R.proposals
      PROVE  R.proposals[i] \in Proposal /\ R.proposals[i] \in Lines
  <2>1. R.proposals \in Seq(Proposal)
    BY <1>1 DEF Report
  <2>2. R.proposals[i] \in Range(R.proposals)
    BY <1>2
  <2>3. QED
    BY <2>1, <2>2 DEF Lines
<1>4. ASSUME NEW p \in Lines
      PROVE  \E R \in Kept : \E i \in DOMAIN R.proposals : p = R.proposals[i]
  BY <1>2 DEF Lines
<1>5. QED
  BY <1>1, <1>3, <1>4

\* The proposal a clerk is at is one of those.
LEMMA PickedIsKept ==
  ASSUME WorldInv, \A d \in Clerks : Holds(d), NEW c \in Clerks,
         pc[c] \in {"picking", "writing"}, desk[c].picks # << >>,
         Head(desk[c].picks) <= Len(desk[c].report.proposals)
  PROVE  Picked(c) \in Lines
<1>1. desk[c].report \in Report /\ desk[c].picks \in Seq(1..MaxProposals)
  BY DEF Holds
<1>2. Head(desk[c].picks) \in DOMAIN desk[c].report.proposals
  BY <1>1, PickedIsProposal
<1>3. desk[c].report \in Kept
  BY DEF Kept
<1>4. QED
  BY <1>2, <1>3, LinesAreProposals DEF Picked

\* A report that is new was drafted, or has been stamped.
LEMMA KeptStep ==
  ASSUME WorldInv, \A d \in Clerks : Holds(d), NEW c \in Clerks, Clerk(c), NEW R \in Kept'
  PROVE  \/ R \in Kept
         \/ Draft(c) /\ R = desk'[c].report
         \/ Write(c) /\ R = desk'[c].report
<1>1. \A d \in Clerks \ {c} : pc'[d] = pc[d] /\ desk'[d] = desk[d]
  BY Frame
<1>2. ASSUME NEW n \in DOMAIN reports', R = reports'[n]
      PROVE  R \in Kept
  <2>1. CASE Save(c)
    <3>1. reports' = [k \in DOMAIN reports \cup {desk[c].stamp} |->
                        IF k = desk[c].stamp THEN desk[c].report ELSE reports[k]]
          /\ pc[c] = "saving"
      BY <2>1 DEF Save
    <3>2. R = desk[c].report \/ \E k \in DOMAIN reports : R = reports[k]
      BY <1>2, <3>1
    <3>3. QED
      BY <3>1, <3>2 DEF Kept
  <2>2. CASE Stamp(c)
    <3>1. pc[c] = "picking"
          /\ reports' = IF desk[c].changed
                        THEN [reports EXCEPT ![desk[c].stamp] = desk[c].report]
                        ELSE reports
      BY <2>2 DEF Stamp
    <3>2. R = desk[c].report \/ \E k \in DOMAIN reports : R = reports[k]
      BY <1>2, <3>1
    <3>3. QED
      BY <3>1, <3>2 DEF Kept
  <2>3. CASE ~Save(c) /\ ~Stamp(c)
    <3>1. reports' = reports
      BY <2>3 DEF Clerk, Start, Ask, Call, Draft, LoadQuarantine, Quarantine, Load, Pick, Write,
                  Kill, disk
    <3>2. QED
      BY <1>2, <3>1 DEF Kept
  <2>4. QED
    BY <2>1, <2>2, <2>3
<1>3. ASSUME NEW d \in Clerks, pc'[d] \in {"saving", "picking", "writing"}, R = desk'[d].report
      PROVE  R \in Kept \/ ((Draft(c) \/ Write(c)) /\ R = desk'[c].report)
  <2>1. CASE d # c
    BY <1>1, <1>3, <2>1 DEF Kept
  <2>2. CASE d = c /\ Load(c)
    <3>1. reports # << >>
      BY <1>3, <2>2, Ends DEF Load
    <3>2. Hold(c, [stamp |-> Latest, report |-> reports[Latest], picks |-> job[c].picks,
                   changed |-> FALSE])
      BY <2>2, <3>1 DEF Load
    <3>3. desk'[c].report = reports[Latest]
      BY <3>2 DEF Hold, WorldInv
    <3>4. QED
      BY <1>3, <2>2, <3>1, <3>3, LatestIsOne DEF Kept
  <2>3. CASE d = c /\ Pick(c)
    <3>1. pc[c] = "picking"
          /\ desk[c] = [stamp |-> desk[c].stamp, report |-> desk[c].report,
                        picks |-> desk[c].picks, changed |-> desk[c].changed]
      BY <2>3 DEF Pick, Holds
    <3>2. \/ \E u : desk'[c] = [stamp |-> desk[c].stamp, report |-> desk[c].report,
                                picks |-> desk[c].picks, changed |-> desk[c].changed, after |-> u]
          \/ desk'[c] = [desk[c] EXCEPT !.picks = Tail(@)]
      BY <2>3 DEF Pick, Hold, WorldInv
    <3>3. desk'[c].report = desk[c].report
      <4>1. CASE desk'[c] = [desk[c] EXCEPT !.picks = Tail(@)]
        <5>1. PICK j : j = desk[c]
          OBVIOUS
        <5>2. /\ j = [stamp |-> j.stamp, report |-> j.report, picks |-> j.picks,
                      changed |-> j.changed]
              /\ desk'[c] = [j EXCEPT !.picks = Tail(@)]
          BY <3>1, <4>1, <5>1
        <5>3. desk'[c].report = j.report
          BY <5>2
        <5>4. QED
          BY <5>1, <5>3
      <4>2. CASE \E u : desk'[c] = [stamp |-> desk[c].stamp, report |-> desk[c].report,
                                    picks |-> desk[c].picks, changed |-> desk[c].changed,
                                    after |-> u]
        BY <4>2
      <4>3. QED
        BY <3>2, <4>1, <4>2
    <3>4. QED
      BY <1>3, <2>3, <3>1, <3>3 DEF Kept
  <2>4. CASE d = c /\ ~Load(c) /\ ~Pick(c) /\ ~Draft(c) /\ ~Write(c)
    <3>1. pc'[c] \notin {"saving", "picking", "writing"}
      BY <2>4 DEF Clerk, Start, Ask, Call, Save, LoadQuarantine, Quarantine, Stamp, Kill, Done,
                  Goto, WorldInv
    <3>2. QED
      BY <1>3, <2>4, <3>1
  <2>5. QED
    BY <1>3, <2>1, <2>2, <2>3, <2>4
<1>4. QED
  BY <1>2, <1>3 DEF Kept

\* Where a proposal comes from.
LEMMA Provenance ==
  ASSUME WorldInv, \A d \in Clerks : Holds(d), NumbersInv, ClockInv, NEW c \in Clerks, Clerk(c),
         NEW p \in Lines'
  PROVE  \/ \E q \in Lines : /\ p.file = q.file /\ p.block = q.block /\ p.seen = q.seen
                             /\ p.applied => q.applied \/ (Write(c) /\ q = Picked(c))
         \/ /\ Draft(c)
            /\ \E i \in DOMAIN desk'[c].report.proposals : p = desk'[c].report.proposals[i]
<1>3. PICK R \in Kept' : \E i \in DOMAIN R.proposals : p = R.proposals[i]
  BY DEF Lines, Range
<1>4. CASE R \in Kept
  <2>1. p \in Lines
    BY <1>3, <1>4, LinesAreProposals
  <2>2. QED
    BY <2>1
<1>5. CASE Draft(c) /\ R = desk'[c].report
  BY <1>3, <1>5
<1>6. CASE Write(c) /\ R = desk'[c].report
  <2> DEFINE h == Head(desk[c].picks)
             R0 == desk[c].report
  <2>1. /\ pc[c] = "writing" /\ R0 \in Report /\ desk[c].picks \in Seq(1..MaxProposals)
        /\ desk[c].picks # << >> /\ h <= Len(R0.proposals)
    BY <1>6 DEF Write, Holds
  <2>2. R = StampedAt(R0, h)
    BY <1>6 DEF Write, Hold, WorldInv, StampedAt
  <2>3. h \in Nat \ {0}
    <3>1. h \in 1..MaxProposals
      BY <2>1, PickedIsProposal
    <3>2. QED
      BY <3>1, CoachDeskAssumption
  <2>4. R0 \in Kept /\ Picked(c) = R0.proposals[h]
    BY <2>1 DEF Kept, Picked
  <2>5. PICK i \in DOMAIN R.proposals : p = R.proposals[i]
    BY <1>3
  <2> HIDE DEF h, R0
  <2>6. /\ DOMAIN R.proposals = DOMAIN R0.proposals /\ h \in DOMAIN R0.proposals
        /\ \A k \in DOMAIN R0.proposals \ {h} : R.proposals[k] = R0.proposals[k]
        /\ R.proposals[h].file = R0.proposals[h].file
        /\ R.proposals[h].block = R0.proposals[h].block
        /\ R.proposals[h].seen = R0.proposals[h].seen
    <3>1. /\ DOMAIN StampedAt(R0, h).proposals = DOMAIN R0.proposals /\ h \in DOMAIN R0.proposals
          /\ \A k \in DOMAIN R0.proposals \ {h} :
               StampedAt(R0, h).proposals[k] = R0.proposals[k]
          /\ StampedAt(R0, h).proposals[h].file = R0.proposals[h].file
          /\ StampedAt(R0, h).proposals[h].block = R0.proposals[h].block
          /\ StampedAt(R0, h).proposals[h].seen = R0.proposals[h].seen
      BY <2>1, <2>3, Stamped
    <3>2. QED
      BY <2>2, <3>1
  <2>7. \A k \in DOMAIN R0.proposals : R0.proposals[k] \in Lines
    BY <2>4, LinesAreProposals
  <2>8. CASE i = h
    BY <1>6, <2>4, <2>5, <2>6, <2>7, <2>8
  <2>9. CASE i # h
    <3>1. p = R0.proposals[i] /\ i \in DOMAIN R0.proposals
      BY <2>5, <2>6, <2>9
    <3>2. QED
      BY <2>7, <3>1
  <2>10. QED
    BY <2>8, <2>9
<1>7. QED
  BY <1>3, <1>4, <1>5, <1>6, KeptStep

\* What a draft brings is new, and made for the files as they are.
LEMMA DraftedLines ==
  ASSUME WorldInv, \A d \in Clerks : Holds(d), ClockInv, NEW c \in Clerks, Draft(c)
  PROVE  \A i \in DOMAIN desk'[c].report.proposals :
           LET p == desk'[c].report.proposals[i]
           IN  /\ p.block > Drawn /\ p.block <= Drawn' /\ ~p.applied
               /\ p.seen = << >> \/ \E f \in Files : p.seen = text[f]
               /\ \A k \in DOMAIN desk'[c].report.proposals :
                    p.block = desk'[c].report.proposals[k].block => i = k
<1> DEFINE Drafts(n) == [1..n -> Answer]
<1>1. PICK n \in 0..MaxProposals :
        \E drafts \in Drafts(n) :
          Hold(c, [stamp |-> clock + 1, report |-> DraftedReport(desk[c].about, n, drafts)])
  BY DEF Draft, DraftedReport
<1>2. PICK drafts \in Drafts(n) :
        Hold(c, [stamp |-> clock + 1, report |-> DraftedReport(desk[c].about, n, drafts)])
  BY <1>1
<1> DEFINE R == desk'[c].report
           a == desk[c].about
<1>3. R = DraftedReport(a, n, drafts)
  BY <1>2 DEF Hold, WorldInv
<1>4. a \in 1..MaxRuns \cup Items
  <2>1. job[c] \in Commands /\ IsAbout(c, a)
    BY DEF Draft, Holds
  <2>2. QED
    BY <2>1, CommandHas, CoachDeskAssumption DEF IsAbout, WorldInv
<1>5. clock < MaxCommands /\ clock \in Nat /\ clock' = clock + 1
  BY ClockBound DEF Draft, WorldInv
<1> HIDE DEF R, a
<1>6. \A i \in DOMAIN R.proposals :
        LET p == R.proposals[i]
        IN  /\ p.block = clock * MaxProposals + i /\ i \in 1..MaxProposals /\ ~p.applied
            /\ p.seen = << >> \/ \E f \in Files : p.seen = text[f]
  BY <1>3, <1>4, <1>5, Drafted
<1>7. Drawn' = (clock + 1) * MaxProposals
  BY <1>5 DEF Drawn
<1> DEFINE m == clock * MaxProposals
<1>8. m \in Nat
  BY <1>5, CoachDeskAssumption
<1>9. ASSUME NEW i \in DOMAIN R.proposals
      PROVE  /\ R.proposals[i].block > Drawn /\ R.proposals[i].block <= Drawn'
             /\ \A k \in DOMAIN R.proposals : R.proposals[i].block = R.proposals[k].block => i = k
  <2>1. /\ R.proposals[i].block > Drawn
        /\ R.proposals[i].block <= Drawn'
    BY <1>5, <1>6, <1>7, BlocksFit
  <2>2. \A k \in DOMAIN R.proposals : R.proposals[k].block = m + k /\ k \in Nat
    BY <1>6, CoachDeskAssumption
  <2> HIDE DEF m
  <2>3. QED
    BY <1>8, <2>1, <2>2
<1>10. QED
  BY <1>6, <1>9 DEF R

LEMMA DrawnGrows ==
  ASSUME clock \in Nat, clock' \in Nat, clock <= clock'
  PROVE  Drawn \in Nat /\ Drawn' \in Nat /\ Drawn <= Drawn'
BY Scale, CoachDeskAssumption DEF Drawn

\* Bounds on the blocks of a text.
LEMMA Bounds ==
  ASSUME NEW t \in Seq(Nat), NEW a \in Nat, Upto(t, a)
  PROVE  /\ \A b \in Nat : a <= b => Upto(t, b)
         /\ Upto(Append(t, 0), a)
         /\ \A b \in Nat : b > a => ~Has(b, t) /\ Once(b, t)
         /\ \A b \in Nat \ {0} : /\ Has(b, t) <=> Has(b, Append(t, 0))
                                 /\ Once(b, t) => Once(b, Append(t, 0))
<1> DEFINE n == Len(t)
           u == Append(t, 0)
<1>1. n \in Nat /\ DOMAIN t = 1..n /\ \A i \in 1..n : t[i] \in Nat /\ t[i] <= a
  BY DEF Upto
<1>2. DOMAIN u = 1..(n + 1) /\ u[n + 1] = 0 /\ \A i \in 1..n : u[i] = t[i]
  OBVIOUS
<1> HIDE DEF n, u
<1>3. \A i \in 1..(n + 1) : i \in 1..n \/ i = n + 1
  BY <1>1
<1>4. 1..n \subseteq 1..(n + 1)
  BY <1>1
<1>5. Upto(u, a)
  BY <1>1, <1>2, <1>3 DEF Upto
<1>6. \A b \in Nat : a <= b => Upto(t, b)
  BY <1>1 DEF Upto
<1>7. \A b \in Nat : b > a => ~Has(b, t) /\ Once(b, t)
  BY <1>1 DEF Has, Once
<1>8. \A b \in Nat \ {0} : (Has(b, t) <=> Has(b, u)) /\ (Once(b, t) => Once(b, u))
  BY <1>1, <1>2, <1>3, <1>4 DEF Has, Once
<1>9. QED
  BY <1>5, <1>6, <1>7, <1>8 DEF u

\* Who changes a file.
LEMMA TextStep ==
  ASSUME WorldInv, \A d \in Clerks : Holds(d), Next, NEW f \in Files
  PROVE  \/ text'[f] = text[f]
         \/ HandEdit(f) /\ text'[f] \in {Append(text[f], 0), committed[f]}
         \/ \E c \in Clerks : Write(c) /\ Picked(c).file = f /\ text'[f] = desk[c].after
<1>1. CASE DevEval
  BY <1>1 DEF DevEval
<1>2. ASSUME NEW g \in Files, HandEdit(g)
      PROVE  \/ text'[f] = text[f]
             \/ HandEdit(f) /\ text'[f] \in {Append(text[f], 0), committed[f]}
  <2>1. PICK t \in {Append(text[g], 0), committed[g]} : text' = [text EXCEPT ![g] = t]
    BY <1>2 DEF HandEdit
  <2>2. QED
    BY <1>2, <2>1 DEF WorldInv
<1>3. ASSUME NEW c \in Clerks, Clerk(c)
      PROVE  \/ text'[f] = text[f]
             \/ Write(c) /\ Picked(c).file = f /\ text'[f] = desk[c].after
  <2>1. CASE Write(c)
    BY <2>1 DEF Write, WorldInv
  <2>2. CASE ~Write(c)
    BY <1>3, <2>2 DEF Clerk, Start, Ask, Call, Draft, Save, LoadQuarantine, Quarantine, Load,
                      Pick, Stamp, Kill, disk
  <2>3. QED
    BY <2>1, <2>2
<1>4. QED
  BY <1>1, <1>2, <1>3 DEF Next

\* Who is about to write.
LEMMA WritingStep ==
  ASSUME WorldInv, \A d \in Clerks : Holds(d), NEW c \in Clerks, Clerk(c),
         NEW d \in Clerks, pc'[d] = "writing"
  PROVE  \/ /\ d # c /\ pc[d] = "writing" /\ desk'[d] = desk[d] /\ job'[d] = job[d]
            /\ Picked(d)' = Picked(d)
         \/ /\ d = c /\ job' = job /\ text' = text /\ forced' = forced /\ touched' = touched
            /\ Picked(c)' = Picked(c) /\ Picked(c) \in Lines
            /\ text[Picked(c).file] \in Texts
            /\ CanApply(Picked(c), text[Picked(c).file], job[c].force)
            /\ desk'[c].after = Applied(Picked(c), text[Picked(c).file])
            /\ clock' = clock
<1>1. CASE d # c
  BY <1>1, Frame DEF Picked
<1>2. CASE d = c
  <2>1. Pick(c)
    BY <1>2 DEF Clerk, Start, Ask, Call, Draft, Save, LoadQuarantine, Quarantine, Load, Write,
                Stamp, Kill, Done, Goto, WorldInv
  <2>2. pc[c] = "picking" /\ desk[c].picks # << >>
    BY <2>1 DEF Pick
  <2>3. /\ Wanted(c) /\ Picked(c).file # Unsafe
        /\ CanApply(Picked(c), text[Picked(c).file], job[c].force)
        /\ desk'[c] = [stamp |-> desk[c].stamp, report |-> desk[c].report,
                       picks |-> desk[c].picks, changed |-> desk[c].changed,
                       after |-> Applied(Picked(c), text[Picked(c).file])]
    BY <1>2, <2>1, <2>2 DEF Pick, Hold, WorldInv
  <2>4. desk'[c].report = desk[c].report /\ desk'[c].picks = desk[c].picks
        /\ desk'[c].after = Applied(Picked(c), text[Picked(c).file])
    BY <2>3
  <2>5. Picked(c)' = Picked(c)
    BY <2>4 DEF Picked
  <2>6. Picked(c) \in Lines /\ Picked(c) \in Proposal
    BY <2>2, <2>3, PickedIsKept, LinesAreProposals DEF Wanted
  <2>7. text[Picked(c).file] \in Texts
    BY <2>3, <2>6 DEF Proposal, WorldInv
  <2>8. job' = job /\ text' = text /\ forced' = forced /\ touched' = touched /\ clock' = clock
    BY <2>1 DEF Pick, unchangedByClerk
  <2>9. QED
    BY <1>2, <2>3, <2>4, <2>5, <2>6, <2>7, <2>8
<1>3. QED
  BY <1>1, <1>2

LEMMA BlocksStep ==
  ASSUME WorldInv, \A d \in Clerks : Holds(d), NumbersInv, ClockInv, BlocksInv, Next
  PROVE  BlocksInv'
<1>1. Drawn \in Nat /\ Drawn' \in Nat /\ Drawn <= Drawn'
  BY ReportsStay, DrawnGrows DEF WorldInv
<1>2. \A t \in Texts : Upto(t, Drawn) => Upto(t, Drawn')
  BY <1>1, Bounds, BlocksAreNumbers
<1>3. \A f \in Files : text[f] \in Texts /\ committed[f] \in Texts
  BY DEF WorldInv
<1>4. ASSUME NEW f \in Files
      PROVE  Upto(text[f], Drawn)' /\ Upto(committed[f], 0)'
  <2>1. Upto(text[f], Drawn) /\ Upto(committed[f], 0)
    BY DEF BlocksInv
  <2>2. committed' = committed
    BY Histories
  <2>3. CASE text'[f] = text[f]
    BY <1>2, <1>3, <2>1, <2>2, <2>3 DEF Upto
  <2>4. CASE HandEdit(f) /\ text'[f] \in {Append(text[f], 0), committed[f]}
    <3>1. Upto(Append(text[f], 0), Drawn) /\ Upto(committed[f], Drawn)
      BY <1>1, <1>3, <2>1, Bounds, BlocksAreNumbers
    <3>2. Drawn' = Drawn
      BY <2>4 DEF HandEdit, Drawn
    <3>3. QED
      BY <2>1, <2>2, <2>4, <3>1, <3>2 DEF Upto
  <2>5. ASSUME NEW c \in Clerks, Write(c), text'[f] = desk[c].after
        PROVE  Upto(text[f], Drawn)' /\ Upto(committed[f], 0)'
    <3>1. Upto(desk[c].after, Drawn) /\ Drawn' = Drawn
      BY <2>5 DEF Write, BlocksInv, Drawn
    <3>2. QED
      BY <2>1, <2>2, <2>5, <3>1 DEF Upto
  <2>6. QED
    BY <2>3, <2>4, <2>5, TextStep
<1>5. CASE DevEval \/ \E f \in Files : HandEdit(f)
  <2>1. UNCHANGED <<local, reports, clock>>
    BY <1>5 DEF DevEval, HandEdit
  <2>2. Lines' = Lines /\ Drawn' = Drawn
    BY <2>1 DEF Lines, Kept, Drawn, local
  <2>3. \A c \in Clerks : pc'[c] = "writing" => Upto(desk[c].after, Drawn)'
    BY <2>1, <2>2 DEF local, BlocksInv, Upto
  <2>4. /\ \A p \in Lines' : p.block <= Drawn' /\ ~Has(p.block, p.seen)
        /\ \A p, q \in Lines' : p.block = q.block => p.seen = q.seen
    BY <2>2 DEF BlocksInv
  <2>5. QED
    BY <1>4, <2>3, <2>4 DEF BlocksInv
<1>6. ASSUME NEW c \in Clerks, Clerk(c)
      PROVE  BlocksInv'
  <2>1. ASSUME NEW d \in Clerks, pc'[d] = "writing"
        PROVE  Upto(desk[d].after, Drawn)'
    <3>1. CASE d # c /\ pc[d] = "writing" /\ desk'[d] = desk[d]
      <4>1. Upto(desk[d].after, Drawn) /\ desk[d].after \in Texts
        BY <3>1, AboutToWrite DEF BlocksInv
      <4>2. QED
        BY <1>2, <3>1, <4>1 DEF Upto
    <3>2. ASSUME Picked(c) \in Lines, text[Picked(c).file] \in Texts, d = c,
                 CanApply(Picked(c), text[Picked(c).file], job[c].force),
                 desk'[c].after = Applied(Picked(c), text[Picked(c).file]), clock' = clock
          PROVE  Upto(desk[d].after, Drawn)'
      <4> DEFINE P == Picked(c)
                 t == text[P.file]
                 u == Applied(P, t)
      <4>1. P \in Proposal /\ P.block <= Drawn
        BY <3>2, LinesAreProposals DEF BlocksInv
      <4>2. Upto(t, Drawn)
        BY <3>2, <4>1 DEF BlocksInv, CanApply, Proposal
      <4>3. \A i \in DOMAIN u : u[i] = P.block \/ Has(u[i], t)
        BY <3>2, <4>1, EditIsText
      <4> HIDE DEF P, t, u
      <4>4. Upto(u, Drawn)
        BY <4>1, <4>2, <4>3 DEF Upto, Has
      <4>5. QED
        BY <3>2, <4>4 DEF P, t, u, Upto, Drawn
    <3>3. QED
      BY <1>6, <2>1, <3>1, <3>2, WritingStep
  <2>2. ASSUME NEW p \in Lines'
        PROVE  /\ p.block <= Drawn' /\ ~Has(p.block, p.seen)
               /\ \/ \E q \in Lines : p.block = q.block /\ p.seen = q.seen
                  \/ /\ Draft(c) /\ p.block > Drawn
                     /\ \E i \in DOMAIN desk'[c].report.proposals :
                          p = desk'[c].report.proposals[i]
    <3>1. CASE \E q \in Lines : p.block = q.block /\ p.seen = q.seen
      <4>1. PICK q \in Lines : p.block = q.block /\ p.seen = q.seen
        BY <3>1
      <4>2. q.block <= Drawn /\ ~Has(q.block, q.seen) /\ q.block \in Nat
        BY LinesAreProposals, BlocksAreNumbers DEF BlocksInv, Proposal
      <4>3. p.block <= Drawn'
        BY <1>1, <4>1, <4>2
      <4>4. QED
        BY <4>1, <4>2, <4>3
    <3>2. ASSUME Draft(c), NEW i \in DOMAIN desk'[c].report.proposals,
                 p = desk'[c].report.proposals[i]
          PROVE  p.block <= Drawn' /\ ~Has(p.block, p.seen) /\ p.block > Drawn
      <4>1. /\ p.block > Drawn /\ p.block <= Drawn'
            /\ p.seen = << >> \/ \E f \in Files : p.seen = text[f]
        BY <3>2, DraftedLines
      <4>2. desk'[c].report \in Kept'
        <5>1. pc'[c] = "saving"
          BY <3>2 DEF Draft, Goto, WorldInv
        <5>2. QED
          BY <5>1 DEF Kept
      <4>3. ~Has(p.block, p.seen)
        <5>1. Upto(p.seen, Drawn)
          BY <4>1 DEF BlocksInv, Upto
        <5>2. \A j \in DOMAIN p.seen : p.seen[j] \in Nat
          BY <1>3, <4>1, BlocksAreNumbers
        <5>3. \A j \in DOMAIN p.seen : p.seen[j] # p.block
          BY <1>1, <4>1, <5>1, <5>2 DEF Upto
        <5>4. QED
          BY <5>3 DEF Has
      <4>4. QED
        BY <4>1, <4>3
    <3>3. QED
      BY <1>6, <3>1, <3>2, Provenance
  <2>3. ASSUME NEW p \in Lines', NEW q \in Lines', p.block = q.block
        PROVE  p.seen = q.seen
    <3>1. \A r \in Lines : r.block <= Drawn /\ r.block \in Nat
      BY LinesAreProposals, BlocksAreNumbers DEF BlocksInv, Proposal
    <3>2. CASE \E r \in Lines : p.block = r.block
      <4>1. ~(q.block > Drawn)
        BY <1>1, <2>3, <3>1, <3>2
      <4>2. ~(p.block > Drawn)
        BY <2>3, <4>1
      <4>3. PICK r, s \in Lines : /\ p.block = r.block /\ p.seen = r.seen
                                  /\ q.block = s.block /\ q.seen = s.seen
        BY <2>2, <4>1, <4>2
      <4>4. QED
        BY <2>3, <4>3 DEF BlocksInv
    <3>3. CASE ~\E r \in Lines : p.block = r.block
      <4>1. /\ Draft(c)
            /\ \E i \in DOMAIN desk'[c].report.proposals : p = desk'[c].report.proposals[i]
            /\ \E i \in DOMAIN desk'[c].report.proposals : q = desk'[c].report.proposals[i]
        BY <2>2, <2>3, <3>3
      <4>2. PICK i, j \in DOMAIN desk'[c].report.proposals :
              p = desk'[c].report.proposals[i] /\ q = desk'[c].report.proposals[j]
        BY <4>1
      <4>3. i = j
        BY <2>3, <4>1, <4>2, DraftedLines
      <4>4. QED
        BY <4>2, <4>3
    <3>4. QED
      BY <3>2, <3>3
  <2>4. QED
    BY <1>4, <2>1, <2>2, <2>3 DEF BlocksInv
<1>7. QED
  BY <1>5, <1>6 DEF Next

LEMMA OnceStep ==
  ASSUME WorldInv, \A d \in Clerks : Holds(d), NumbersInv, ClockInv, BlocksInv, OnceInv, Next
  PROVE  OnceInv'
<1>1. forced \subseteq forced'
  BY Histories
<1>2. \A f \in Files : text[f] \in Texts /\ committed[f] \in Texts
  BY DEF WorldInv
<1>3. Drawn \in Nat
  BY DrawnGrows, ReportsStay DEF WorldInv
\* A file keeps a block once, if every text about to be written has it once.
<1>4. ASSUME NEW b \in Nat \ {0}, NEW f \in Files, Once(b, text[f]), b \notin forced',
             \A c \in Clerks : Write(c) /\ (job[c].force => Picked(c).block # b)
                                 => Once(b, desk[c].after)
      PROVE  Once(b, text[f])'
  <2>1. CASE text'[f] = text[f]
    BY <1>4, <2>1 DEF Once
  <2>2. CASE HandEdit(f) /\ text'[f] \in {Append(text[f], 0), committed[f]}
    <3>1. Upto(text[f], Drawn) /\ Upto(committed[f], 0)
      BY DEF BlocksInv
    <3>2. Once(b, Append(text[f], 0)) /\ Once(b, committed[f])
      BY <1>2, <1>3, <1>4, <3>1, Bounds, BlocksAreNumbers
    <3>3. QED
      BY <2>2, <3>2 DEF Once
  <2>3. ASSUME NEW c \in Clerks, Write(c), text'[f] = desk[c].after
        PROVE  Once(b, text[f])'
    <3>1. job[c].force => Picked(c).block # b
      <4>1. forced' = IF job[c].force THEN forced \cup {Picked(c).block} ELSE forced
        BY <2>3 DEF Write
      <4>2. QED
        BY <1>4, <4>1
    <3>2. Once(b, desk[c].after)
      BY <1>4, <2>3, <3>1
    <3>3. QED
      BY <2>3, <3>2 DEF Once
  <2>4. QED
    BY <2>1, <2>2, <2>3, TextStep
<1>5. CASE DevEval \/ \E f \in Files : HandEdit(f)
  <2>1. UNCHANGED <<local, reports, forced>>
    BY <1>5 DEF DevEval, HandEdit, hist
  <2>2. Lines' = Lines
    BY <2>1 DEF Lines, Kept, local
  <2>3. ASSUME NEW p \in Lines, Guarded(p)
        PROVE  /\ \A f \in Files : Once(p.block, text[f])'
               /\ \A c \in Clerks :
                    pc[c] = "writing" /\ (job[c].force => Picked(c).block # p.block)
                      => Once(p.block, desk[c].after)
    <3>1. p.block \in Nat \ {0}
      BY LinesAreProposals, BlocksAreNumbers DEF Proposal
    <3>2. \A c \in Clerks : ~Write(c)
      BY <1>5, <2>1 DEF Write, Goto, local, WorldInv
    <3>3. QED
      BY <1>4, <2>1, <2>3, <3>1, <3>2 DEF OnceInv, Guarded
  <2>4. QED
    BY <2>1, <2>2, <2>3 DEF OnceInv, Guarded, local, Picked, Once
<1>6. ASSUME NEW c \in Clerks, Clerk(c)
      PROVE  OnceInv'
  <2>1. ASSUME NEW p \in Lines', p.seen # << >>, p.block \notin forced'
        PROVE  /\ \A f \in Files : Once(p.block, text[f])'
               /\ \A d \in Clerks :
                    pc'[d] = "writing" /\ (job'[d].force => Picked(d)'.block # p.block)
                      => Once(p.block, desk[d].after)'
    <3>1. CASE \E q \in Lines : p.block = q.block /\ p.seen = q.seen
      <4>1. PICK q \in Lines : p.block = q.block /\ p.seen = q.seen
        BY <3>1
      <4>2. q.block \in Nat \ {0} /\ Guarded(q)
        BY <1>1, <2>1, <4>1, LinesAreProposals, BlocksAreNumbers DEF Proposal, Guarded
      <4>3. /\ \A f \in Files : Once(q.block, text[f])
            /\ \A d \in Clerks :
                 pc[d] = "writing" /\ (job[d].force => Picked(d).block # q.block)
                   => Once(q.block, desk[d].after)
        BY <4>2 DEF OnceInv
      <4>4. \A f \in Files : Once(p.block, text[f])'
        BY <1>4, <2>1, <4>1, <4>2, <4>3 DEF Write
      <4>5. ASSUME NEW d \in Clerks, pc'[d] = "writing",
                   job'[d].force => Picked(d)'.block # p.block
            PROVE  Once(p.block, desk[d].after)'
        <5>1. ASSUME d # c, pc[d] = "writing", desk'[d] = desk[d], job'[d] = job[d],
                     Picked(d)' = Picked(d)
              PROVE  Once(p.block, desk[d].after)'
          BY <4>1, <4>3, <4>5, <5>1 DEF Once
        <5>2. ASSUME d = c, job' = job, Picked(c)' = Picked(c), Picked(c) \in Lines,
                     text[Picked(c).file] \in Texts,
                     CanApply(Picked(c), text[Picked(c).file], job[c].force),
                     desk'[c].after = Applied(Picked(c), text[Picked(c).file])
              PROVE  Once(p.block, desk[d].after)'
          <6> DEFINE P == Picked(c)
                     t == text[P.file]
                     u == Applied(P, t)
          <6>1. P \in Proposal /\ P.file \in Files
            BY <5>2, LinesAreProposals DEF CanApply, Proposal
          <6>2. /\ ~Has(P.block, t) => Once(P.block, u)
                /\ \A b \in Nat \ {P.block} : Once(b, t) => Once(b, u)
            BY <5>2, <6>1, EditIsText
          <6>3. CASE P.block # q.block
            <7>1. Once(q.block, t)
              BY <4>3, <6>1
            <7> HIDE DEF P, t, u
            <7>2. Once(q.block, u)
              BY <4>2, <6>2, <6>3, <7>1
            <7>3. QED
              BY <4>1, <5>2, <7>2 DEF P, t, u, Once
          <6>4. CASE P.block = q.block
            <7>1. ~job[c].force
              BY <4>1, <4>5, <5>2, <6>4
            <7>2. P.seen = q.seen /\ P.seen # << >>
              BY <2>1, <4>1, <5>2, <6>4 DEF BlocksInv
            <7>3. t = P.seen
              BY <5>2, <7>1, <7>2 DEF CanApply
            <7>4. ~Has(P.block, P.seen)
              BY <5>2 DEF BlocksInv
            <7>5. Once(P.block, u)
              BY <6>2, <7>3, <7>4
            <7>6. QED
              BY <4>1, <5>2, <6>4, <7>5 DEF Once
          <6>5. QED
            BY <6>3, <6>4
        <5>3. QED
          BY <1>6, <4>5, <5>1, <5>2, WritingStep
      <4>6. QED
        BY <4>4, <4>5
    <3>2. ASSUME Draft(c), NEW i \in DOMAIN desk'[c].report.proposals,
                 p = desk'[c].report.proposals[i]
          PROVE  /\ \A f \in Files : Once(p.block, text[f])'
                 /\ \A d \in Clerks : pc'[d] = "writing" => Once(p.block, desk[d].after)'
      <4>1. p.block > Drawn
        BY <3>2, DraftedLines
      <4>2. p.block \in Nat
        <5>1. p \in Proposal
          <6>1. WorldInv' /\ (\A d \in Clerks : Holds(d)')
            BY WorldStep, HoldsStep
          <6>2. pc'[c] = "saving"
            BY <3>2 DEF Draft, Goto, WorldInv
          <6>3. desk'[c].report \in Report
            BY <6>1, <6>2 DEF Holds
          <6>4. desk'[c].report.proposals \in Seq(Proposal)
            BY <6>3 DEF Report
          <6>5. QED
            BY <3>2, <6>4
        <5>2. QED
          BY <5>1, BlocksAreNumbers DEF Proposal
      <4>3. text' = text
        BY <3>2 DEF Draft
      <4>4. \A f \in Files : Once(p.block, text[f])
        BY <1>2, <1>3, <4>1, <4>2, Bounds, BlocksAreNumbers DEF BlocksInv
      <4>5. ASSUME NEW d \in Clerks, pc'[d] = "writing"
            PROVE  Once(p.block, desk[d].after)'
        <5>1. d # c /\ pc[d] = "writing" /\ desk'[d] = desk[d]
          BY <1>6, <3>2, <4>5, Frame DEF Draft, Goto, WorldInv
        <5>2. Upto(desk[d].after, Drawn) /\ desk[d].after \in Texts
          BY <5>1, AboutToWrite DEF BlocksInv
        <5>3. Once(p.block, desk[d].after)
          BY <1>3, <4>1, <4>2, <5>2, Bounds, BlocksAreNumbers
        <5>4. QED
          BY <5>1, <5>3 DEF Once
      <4>6. QED
        BY <4>3, <4>4, <4>5 DEF Once
    <3>3. QED
      BY <1>6, <3>1, <3>2, Provenance
  <2>2. QED
    BY <2>1 DEF OnceInv, Guarded
<1>7. QED
  BY <1>5, <1>6 DEF Next

\* As long as commands wait for each other, who moves was the only one under way.
LEMMA Alone ==
  ASSUME AloneInv, NEW c \in Clerks, Clerk(c), ~overlapped'
  PROVE  ~overlapped /\ \A d \in Clerks \ {c} : ~Busy(d)
<1>1. CASE Start(c)
  BY <1>1 DEF Start
<1>2. CASE ~Start(c)
  <2>1. overlapped' = overlapped /\ Busy(c)
    BY <1>2 DEF Clerk, Ask, Call, Draft, Save, LoadQuarantine, Quarantine, Load, Pick,
                Write, Stamp, Kill, unchangedByClerk, Busy
  <2>2. QED
    BY <2>1 DEF AloneInv
<1>3. QED
  BY <1>1, <1>2

LEMMA StampsStep ==
  ASSUME WorldInv, \A d \in Clerks : Holds(d), NumbersInv, ClockInv, BlocksInv, AloneInv, StampsInv,
         Next
  PROVE  StampsInv'
<1> SUFFICES ASSUME ~overlapped'
             PROVE  /\ \A p \in Lines' :
                         p.applied => /\ p.file # Unsafe
                                      /\ Gone(p)' \/ Has(p.block, text[p.file])'
                    /\ \A c \in Clerks : pc'[c] = "writing" =>
                         \/ Picked(c)'.file \in touched'
                         \/ /\ CanApply(Picked(c)', text'[Picked(c)'.file], job'[c].force)
                            /\ desk'[c].after = Applied(Picked(c)', text'[Picked(c)'.file])
  <2>1. \A c \in Clerks :
          CanApply(Picked(c), text[Picked(c).file], job[c].force)'
            <=> CanApply(Picked(c)', text'[Picked(c)'.file], job'[c].force)
    BY DEF CanApply, Fits, Anchored
  <2>2. \A c \in Clerks :
          Applied(Picked(c), text[Picked(c).file])'
            = Applied(Picked(c)', text'[Picked(c)'.file])
    BY DEF Applied
  <2>3. QED
    BY <2>1, <2>2 DEF StampsInv
<1>1. ~overlapped
  BY Alone DEF Next, DevEval, HandEdit
<1>2. touched \subseteq touched' /\ replaced \subseteq replaced'
  BY Histories
<1>3. \A p \in Lines : p \in Proposal /\ p.block \in Nat \ {0}
  BY LinesAreProposals, BlocksAreNumbers DEF Proposal
\* What is in a file stays there until somebody edits it, or an edit takes its place.
<1>4. ASSUME NEW b \in Nat, NEW f \in Files, Has(b, text[f])
      PROVE  f \in touched' \/ b \in replaced' \/ Has(b, text[f])'
  <2>1. CASE text'[f] = text[f]
    BY <1>4, <2>1 DEF Has
  <2>2. CASE HandEdit(f)
    BY <2>2 DEF HandEdit
  <2>3. ASSUME NEW c \in Clerks, Write(c), Picked(c).file = f, text'[f] = desk[c].after
        PROVE  f \in touched' \/ b \in replaced' \/ Has(b, text[f])'
    <3> DEFINE P == Picked(c)
               t == text[f]
               u == Applied(P, t)
    <3>1. pc[c] = "writing"
      BY <2>3 DEF Write
    <3>2. P.file \in touched \/ (CanApply(P, t, job[c].force) /\ desk[c].after = u)
      BY <1>1, <2>3, <3>1 DEF StampsInv
    <3>3. CASE f \in touched
      BY <1>2, <3>3
    <3>4. CASE CanApply(P, t, job[c].force) /\ desk[c].after = u
      <4>1. P \in Proposal /\ t \in Texts
        BY <3>1, AboutToWrite DEF WorldInv
      <4>2. /\ Has(P.block, u)
            /\ \A a \in Nat \ {P.block} :
                 Has(a, t) => Has(a, u) \/ (P.edit = "replace" /\ P.anchor = a)
        BY <3>4, <4>1, EditIsText
      <4>3. P.edit = "replace" => P.anchor \in replaced'
        BY <2>3 DEF Write
      <4> HIDE DEF P, t, u
      <4>4. Has(b, u) \/ b \in replaced'
        <5>1. Has(b, t)
          BY <1>4 DEF t
        <5>2. QED
          BY <4>2, <4>3, <5>1
      <4>5. QED
        BY <2>3, <3>4, <4>4 DEF Has, u
    <3>5. QED
      BY <2>3, <3>2, <3>3, <3>4
  <2>4. QED
    BY <2>1, <2>2, <2>3, TextStep
<1>5. ASSUME NEW p \in Lines, p.applied
      PROVE  /\ p.file # Unsafe
             /\ Gone(p)' \/ Has(p.block, text[p.file])'
  <2>1. p.file # Unsafe /\ (Gone(p) \/ Has(p.block, text[p.file]))
    BY <1>1, <1>5 DEF StampsInv
  <2>2. p.file \in Files
    BY <1>3, <2>1 DEF Proposal
  <2>3. QED
    BY <1>2, <1>3, <1>4, <2>1, <2>2 DEF Gone
<1>6. CASE DevEval \/ \E f \in Files : HandEdit(f)
  <2>1. UNCHANGED <<local, reports>>
    BY <1>6 DEF DevEval, HandEdit
  <2>2. Lines' = Lines
    BY <2>1 DEF Lines, Kept, local
  <2>3. ASSUME NEW c \in Clerks, pc[c] = "writing"
        PROVE  \/ Picked(c).file \in touched'
               \/ /\ CanApply(Picked(c), text'[Picked(c).file], job[c].force)
                  /\ desk[c].after = Applied(Picked(c), text'[Picked(c).file])
    <3>1. Picked(c).file \in Files
      BY <2>3, AboutToWrite
    <3>2. text'[Picked(c).file] = text[Picked(c).file] \/ Picked(c).file \in touched'
      BY <1>6, <3>1 DEF DevEval, HandEdit, WorldInv
    <3>3. \/ Picked(c).file \in touched
          \/ /\ CanApply(Picked(c), text[Picked(c).file], job[c].force)
             /\ desk[c].after = Applied(Picked(c), text[Picked(c).file])
      BY <1>1, <2>3 DEF StampsInv
    <3>4. QED
      BY <1>2, <3>2, <3>3
  <2>4. QED
    BY <1>5, <2>1, <2>2, <2>3 DEF local, Picked
<1>7. ASSUME NEW c \in Clerks, Clerk(c)
      PROVE  /\ \A p \in Lines' :
                  p.applied => /\ p.file # Unsafe
                               /\ Gone(p)' \/ Has(p.block, text[p.file])'
             /\ \A d \in Clerks : pc'[d] = "writing" =>
                  \/ Picked(d)'.file \in touched'
                  \/ /\ CanApply(Picked(d)', text'[Picked(d)'.file], job'[d].force)
                     /\ desk'[d].after = Applied(Picked(d)', text'[Picked(d)'.file])
  <2>1. ASSUME NEW p \in Lines', p.applied
        PROVE  /\ p.file # Unsafe
               /\ Gone(p)' \/ Has(p.block, text[p.file])'
    <3>1. ASSUME NEW q \in Lines, p.file = q.file, p.block = q.block, q.applied
          PROVE  /\ p.file # Unsafe
                 /\ Gone(p)' \/ Has(p.block, text[p.file])'
      BY <1>5, <3>1 DEF Has, Gone
    <3>2. ASSUME NEW q \in Lines, p.file = q.file, p.block = q.block, Write(c), q = Picked(c)
          PROVE  /\ p.file # Unsafe
                 /\ Gone(p)' \/ Has(p.block, text[p.file])'
      <4>1. pc[c] = "writing" /\ text'[q.file] = desk[c].after /\ q.file \in Files
        <5>1. pc[c] = "writing"
          BY <3>2 DEF Write
        <5>2. q.file \in Files
          BY <3>2, <5>1, AboutToWrite
        <5>3. QED
          BY <3>2, <5>1, <5>2 DEF Write, WorldInv
      <4>2. PICK t \in Texts : CanApply(q, t, job[c].force) /\ desk[c].after = Applied(q, t)
        BY <3>2, <4>1, AboutToWrite
      <4>3. Has(q.block, desk[c].after)
        BY <1>3, <4>2, EditIsText
      <4>4. QED
        BY <3>2, <4>1, <4>3, CoachDeskAssumption DEF Has
    <3>3. ~(/\ Draft(c)
            /\ \E i \in DOMAIN desk'[c].report.proposals : p = desk'[c].report.proposals[i])
      BY <2>1, DraftedLines
    <3>4. QED
      BY <1>7, <2>1, <3>1, <3>2, <3>3, Provenance
  <2>2. ASSUME NEW d \in Clerks, pc'[d] = "writing"
        PROVE  /\ CanApply(Picked(d)', text'[Picked(d)'.file], job'[d].force)
               /\ desk'[d].after = Applied(Picked(d)', text'[Picked(d)'.file])
    <3>1. ~(d # c /\ pc[d] = "writing")
      BY <1>7, Alone DEF Busy
    <3>2. QED
      BY <1>7, <2>2, <3>1, WritingStep
  <2>3. QED
    BY <2>1, <2>2
<1>8. QED
  BY <1>6, <1>7 DEF Next

-----------------------------------------------------------------------------
(* Stamps that are still to come                                           *)

\* What a clerk that applies has in its hands after its step.
LEMMA DeskStep ==
  ASSUME WorldInv, NEW c \in Clerks, Holds(c), Clerk(c), pc'[c] \in {"picking", "writing"}
  PROVE  /\ reports' = reports
         /\ \/ /\ Load(c) /\ reports # << >> /\ pc[c] = "loading" /\ pc'[c] = "picking"
               /\ text' = text
               /\ desk'[c].stamp = Latest /\ desk'[c].report = reports[Latest]
            \/ /\ Pick(c) /\ pc[c] = "picking" /\ text' = text
               /\ desk'[c].stamp = desk[c].stamp /\ desk'[c].report = desk[c].report
               /\ pc'[c] = "picking" => desk'[c].changed = desk[c].changed
            \/ /\ Write(c) /\ pc[c] = "writing" /\ pc'[c] = "picking"
               /\ text' = [text EXCEPT ![Picked(c).file] = desk[c].after]
               /\ desk'[c].stamp = desk[c].stamp /\ desk'[c].changed = TRUE
               /\ desk'[c].report = StampedAt(desk[c].report, Head(desk[c].picks))
<1>1. Load(c) \/ Pick(c) \/ Write(c)
  BY DEF Clerk, Start, Ask, Call, Draft, Save, LoadQuarantine, Quarantine, Stamp, Kill, Done,
         Goto, WorldInv
<1>2. CASE Load(c)
  <2>1. pc[c] = "loading" /\ text' = text /\ reports' = reports
    BY <1>2 DEF Load
  <2>2. reports # << >>
    BY <1>2, Ends DEF Load
  <2>3. Hold(c, [stamp |-> Latest, report |-> reports[Latest], picks |-> job[c].picks,
                 changed |-> FALSE])
        /\ Goto(c, "picking")
    BY <1>2, <2>2 DEF Load
  <2>4. pc'[c] = "picking" /\ desk'[c].stamp = Latest /\ desk'[c].report = reports[Latest]
    BY <2>3 DEF Hold, Goto, WorldInv
  <2>5. QED
    BY <1>2, <2>1, <2>2, <2>4
<1>3. CASE Pick(c)
  <2>1. pc[c] = "picking" /\ text' = text /\ reports' = reports
        /\ desk[c] = [stamp |-> desk[c].stamp, report |-> desk[c].report,
                      picks |-> desk[c].picks, changed |-> desk[c].changed]
    BY <1>3 DEF Pick, Holds
  <2>2. \/ \E u : desk'[c] = [stamp |-> desk[c].stamp, report |-> desk[c].report,
                              picks |-> desk[c].picks, changed |-> desk[c].changed, after |-> u]
        \/ desk'[c] = [desk[c] EXCEPT !.picks = Tail(@)]
    BY <1>3 DEF Pick, Hold, WorldInv
  <2>3. CASE desk'[c] = [desk[c] EXCEPT !.picks = Tail(@)]
    <3>1. PICK j : j = desk[c]
      OBVIOUS
    <3>2. /\ j = [stamp |-> j.stamp, report |-> j.report, picks |-> j.picks,
                  changed |-> j.changed]
          /\ desk'[c] = [j EXCEPT !.picks = Tail(@)]
      BY <2>1, <2>3, <3>1
    <3>3. desk'[c].report = j.report /\ desk'[c].stamp = j.stamp /\ desk'[c].changed = j.changed
      BY <3>2
    <3>4. QED
      BY <1>3, <2>1, <3>1, <3>3
  <2>4. ASSUME NEW u,
               desk'[c] = [stamp |-> desk[c].stamp, report |-> desk[c].report,
                           picks |-> desk[c].picks, changed |-> desk[c].changed, after |-> u]
        PROVE  /\ desk'[c].report = desk[c].report /\ desk'[c].stamp = desk[c].stamp
               /\ desk'[c].changed = desk[c].changed
    BY <2>4
  <2>5. QED
    BY <1>3, <2>1, <2>2, <2>3, <2>4
<1>4. CASE Write(c)
  <2>1. /\ pc[c] = "writing" /\ reports' = reports
        /\ text' = [text EXCEPT ![Picked(c).file] = desk[c].after]
        /\ pc'[c] = "picking"
    BY <1>4 DEF Write, Goto, WorldInv
  <2>2. desk'[c] = [stamp |-> desk[c].stamp, changed |-> TRUE, picks |-> Tail(desk[c].picks),
                    report |-> [desk[c].report EXCEPT
                                  !.proposals[Head(desk[c].picks)].applied = TRUE]]
    BY <1>4 DEF Write, Hold, WorldInv
  <2>3. QED
    BY <1>4, <2>1, <2>2 DEF StampedAt
<1>5. QED
  BY <1>1, <1>2, <1>3, <1>4

LEMMA NumberedDraft ==
  ASSUME WorldInv, ClockInv, NEW c \in Clerks, Holds(c), Draft(c)
  PROVE  desk'[c].stamp = clock + 1 /\ Numbered(clock + 1, desk'[c].report) /\ pc'[c] = "saving"
<1> DEFINE Drafts(n) == [1..n -> Answer]
<1>1. PICK n \in 0..MaxProposals :
        \E drafts \in Drafts(n) :
          Hold(c, [stamp |-> clock + 1, report |-> DraftedReport(desk[c].about, n, drafts)])
  BY DEF Draft, DraftedReport
<1>2. PICK drafts \in Drafts(n) :
        Hold(c, [stamp |-> clock + 1, report |-> DraftedReport(desk[c].about, n, drafts)])
  BY <1>1
<1> DEFINE R == desk'[c].report
           a == desk[c].about
<1>3. R = DraftedReport(a, n, drafts) /\ desk'[c].stamp = clock + 1
  BY <1>2 DEF Hold, WorldInv
<1>4. a \in 1..MaxRuns \cup Items
  <2>1. job[c] \in Commands /\ IsAbout(c, a)
    BY DEF Draft, Holds
  <2>2. QED
    BY <2>1, CommandHas, CoachDeskAssumption DEF IsAbout, WorldInv
<1>5. clock < MaxCommands /\ clock \in Nat
  BY ClockBound DEF Draft, WorldInv
<1> HIDE DEF R, a
<1>6. \A i \in DOMAIN R.proposals :
        R.proposals[i].block = clock * MaxProposals + i /\ i \in 1..MaxProposals
  BY <1>3, <1>4, <1>5, Drafted
<1>7. (clock + 1) - 1 = clock
  BY <1>5
<1>8. Numbered(clock + 1, R)
  BY <1>6, <1>7 DEF Numbered
<1>9. pc'[c] = "saving"
  BY DEF Draft, Goto, WorldInv
<1>10. QED
  BY <1>3, <1>8, <1>9 DEF R

LEMMA NumberedStamp ==
  ASSUME NEW R \in Report, NEW h \in Nat \ {0}, h <= Len(R.proposals), NEW n, Numbered(n, R)
  PROVE  Numbered(n, StampedAt(R, h))
<1>1. /\ DOMAIN StampedAt(R, h).proposals = DOMAIN R.proposals /\ h \in DOMAIN R.proposals
      /\ \A i \in DOMAIN R.proposals \ {h} : StampedAt(R, h).proposals[i] = R.proposals[i]
      /\ StampedAt(R, h).proposals[h].block = R.proposals[h].block
  BY Stamped
<1>2. ASSUME NEW i \in DOMAIN StampedAt(R, h).proposals
      PROVE  StampedAt(R, h).proposals[i].block = R.proposals[i].block /\ i \in DOMAIN R.proposals
  <2>1. CASE i = h
    BY <1>1, <2>1
  <2>2. CASE i # h
    BY <1>1, <1>2, <2>2
  <2>3. QED
    BY <2>1, <2>2
<1>3. QED
  BY <1>2 DEF Numbered

LEMMA NamesStep ==
  ASSUME WorldInv, \A d \in Clerks : Holds(d), ClockInv, NamesInv, Next
  PROVE  NamesInv'
<1>1. CASE DevEval \/ \E f \in Files : HandEdit(f)
  BY <1>1 DEF NamesInv, DevEval, HandEdit, local
<1>2. ASSUME NEW c \in Clerks, Clerk(c)
      PROVE  NamesInv'
  <2>1. \A d \in Clerks \ {c} : pc'[d] = pc[d] /\ desk'[d] = desk[d]
    BY <1>2, Frame
  <2>2. Holds(c)
    OBVIOUS
  <2>3. ASSUME NEW n \in DOMAIN reports'
        PROVE  Numbered(n, reports'[n])
    <3>1. CASE Save(c)
      <4>1. reports' = [k \in DOMAIN reports \cup {desk[c].stamp} |->
                          IF k = desk[c].stamp THEN desk[c].report ELSE reports[k]]
            /\ pc[c] = "saving"
        BY <3>1 DEF Save
      <4>2. QED
        BY <2>3, <4>1 DEF NamesInv
    <3>2. CASE Stamp(c)
      <4>1. pc[c] = "picking"
            /\ reports' = IF desk[c].changed
                          THEN [reports EXCEPT ![desk[c].stamp] = desk[c].report]
                          ELSE reports
        BY <3>2 DEF Stamp
      <4>2. QED
        BY <2>3, <4>1 DEF NamesInv
    <3>3. CASE ~Save(c) /\ ~Stamp(c)
      <4>1. reports' = reports
        BY <1>2, <3>3 DEF Clerk, Start, Ask, Call, Draft, LoadQuarantine, Quarantine, Load, Pick,
                          Write, Kill, disk
      <4>2. QED
        BY <2>3, <4>1 DEF NamesInv
    <3>4. QED
      BY <3>1, <3>2, <3>3
  <2>4. ASSUME NEW d \in Clerks, pc'[d] \in {"saving", "picking", "writing"}
        PROVE  Numbered(desk'[d].stamp, desk'[d].report)
    <3>1. CASE d # c
      BY <2>1, <2>4, <3>1 DEF NamesInv
    <3>2. CASE d = c /\ pc'[c] = "saving"
      <4>1. Draft(c)
        BY <1>2, <3>2 DEF Clerk, Start, Ask, Call, Save, LoadQuarantine, Quarantine, Load, Pick,
                          Write, Stamp, Kill, Done, Goto, WorldInv
      <4>2. QED
        BY <2>2, <3>2, <4>1, NumberedDraft
    <3>3. CASE d = c /\ pc'[c] \in {"picking", "writing"}
      <4>1. CASE Load(c) /\ reports # << >> /\ desk'[c].stamp = Latest
                 /\ desk'[c].report = reports[Latest]
        BY <3>3, <4>1, LatestIsOne DEF NamesInv
      <4>2. CASE pc[c] = "picking" /\ desk'[c].stamp = desk[c].stamp
                 /\ desk'[c].report = desk[c].report
        BY <3>3, <4>2 DEF NamesInv
      <4>3. CASE /\ pc[c] = "writing" /\ desk'[c].stamp = desk[c].stamp
                 /\ desk'[c].report = StampedAt(desk[c].report, Head(desk[c].picks))
        <5>1. /\ desk[c].report \in Report /\ desk[c].picks \in Seq(1..MaxProposals)
              /\ desk[c].picks # << >> /\ Head(desk[c].picks) <= Len(desk[c].report.proposals)
          BY <2>2, <4>3 DEF Holds
        <5>2. Head(desk[c].picks) \in Nat \ {0}
          <6>1. Head(desk[c].picks) \in 1..MaxProposals
            BY <5>1, PickedIsProposal
          <6>2. QED
            BY <6>1, CoachDeskAssumption
        <5>3. Numbered(desk[c].stamp, desk[c].report)
          BY <4>3 DEF NamesInv
        <5>4. Numbered(desk[c].stamp, StampedAt(desk[c].report, Head(desk[c].picks)))
          BY <5>1, <5>2, <5>3, NumberedStamp
        <5>5. QED
          BY <3>3, <4>3, <5>4
      <4>4. QED
        BY <1>2, <2>2, <3>3, <4>1, <4>2, <4>3, DeskStep
    <3>4. QED
      BY <2>4, <3>1, <3>2, <3>3
  <2>5. QED
    BY <2>3, <2>4 DEF NamesInv
<1>3. QED
  BY <1>1, <1>2 DEF Next

\* One more stamp makes another copy.
LEMMA StampedCopy ==
  ASSUME NEW R \in Report, NEW S \in Report, NEW h \in Nat \ {0}, h <= Len(R.proposals), CopyOf(R, S)
  PROVE  CopyOf(StampedAt(R, h), S)
<1> DEFINE Q == StampedAt(R, h)
<1>1. /\ DOMAIN Q.proposals = DOMAIN R.proposals /\ h \in DOMAIN R.proposals
      /\ \A i \in DOMAIN R.proposals \ {h} : Q.proposals[i] = R.proposals[i]
      /\ Q.proposals[h] = [R.proposals[h] EXCEPT !.applied = TRUE]
  BY Stamped
<1> HIDE DEF Q
<1>2. DOMAIN R.proposals = DOMAIN S.proposals
  BY DEF CopyOf
<1>3. ASSUME NEW i \in DOMAIN S.proposals
      PROVE  \/ Q.proposals[i] = S.proposals[i]
             \/ Q.proposals[i] = [S.proposals[i] EXCEPT !.applied = TRUE]
  <2>1. CASE i # h
    BY <1>1, <1>2, <2>1 DEF CopyOf
  <2>2. CASE i = h
    <3> DEFINE p == S.proposals[i]
               r == R.proposals[i]
    <3>1. p \in Proposal
      BY DEF Report
    <3>2. r = p \/ r = [p EXCEPT !.applied = TRUE]
      BY DEF CopyOf
    <3> HIDE DEF p, r
    <3>3. [r EXCEPT !.applied = TRUE] = [p EXCEPT !.applied = TRUE]
      BY <3>1, <3>2 DEF Proposal
    <3>4. QED
      BY <1>1, <2>2, <3>3 DEF p, r
  <2>3. QED
    BY <2>1, <2>2
<1>4. QED
  BY <1>1, <1>2, <1>3 DEF CopyOf, Q

LEMMA CopiesStep ==
  ASSUME WorldInv, \A d \in Clerks : Holds(d), AloneInv, CopiesInv, Next
  PROVE  CopiesInv'
<1> SUFFICES ASSUME ~overlapped', NEW d \in Clerks, pc'[d] \in {"picking", "writing"}
             PROVE  /\ CopyOf(desk'[d].report, reports'[desk'[d].stamp])
                    /\ pc'[d] = "picking" /\ ~desk'[d].changed =>
                         desk'[d].report = reports'[desk'[d].stamp]
  BY DEF CopiesInv, CopyOf
<1>1. CASE DevEval \/ \E f \in Files : HandEdit(f)
  <2>1. UNCHANGED <<local, reports, overlapped>>
    BY <1>1 DEF DevEval, HandEdit
  <2>2. QED
    BY <2>1 DEF CopiesInv, local
<1>2. ASSUME NEW c \in Clerks, Clerk(c)
      PROVE  /\ CopyOf(desk'[d].report, reports'[desk'[d].stamp])
             /\ pc'[d] = "picking" /\ ~desk'[d].changed =>
                  desk'[d].report = reports'[desk'[d].stamp]
  <2>1. ~overlapped /\ d = c
    BY <1>2, Alone, Frame DEF Busy
  <2>2. Holds(c) /\ reports' = reports
    BY <1>2, <2>1, DeskStep
  <2>3. CASE desk'[c].stamp = Latest /\ desk'[c].report = reports[Latest]
    BY <2>1, <2>2, <2>3 DEF CopyOf
  <2>4. CASE /\ pc[c] = "picking" /\ desk'[c].stamp = desk[c].stamp
             /\ desk'[c].report = desk[c].report
             /\ pc'[c] = "picking" => desk'[c].changed = desk[c].changed
    BY <2>1, <2>2, <2>4 DEF CopiesInv
  <2>5. CASE /\ pc[c] = "writing" /\ desk'[c].stamp = desk[c].stamp /\ desk'[c].changed = TRUE
             /\ desk'[c].report = StampedAt(desk[c].report, Head(desk[c].picks))
    <3>1. /\ desk[c].report \in Report /\ desk[c].picks \in Seq(1..MaxProposals)
          /\ desk[c].picks # << >> /\ Head(desk[c].picks) <= Len(desk[c].report.proposals)
          /\ desk[c].stamp \in DOMAIN reports
      BY <2>2, <2>5 DEF Holds
    <3>2. Head(desk[c].picks) \in Nat \ {0}
      <4>1. Head(desk[c].picks) \in 1..MaxProposals
        BY <3>1, PickedIsProposal
      <4>2. QED
        BY <4>1, CoachDeskAssumption
    <3>3. reports[desk[c].stamp] \in Report /\ CopyOf(desk[c].report, reports[desk[c].stamp])
      BY <2>1, <2>5, <3>1 DEF CopiesInv, WorldInv
    <3>4. CopyOf(StampedAt(desk[c].report, Head(desk[c].picks)), reports[desk[c].stamp])
      BY <3>1, <3>2, <3>3, StampedCopy
    <3>5. QED
      BY <2>1, <2>2, <2>5, <3>4
  <2>6. QED
    BY <1>2, <2>1, <2>2, <2>3, <2>4, <2>5, DeskStep
<1>3. QED
  BY <1>1, <1>2 DEF Next

\* A hand brings no block of a proposal into a file.
LEMMA HandsAddNothing ==
  ASSUME WorldInv, BlocksInv, NEW f \in Files, HandEdit(f), NEW g \in Files, NEW b \in Nat \ {0},
         Has(b, text'[g])
  PROVE  Has(b, text[g])
<1>1. PICK t \in {Append(text[f], 0), committed[f]} : text' = [text EXCEPT ![f] = t]
  BY DEF HandEdit
<1>2. CASE g # f
  BY <1>1, <1>2 DEF WorldInv
<1>3. CASE g = f
  <2>1. text'[g] = t
    BY <1>1, <1>3 DEF WorldInv
  <2>2. text[f] \in Seq(Nat) /\ committed[f] \in Seq(Nat)
    BY BlocksAreNumbers DEF WorldInv
  <2>3. Upto(committed[f], 0) /\ Upto(text[f], Drawn) /\ Drawn \in Nat
    BY DrawnGrows, ReportsStay, CoachDeskAssumption DEF BlocksInv, WorldInv, Drawn
  <2>4. ~Has(b, committed[f])
    <3>1. b > 0
      OBVIOUS
    <3>2. QED
      BY <2>2, <2>3, <3>1, Bounds
  <2>5. Has(b, Append(text[f], 0)) => Has(b, text[f])
    BY <2>2, <2>3, Bounds
  <2>6. QED
    BY <1>1, <1>3, <2>1, <2>4, <2>5
<1>4. QED
  BY <1>2, <1>3

LEMMA FreshStep ==
  ASSUME WorldInv, \A d \in Clerks : Holds(d), ClockInv, BlocksInv, AloneInv, FreshInv, Next
  PROVE  FreshInv'
<1> SUFFICES ASSUME ~overlapped', NEW d \in Clerks, pc'[d] = "saving",
                    NEW i \in DOMAIN desk'[d].report.proposals, NEW f \in Files
             PROVE  ~Has(desk'[d].report.proposals[i].block, text'[f])
  BY DEF FreshInv, Has
<1>1. CASE DevEval
  BY <1>1 DEF DevEval, FreshInv, local
<1>2. ASSUME NEW g \in Files, HandEdit(g)
      PROVE  ~Has(desk'[d].report.proposals[i].block, text'[f])
  <2>1. UNCHANGED <<local, overlapped>>
    BY <1>2 DEF HandEdit
  <2>2. ~Has(desk[d].report.proposals[i].block, text[f]) /\ pc[d] = "saving"
    BY <2>1 DEF FreshInv, local
  <2>3. desk[d].report.proposals[i].block \in Nat \ {0}
    <3>1. desk[d].report \in Kept
      BY <2>2 DEF Kept
    <3>2. desk[d].report.proposals[i] \in Proposal
      BY <2>1, <3>1, LinesAreProposals DEF local
    <3>3. QED
      BY <3>2, BlocksAreNumbers DEF Proposal
  <2>4. QED
    BY <1>2, <2>1, <2>2, <2>3, HandsAddNothing DEF local
<1>3. ASSUME NEW c \in Clerks, Clerk(c)
      PROVE  ~Has(desk'[d].report.proposals[i].block, text'[f])
  <2>1. d = c
    BY <1>3, Alone, Frame DEF Busy
  <2>2. Draft(c)
    BY <1>3, <2>1 DEF Clerk, Start, Ask, Call, Save, LoadQuarantine, Quarantine, Load, Pick,
                      Write, Stamp, Kill, Done, Goto, WorldInv
  <2>3. desk'[c].report.proposals[i].block > Drawn /\ text' = text
    <3>1. text' = text
      BY <2>2 DEF Draft
    <3>2. QED
      BY <2>1, <2>2, <3>1, DraftedLines
  <2>4. Numbered(clock + 1, desk'[c].report)
    BY <2>2, NumberedDraft
  <2>5. Drawn \in Nat /\ desk'[c].report.proposals[i].block \in Nat
    <3>1. clock \in Nat /\ MaxProposals \in Nat
      BY CoachDeskAssumption DEF WorldInv
    <3> DEFINE m == clock * MaxProposals
    <3>2. (clock + 1) - 1 = clock /\ m \in Nat
      BY <3>1, Scale
    <3>3. i \in 1..MaxProposals
          /\ desk'[c].report.proposals[i].block = ((clock + 1) - 1) * MaxProposals + i
      BY <2>1, <2>4 DEF Numbered
    <3>4. desk'[c].report.proposals[i].block = m + i /\ Drawn = m
      BY <3>2, <3>3 DEF Drawn
    <3> HIDE DEF m
    <3>5. QED
      BY <3>1, <3>2, <3>3, <3>4
  <2>6. text[f] \in Seq(Nat) /\ Upto(text[f], Drawn)
    BY BlocksAreNumbers DEF WorldInv, BlocksInv
  <2>7. QED
    BY <2>1, <2>3, <2>5, <2>6, Bounds
<1>4. QED
  BY <1>1, <1>2, <1>3 DEF Next

\* The numbers of two blocks of reports differ.
LEMMA NamesDiffer ==
  ASSUME NEW n \in Nat \ {0}, NEW m \in Nat \ {0}, NEW i \in 1..MaxProposals, NEW k \in 1..MaxProposals,
         (n - 1) * MaxProposals + i = (m - 1) * MaxProposals + k
  PROVE  n = m /\ i = k
<1> DEFINE M == MaxProposals
           a == (n - 1) * M
           b == (m - 1) * M
<1>1. M \in Nat /\ n - 1 \in Nat /\ m - 1 \in Nat /\ i \in 1..M /\ k \in 1..M
  BY CoachDeskAssumption
<1>2. a \in Nat /\ b \in Nat /\ a + i = b + k
  BY <1>1
<1>3. ASSUME n < m
      PROVE  FALSE
  <2>1. n <= m - 1 /\ n \in Nat
    BY <1>3
  <2>2. n * M <= b
    BY <1>1, <2>1, Scale
  <2>3. n * M = a + M
    BY <1>1
  <2> HIDE DEF M, a, b
  <2>4. a + M <= b
    BY <2>2, <2>3
  <2>5. QED
    BY <1>1, <1>2, <2>4
<1>4. ASSUME m < n
      PROVE  FALSE
  <2>1. m <= n - 1 /\ m \in Nat
    BY <1>4
  <2>2. m * M <= a
    BY <1>1, <2>1, Scale
  <2>3. m * M = b + M
    BY <1>1
  <2> HIDE DEF M, a, b
  <2>4. b + M <= a
    BY <2>2, <2>3
  <2>5. QED
    BY <1>1, <1>2, <2>4
<1>5. n = m
  BY <1>3, <1>4
<1>6. QED
  BY <1>1, <1>2, <1>5

StampsToCome(n, i) ==
  ~reports[n].proposals[i].applied /\ InFile(reports[n].proposals[i])
    => \E c \in Clerks : Stamping(c, n, i)

\* As long as no report changes, who stamps goes on stamping, and no text gains a block but
\* those that are, what is to be stamped is.
LEMMA StampingStays ==
  ASSUME StampingInv, ~overlapped, kills = 0, NEW n \in DOMAIN reports, reports' = reports,
         NEW i \in DOMAIN reports[n].proposals,
         InFile(reports[n].proposals[i])' =>
           InFile(reports[n].proposals[i]) \/ \E c \in Clerks : Stamping(c, n, i)',
         \A c \in Clerks : Stamping(c, n, i) => Stamping(c, n, i)'
  PROVE  StampsToCome(n, i)'
<1> SUFFICES ASSUME ~reports[n].proposals[i].applied, InFile(reports[n].proposals[i])'
             PROVE  \E c \in Clerks : Stamping(c, n, i)'
  BY DEF StampsToCome, InFile
<1>1. CASE InFile(reports[n].proposals[i])
  <2>1. PICK c \in Clerks : Stamping(c, n, i)
    BY <1>1 DEF StampingInv
  <2>2. QED
    BY <2>1
<1>2. QED
  BY <1>1

LEMMA StampingStep ==
  ASSUME WorldInv, \A d \in Clerks : Holds(d), NumbersInv, ClockInv, BlocksInv, AloneInv, NamesInv,
         CopiesInv, FreshInv, StampingInv, Next
  PROVE  StampingInv'
<1> SUFFICES ASSUME ~overlapped', kills' = 0, NEW n \in DOMAIN reports',
                    NEW i \in DOMAIN reports'[n].proposals
             PROVE  StampsToCome(n, i)'
  BY DEF StampingInv, StampsToCome
<1>1. ~overlapped
  BY Alone DEF Next, DevEval, HandEdit
<1>2. \A m \in DOMAIN reports : \A k \in DOMAIN reports[m].proposals :
        reports[m].proposals[k] \in Proposal /\ reports[m].proposals[k].block \in Nat \ {0}
  <2>1. \A m \in DOMAIN reports : reports[m] \in Kept
    BY DEF Kept
  <2>2. \A m \in DOMAIN reports : \A k \in DOMAIN reports[m].proposals :
          reports[m].proposals[k] \in Proposal
    BY <2>1, LinesAreProposals
  <2>3. \A p \in Proposal : p.block \in Nat \ {0}
    BY BlocksAreNumbers DEF Proposal
  <2>4. QED
    BY <2>2, <2>3
<1>3. CASE DevEval
  <2>1. UNCHANGED <<local, reports, text>> /\ kills' = kills
    BY <1>3 DEF DevEval
  <2>2. \A c \in Clerks : Stamping(c, n, i) <=> Stamping(c, n, i)'
    BY <2>1 DEF Stamping, local
  <2>3. InFile(reports[n].proposals[i])' <=> InFile(reports[n].proposals[i])
    BY <2>1 DEF InFile, Picked, local
  <2>4. QED
    BY <1>1, <2>1, <2>2, <2>3, StampingStays
<1>4. ASSUME NEW f \in Files, HandEdit(f)
      PROVE  StampsToCome(n, i)'
  <2> DEFINE p == reports[n].proposals[i]
  <2>1. UNCHANGED <<local, reports>> /\ kills' = kills /\ n \in DOMAIN reports
        /\ i \in DOMAIN reports[n].proposals
    BY <1>4 DEF HandEdit
  <2>2. \A c \in Clerks : Stamping(c, n, i) <=> Stamping(c, n, i)'
    BY <2>1 DEF Stamping, local
  <2>3. p \in Proposal /\ p.block \in Nat \ {0}
    BY <1>2, <2>1
  <2>4. ASSUME InFile(p)'
        PROVE  InFile(p)
    <3>1. CASE \E c \in Clerks : /\ pc'[c] = "writing"
                                 /\ Picked(c)'.file = p.file /\ Picked(c)'.block # p.block
                                 /\ Has(p.block, desk'[c].after) /\ p.file # Unsafe
      <4>1. \A c \in Clerks : pc'[c] = pc[c] /\ desk'[c] = desk[c] /\ Picked(c)' = Picked(c)
        BY <2>1 DEF local, Picked
      <4>2. QED
        BY <3>1, <4>1 DEF InFile
    <3>2. CASE Has(p.block, text'[p.file]) /\ p.file # Unsafe
      <4>1. p.file \in Files
        BY <2>3, <3>2 DEF Proposal
      <4>2. Has(p.block, text[p.file])
        BY <1>4, <2>3, <3>2, <4>1, HandsAddNothing
      <4>3. QED
        BY <3>2, <4>2 DEF InFile
    <3>3. QED
      BY <2>1, <2>4, <3>1, <3>2 DEF InFile, Has
  <2>5. QED
    BY <1>1, <2>1, <2>2, <2>4, StampingStays
<1>5. ASSUME NEW c \in Clerks, Clerk(c)
      PROVE  StampsToCome(n, i)'
  <2>1. /\ \A d \in Clerks \ {c} : pc'[d] = pc[d] /\ desk'[d] = desk[d]
        /\ \A d \in Clerks \ {c} : ~Busy(d) /\ pc[d] = "idle"
    BY <1>5, Alone, Frame DEF Busy
  <2>2. ~Kill(c) /\ kills = 0 /\ Holds(c)
    <3>1. kills \in Nat
      BY DEF WorldInv
    <3>2. ~Kill(c)
      BY <3>1 DEF Kill
    <3>3. kills' = kills
      BY <1>5, <3>2 DEF Clerk, Start, Ask, Call, Draft, Save, LoadQuarantine, Quarantine, Load,
                        Pick, Write, Stamp, unchangedByClerk
    <3>4. QED
      BY <3>2, <3>3
  <2>3. \A d \in Clerks : \A m, k : Stamping(d, m, k) => d = c
    BY <2>1 DEF Stamping
  <2> DEFINE q == reports'[n].proposals[i]
  <2>4. ASSUME \A d \in Clerks : pc'[d] # "writing",
                ~(~q.applied /\ q.file # Unsafe /\ Has(q.block, text'[q.file]))
         PROVE  StampsToCome(n, i)'
    BY <2>4 DEF StampsToCome, InFile
  <2> HIDE DEF q
  <2>5. ASSUME reports' = reports, text' = text, pc[c] \notin {"picking", "writing"},
               pc'[c] # "writing"
        PROVE  StampsToCome(n, i)'
    <3>1. \A d \in Clerks : ~Stamping(d, n, i)
      BY <2>3, <2>5 DEF Stamping
    <3>2. ~(~reports[n].proposals[i].applied /\ InFile(reports[n].proposals[i]))
      BY <1>1, <2>2, <2>5, <3>1 DEF StampingInv
    <3>3. \A d \in Clerks : pc'[d] # "writing"
      BY <2>1, <2>5
    <3>4. ~(~q.applied /\ q.file # Unsafe /\ Has(q.block, text'[q.file]))
      BY <2>5, <3>2 DEF InFile, q
    <3>5. QED
      BY <2>4, <3>3, <3>4
  <2>6. CASE Start(c) \/ Ask(c) \/ Call(c) \/ Draft(c) \/ LoadQuarantine(c) \/ Quarantine(c)
             \/ Load(c)
    <3>1. reports' = reports /\ text' = text /\ pc[c] \notin {"picking", "writing"}
      BY <2>6 DEF Start, Ask, Call, Draft, LoadQuarantine, Quarantine, Load, Busy, disk
    <3>2. pc'[c] # "writing"
      BY <2>6 DEF Start, Ask, Call, Draft, LoadQuarantine, Quarantine, Load, Done, Goto, WorldInv
    <3>3. QED
      BY <2>5, <3>1, <3>2
  <2>7. CASE Save(c)
    <3>1. /\ reports' = [k \in DOMAIN reports \cup {desk[c].stamp} |->
                           IF k = desk[c].stamp THEN desk[c].report ELSE reports[k]]
          /\ pc[c] = "saving" /\ text' = text
      BY <2>7 DEF Save
    <3>2. \A d \in Clerks : pc'[d] # "writing" /\ pc[d] # "writing" /\ ~Stamping(d, n, i)
      BY <2>1, <2>3, <2>7, <3>1 DEF Save, Done, Goto, WorldInv, Stamping
    <3>3. CASE n = desk[c].stamp
      <4>1. q = desk[c].report.proposals[i] /\ i \in DOMAIN desk[c].report.proposals
        BY <3>1, <3>3 DEF q
      <4>2. \A f \in Files : ~Has(q.block, text[f])
        BY <1>1, <3>1, <4>1 DEF FreshInv
      <4>3. q \in Proposal
        <5>1. desk[c].report \in Kept
          BY <3>1 DEF Kept
        <5>2. QED
          BY <4>1, <5>1, LinesAreProposals
      <4>4. ~(q.file # Unsafe /\ Has(q.block, text[q.file]))
        BY <4>2, <4>3 DEF Proposal
      <4>5. QED
        BY <2>4, <3>1, <3>2, <4>4
    <3>4. CASE n # desk[c].stamp
      <4>1. n \in DOMAIN reports /\ reports'[n] = reports[n]
        BY <3>1, <3>4
      <4>2. ~(~reports[n].proposals[i].applied /\ InFile(reports[n].proposals[i]))
        BY <1>1, <2>2, <3>2, <4>1 DEF StampingInv
      <4>3. ~(~q.applied /\ q.file # Unsafe /\ Has(q.block, text[q.file]))
        BY <4>1, <4>2 DEF InFile, q
      <4>4. QED
        BY <2>4, <3>1, <3>2, <4>3
    <3>5. QED
      BY <3>3, <3>4
  <2>8. CASE Pick(c)
    <3> DEFINE p == reports[n].proposals[i]
    <3>1. pc[c] = "picking" /\ reports' = reports /\ text' = text
      BY <2>8 DEF Pick
    <3>2. pc'[c] \in {"picking", "writing"}
      BY <2>8, <3>1 DEF Pick, Goto, WorldInv
    <3>3. desk'[c].stamp = desk[c].stamp /\ desk'[c].report = desk[c].report
      BY <1>5, <2>2, <2>8, <3>1, <3>2, DeskStep
    <3>4. \A d \in Clerks : Stamping(d, n, i) => Stamping(d, n, i)'
      BY <2>3, <3>1, <3>2, <3>3 DEF Stamping
    <3>5. p \in Proposal /\ p.block \in Nat \ {0}
      BY <1>2, <3>1
    <3>6. ASSUME InFile(p)'
          PROVE  InFile(p)
      <4>1. CASE p.file # Unsafe /\ Has(p.block, text'[p.file])
        BY <3>1, <4>1 DEF InFile
      <4>2. ASSUME NEW d \in Clerks, pc'[d] = "writing", p.file # Unsafe,
                   Picked(d)'.file = p.file, Picked(d)'.block # p.block,
                   Has(p.block, desk'[d].after)
            PROVE  InFile(p)
        <5> DEFINE P == Picked(c)
                   t == text[P.file]
                   u == Applied(P, t)
        <5>1. d = c
          BY <2>1, <4>2
        <5>2. /\ Picked(c)' = P /\ P \in Lines /\ t \in Texts
              /\ CanApply(P, t, job[c].force) /\ desk'[c].after = u
          BY <1>5, <3>1, <4>2, <5>1, WritingStep
        <5>3. P \in Proposal
          BY <5>2, LinesAreProposals
        <5>4. \A k \in DOMAIN u : u[k] = P.block \/ Has(u[k], t)
          BY <5>2, <5>3, EditIsText
        <5>5. Has(p.block, t) /\ P.file = p.file
          <6> HIDE DEF P, t, u, p
          <6>1. PICK k \in DOMAIN u : u[k] = p.block
            BY <4>2, <5>1, <5>2 DEF Has
          <6>2. p.block # P.block /\ P.file = p.file
            BY <4>2, <5>1, <5>2
          <6>3. QED
            BY <5>4, <6>1, <6>2
        <5>6. QED
          BY <4>2, <5>5 DEF InFile
      <4>3. QED
        BY <3>1, <3>6, <4>1, <4>2 DEF InFile
    <3>7. QED
      BY <1>1, <2>2, <3>1, <3>4, <3>6, StampingStays
  <2>9. CASE Write(c)
    <3> DEFINE p == reports[n].proposals[i]
               h == Head(desk[c].picks)
               R == desk[c].report
    <3>1. /\ pc[c] = "writing" /\ reports' = reports /\ pc'[c] = "picking"
          /\ text' = [text EXCEPT ![Picked(c).file] = desk[c].after]
          /\ desk'[c].stamp = desk[c].stamp /\ desk'[c].report = StampedAt(R, h)
      <4>1. pc'[c] = "picking" /\ pc[c] = "writing"
        BY <2>9 DEF Write, Goto, WorldInv
      <4>2. QED
        BY <1>5, <2>2, <2>9, <4>1, DeskStep
    <3>2. /\ R \in Report /\ desk[c].picks \in Seq(1..MaxProposals) /\ desk[c].picks # << >>
          /\ h <= Len(R.proposals) /\ desk[c].stamp \in DOMAIN reports
      BY <2>2, <3>1 DEF Holds
    <3>3. h \in 1..MaxProposals /\ h \in Nat \ {0} /\ h \in DOMAIN R.proposals
      BY <3>2, PickedIsProposal, CoachDeskAssumption
    <3>4. /\ DOMAIN StampedAt(R, h).proposals = DOMAIN R.proposals
          /\ \A k \in DOMAIN R.proposals \ {h} : StampedAt(R, h).proposals[k] = R.proposals[k]
          /\ StampedAt(R, h).proposals[h].applied = TRUE
      BY <3>2, <3>3, Stamped
    <3>5. p \in Proposal /\ p.block \in Nat \ {0} /\ n \in DOMAIN reports
          /\ i \in DOMAIN reports[n].proposals
      BY <1>2, <3>1
    <3>6. \A d \in Clerks : Stamping(d, n, i) => Stamping(d, n, i)'
      <4>1. ASSUME Stamping(c, n, i)
            PROVE  Stamping(c, n, i)'
        <5>1. i \in DOMAIN R.proposals /\ R.proposals[i].applied /\ desk[c].stamp = n
          BY <4>1 DEF Stamping
        <5>2. StampedAt(R, h).proposals[i].applied /\ i \in DOMAIN StampedAt(R, h).proposals
          <6> HIDE DEF R, h
          <6>1. QED
            BY <3>4, <5>1
        <5>3. QED
          BY <3>1, <5>1, <5>2 DEF Stamping
      <4>2. QED
        BY <2>3, <4>1
    <3>7. ASSUME InFile(p)'
          PROVE  InFile(p) \/ \E d \in Clerks : Stamping(d, n, i)'
      <4>1. \A d \in Clerks : pc'[d] # "writing"
        BY <2>1, <3>1
      <4>2. p.file # Unsafe /\ Has(p.block, text'[p.file])
        BY <3>1, <3>7, <4>1 DEF InFile
      <4>3. p.file \in Files
        BY <3>5, <4>2 DEF Proposal
      <4>4. CASE p.file # Picked(c).file
        <5>1. text'[p.file] = text[p.file]
          BY <3>1, <4>3, <4>4 DEF WorldInv
        <5>2. QED
          BY <4>2, <5>1 DEF InFile
      <4>5. CASE p.file = Picked(c).file
        <5>1. Has(p.block, desk[c].after)
          BY <3>1, <4>2, <4>3, <4>5 DEF WorldInv
        <5>2. CASE p.block # Picked(c).block
          BY <3>1, <4>2, <4>5, <5>1, <5>2 DEF InFile
        <5>3. CASE p.block = Picked(c).block
          <6> DEFINE m == desk[c].stamp
          <6>1. Picked(c) = R.proposals[h]
            BY DEF Picked
          <6>2. Numbered(n, reports[n]) /\ Numbered(m, R)
            BY <3>1, <3>5 DEF NamesInv
          <6>3. /\ i \in 1..MaxProposals /\ p.block = (n - 1) * MaxProposals + i
                /\ Picked(c).block = (m - 1) * MaxProposals + h
            BY <3>3, <3>5, <6>1, <6>2 DEF Numbered
          <6>4. n \in Nat \ {0} /\ m \in Nat \ {0}
            BY <3>2, <3>5 DEF WorldInv
          <6>5. n = m /\ i = h
            <7> HIDE DEF m, h, p, R
            <7>1. QED
              BY <3>3, <5>3, <6>3, <6>4, NamesDiffer
          <6>6. Stamping(c, n, i)'
            BY <3>1, <3>3, <3>4, <6>5 DEF Stamping
          <6>7. QED
            BY <6>6
        <5>4. QED
          BY <5>2, <5>3
      <4>6. QED
        BY <4>4, <4>5
    <3>8. QED
      BY <1>1, <2>2, <3>1, <3>5, <3>6, <3>7, StampingStays
  <2>10. CASE Stamp(c)
    <3>1. /\ pc[c] = "picking" /\ text' = text
          /\ reports' = IF desk[c].changed
                        THEN [reports EXCEPT ![desk[c].stamp] = desk[c].report]
                        ELSE reports
      BY <2>10 DEF Stamp
    <3>2. \A d \in Clerks : pc'[d] # "writing" /\ pc[d] # "writing"
      BY <2>1, <2>10, <3>1, Ends DEF Stamp
    <3>3. \A r : InFile(r) <=> r.file # Unsafe /\ Has(r.block, text[r.file])
      BY <3>2 DEF InFile
    <3>4. n \in DOMAIN reports /\ desk[c].stamp \in DOMAIN reports
      BY <2>2, <3>1 DEF Holds
    <3>5. /\ CopyOf(desk[c].report, reports[desk[c].stamp])
          /\ ~desk[c].changed => desk[c].report = reports[desk[c].stamp]
      BY <1>1, <3>1 DEF CopiesInv
    <3> DEFINE p == reports[n].proposals[i]
    <3>6. i \in DOMAIN reports[n].proposals
          /\ (n # desk[c].stamp => q = p)
          /\ (n = desk[c].stamp => q = desk[c].report.proposals[i])
      <4>1. reports'[n] = IF n = desk[c].stamp THEN desk[c].report ELSE reports[n]
        BY <3>1, <3>4, <3>5
      <4>2. QED
        BY <3>5, <4>1 DEF CopyOf, q
    <3>7. ASSUME ~q.applied, q.file # Unsafe, Has(q.block, text[q.file])
          PROVE  FALSE
      <4>1. q = p
        <5>1. CASE n # desk[c].stamp
          BY <3>6, <5>1
        <5>2. CASE n = desk[c].stamp
          <6>1. q = p \/ q = [p EXCEPT !.applied = TRUE]
            BY <3>5, <3>6, <5>2 DEF CopyOf
          <6>2. p \in Proposal
            BY <1>2, <3>4, <3>6
          <6> HIDE DEF p
          <6>3. q # [p EXCEPT !.applied = TRUE]
            BY <3>7, <6>2 DEF Proposal
          <6>4. QED
            BY <6>1, <6>3
        <5>3. QED
          BY <5>1, <5>2
      <4>2. ~p.applied /\ InFile(p)
        BY <3>3, <3>7, <4>1
      <4>3. \E d \in Clerks : Stamping(d, n, i)
        BY <1>1, <2>2, <3>4, <3>6, <4>2 DEF StampingInv
      <4>4. desk[c].stamp = n /\ desk[c].report.proposals[i].applied
        BY <2>3, <4>3 DEF Stamping
      <4>5. QED
        BY <3>6, <3>7, <4>4
    <3>8. QED
      BY <2>4, <3>1, <3>2, <3>7
  <2>11. QED
    BY <1>5, <2>2, <2>6, <2>7, <2>8, <2>9, <2>10 DEF Clerk
<1>6. QED
  BY <1>3, <1>4, <1>5 DEF Next

-----------------------------------------------------------------------------
(* What is on record                                                       *)

LEMMA FiniteRecords ==
  ASSUME WorldInv
  PROVE  IsFiniteSet(DOMAIN reports) /\ IsFiniteSet(HeldOut) /\ IsFiniteSet(Diagnosed)
<1>1. IsFiniteSet(DOMAIN reports)
  <2>1. DOMAIN reports \in SUBSET Nat /\ clock \in Nat /\ \A n \in DOMAIN reports : n <= clock
    BY DEF WorldInv
  <2>2. QED
    BY <2>1, FS_BoundedSetOfNaturals
<1>2. IsFiniteSet(HeldOut)
  BY <1>1, FS_Subset DEF HeldOut
<1> DEFINE D == DOMAIN reports
           T == {reports[n].about : n \in D}
           g == [n \in D |-> reports[n].about]
<1>3. g \in Surjection(D, T)
  BY DEF Surjection
<1>4. IsFiniteSet(T)
  <2> HIDE DEF g, T
  <2>1. QED
    BY <1>1, <1>3, FS_Surjection
<1>5. IsFiniteSet(Diagnosed)
  BY <1>4, FS_Subset DEF Diagnosed
<1>6. QED
  BY <1>1, <1>2, <1>5

\* What the reports are about, once a clerk has moved.
LEMMA AboutStep ==
  ASSUME WorldInv, \A d \in Clerks : Holds(d), NumbersInv, NEW c \in Clerks, Clerk(c)
  PROVE  \/ /\ ~Save(c)
            /\ DOMAIN reports' = DOMAIN reports
            /\ \A n \in DOMAIN reports : reports'[n].about = reports[n].about
         \/ /\ Save(c) /\ desk[c].stamp \in Nat /\ desk[c].stamp \notin DOMAIN reports
            /\ DOMAIN reports' = DOMAIN reports \cup {desk[c].stamp}
            /\ \A n \in DOMAIN reports : reports'[n].about = reports[n].about
            /\ reports'[desk[c].stamp].about = desk[c].report.about
<1>1. \A n \in DOMAIN reports : n \in DOMAIN reports' /\ reports'[n].about = reports[n].about
  BY ReportsStay DEF Next
<1>2. CASE Save(c)
  <2>1. /\ reports' = [n \in DOMAIN reports \cup {desk[c].stamp} |->
                         IF n = desk[c].stamp THEN desk[c].report ELSE reports[n]]
        /\ pc[c] = "saving"
    BY <1>2 DEF Save
  <2>2. desk[c].stamp \in Nat /\ desk[c].stamp \notin DOMAIN reports
    BY <2>1 DEF NumbersInv, Holds, WorldInv
  <2>3. DOMAIN reports' = DOMAIN reports \cup {desk[c].stamp}
        /\ reports'[desk[c].stamp].about = desk[c].report.about
    BY <2>1
  <2>4. QED
    BY <1>1, <1>2, <2>2, <2>3
<1>3. CASE ~Save(c)
  <2>1. DOMAIN reports' = DOMAIN reports
    BY <1>3 DEF Clerk, Start, Ask, Call, Draft, LoadQuarantine, Quarantine, Load, Pick, Write,
                Stamp, Kill, disk
  <2>2. QED
    BY <1>1, <1>3, <2>1
<1>4. QED
  BY <1>2, <1>3

LEMMA QuarantineStep ==
  ASSUME WorldInv, \A d \in Clerks : Holds(d), NumbersInv, ClockInv, AloneInv, QuarantineInv, Next
  PROVE  QuarantineInv'
<1> DEFINE U == Diagnosed \ (quarantine \cup Pending)
<1> SUFFICES ASSUME ~overlapped'
             PROVE  /\ Cardinality(U') <= kills'
                    /\ \A c \in Clerks : pc'[c] = "marking" => desk'[c].ids = quarantine'
  BY DEF QuarantineInv
<1>1. ~overlapped
  BY Alone DEF Next, DevEval, HandEdit
<1>2. IsFiniteSet(U) /\ Cardinality(U) \in Nat /\ kills \in Nat /\ Cardinality(U) <= kills
  <2>1. IsFiniteSet(U)
    BY FiniteRecords, FS_Subset
  <2>2. Cardinality(U) <= kills
    BY <1>1 DEF QuarantineInv
  <2>3. QED
    BY <2>1, <2>2, FS_CardinalityType DEF WorldInv
<1>3. ASSUME U' \subseteq U, kills' = kills
      PROVE  Cardinality(U') <= kills'
  <2> HIDE DEF U
  <2>1. Cardinality(U') <= Cardinality(U) /\ IsFiniteSet(U')
    BY <1>2, <1>3, FS_Subset
  <2>2. Cardinality(U') \in Nat
    BY <2>1, FS_CardinalityType
  <2>3. QED
    BY <1>2, <1>3, <2>1, <2>2
<1>4. CASE DevEval \/ \E f \in Files : HandEdit(f)
  <2>1. UNCHANGED <<local, reports, quarantine, kills>>
    BY <1>4 DEF DevEval, HandEdit
  <2>2. U' = U
    BY <2>1 DEF local, Diagnosed, Pending
  <2>3. Cardinality(U') <= kills'
    BY <1>3, <2>1, <2>2
  <2>4. QED
    BY <1>1, <2>1, <2>3 DEF local, QuarantineInv
<1>5. ASSUME NEW c \in Clerks, Clerk(c)
      PROVE  /\ Cardinality(U') <= kills'
             /\ \A d \in Clerks : pc'[d] = "marking" => desk'[d].ids = quarantine'
  <2>1. \A d \in Clerks \ {c} : pc[d] = "idle" /\ pc'[d] = "idle"
    BY <1>5, Frame, Alone DEF Busy
  <2>2. Pending = IF pc[c] \in {"quarantining", "marking"} THEN {job[c].item} ELSE {}
    BY <2>1 DEF Pending
  <2>3. Pending' = IF pc'[c] \in {"quarantining", "marking"} THEN {job'[c].item} ELSE {}
    BY <2>1 DEF Pending
  <2>4. ASSUME ~Save(c)
        PROVE  Diagnosed' = Diagnosed
    <3>1. /\ DOMAIN reports' = DOMAIN reports
          /\ \A n \in DOMAIN reports : reports'[n].about = reports[n].about
      BY <1>5, <2>4, AboutStep
    <3>2. QED
      BY <3>1 DEF Diagnosed
  <2>5. CASE Save(c)
    <3>1. /\ DOMAIN reports' = DOMAIN reports \cup {desk[c].stamp}
          /\ \A n \in DOMAIN reports : reports'[n].about = reports[n].about
          /\ reports'[desk[c].stamp].about = desk[c].report.about
      BY <1>5, <2>5, AboutStep
    <3>2. Diagnosed' = Diagnosed \cup ({desk[c].report.about} \cap Items)
      BY <3>1 DEF Diagnosed
    <3>3. pc[c] = "saving" /\ quarantine' = quarantine /\ kills' = kills
      BY <2>5 DEF Save, unchangedByClerk
    <3>4. IsAbout(c, desk[c].report.about)
      BY <3>3 DEF Holds
    <3>5. CASE job[c].kind = "coach"
      <4>1. desk[c].report.about \notin Items /\ pc'[c] = "idle"
        BY <2>5, <3>4, <3>5, Ends, CoachDeskAssumption DEF Save, IsAbout, WorldInv
      <4>2. U' \subseteq U
        BY <2>2, <2>3, <3>2, <3>3, <4>1
      <4>3. QED
        BY <1>3, <2>1, <3>3, <4>1, <4>2
    <3>6. CASE job[c].kind # "coach"
      <4>1. /\ desk[c].report.about = job[c].item /\ pc'[c] = "quarantining" /\ job' = job
        BY <2>5, <3>4, <3>6 DEF Save, IsAbout, Goto, WorldInv
      <4>2. U' \subseteq U
        BY <2>2, <2>3, <3>2, <3>3, <4>1
      <4>3. QED
        BY <1>3, <2>1, <3>3, <4>1, <4>2
    <3>7. QED
      BY <3>5, <3>6
  <2>6. CASE LoadQuarantine(c)
    <3>1. /\ pc[c] = "quarantining" /\ pc'[c] = "marking" /\ job' = job /\ quarantine' = quarantine
          /\ desk'[c].ids = quarantine /\ kills' = kills
      BY <2>6 DEF LoadQuarantine, Goto, Hold, unchangedByClerk, WorldInv
    <3>2. ~Save(c)
      BY <3>1 DEF Save
    <3>3. U' \subseteq U
      BY <2>2, <2>3, <2>4, <3>1, <3>2
    <3>4. QED
      BY <1>3, <2>1, <3>1, <3>3
  <2>7. CASE Quarantine(c)
    <3>1. /\ pc[c] = "marking" /\ pc'[c] = "idle" /\ kills' = kills
          /\ quarantine' = desk[c].ids \cup {job[c].item}
      BY <2>7, Ends DEF Quarantine, unchangedByClerk
    <3>2. desk[c].ids = quarantine
      BY <1>1, <3>1 DEF QuarantineInv
    <3>3. ~Save(c)
      BY <3>1 DEF Save
    <3>4. U' \subseteq U
      BY <2>2, <2>3, <2>4, <3>1, <3>2, <3>3
    <3>5. QED
      BY <1>3, <2>1, <3>1, <3>4
  <2>8. CASE Kill(c)
    <3>1. quarantine' = quarantine /\ kills' = kills + 1 /\ pc'[c] = "idle" /\ reports' = reports
      BY <2>8, Ends DEF Kill, disk
    <3>2. Diagnosed' = Diagnosed
      BY <3>1 DEF Diagnosed
    <3>3. U' \subseteq U \cup {job[c].item}
      BY <2>2, <3>1, <3>2
    <3>4. Cardinality(U') \in Nat /\ Cardinality(U') <= Cardinality(U) + 1
      BY <1>2, <3>3, OneMore
    <3>8. Cardinality(U') <= kills'
      <4> HIDE DEF U
      <4>1. QED
        BY <1>2, <3>1, <3>4
    <3>9. QED
      BY <2>1, <3>1, <3>8
  <2>9. CASE ~Save(c) /\ ~LoadQuarantine(c) /\ ~Quarantine(c) /\ ~Kill(c)
    <3>1. quarantine' = quarantine /\ kills' = kills /\ pc'[c] \notin {"quarantining", "marking"}
          /\ pc[c] \notin {"quarantining", "marking"}
      BY <1>5, <2>9 DEF Clerk, Start, Ask, Call, Draft, Load, Pick, Write, Stamp, Done, Goto, Busy,
                        unchangedByClerk, disk, WorldInv
    <3>2. U' \subseteq U
      BY <2>2, <2>3, <2>4, <2>9, <3>1
    <3>3. QED
      BY <1>3, <2>1, <3>1, <3>2
  <2>10. QED
    BY <2>5, <2>6, <2>7, <2>8, <2>9
<1>6. QED
  BY <1>4, <1>5 DEF Next

\* What may have been paid more than once only grows.
LEMMA AllowedStep ==
  ASSUME WorldInv, \A d \in Clerks : Holds(d), NumbersInv, ClockInv, Next
  PROVE  /\ Allowed \in Nat /\ Allowed' \in Nat /\ Allowed <= Allowed'
         /\ kills' # kills => Allowed + 1 <= Allowed'
         /\ again' # again => Allowed + 1 <= Allowed'
         /\ HeldOut' # HeldOut => Allowed + 1 <= Allowed'
<1> DEFINE h == Cardinality(HeldOut)
           h1 == Cardinality(HeldOut')
<1>1. IsFiniteSet(HeldOut) /\ IsFiniteSet(HeldOut')
  <2>1. WorldInv'
    BY WorldStep
  <2>2. DOMAIN reports' \in SUBSET Nat /\ clock' \in Nat /\ \A n \in DOMAIN reports' : n <= clock'
    BY <2>1 DEF WorldInv
  <2>3. IsFiniteSet(DOMAIN reports')
    BY <2>2, FS_BoundedSetOfNaturals
  <2>4. IsFiniteSet(HeldOut')
    BY <2>3, FS_Subset DEF HeldOut
  <2>5. QED
    BY <2>4, FiniteRecords
<1>2. h \in Nat /\ h1 \in Nat
  BY <1>1, FS_CardinalityType
<1>3. HeldOut \in SUBSET HeldOut'
  BY ReportsStay DEF HeldOut
<1>4. h <= h1 /\ (HeldOut' # HeldOut => h # h1)
  BY <1>1, <1>3, FS_Subset
<1>5. /\ kills \in Nat /\ (kills' = kills \/ kills' = kills + 1)
      /\ again \in Nat /\ (again' = again \/ again' = again + 1)
  <2>1. kills \in Nat /\ again \in Nat
    BY DEF WorldInv
  <2>2. CASE DevEval \/ \E f \in Files : HandEdit(f)
    BY <2>1, <2>2 DEF DevEval, HandEdit, hist
  <2>3. ASSUME NEW c \in Clerks, Clerk(c)
        PROVE  (kills' = kills \/ kills' = kills + 1) /\ (again' = again \/ again' = again + 1)
    BY <2>3 DEF Clerk, Start, Ask, Call, Draft, Save, LoadQuarantine, Quarantine, Load, Pick,
                Write, Stamp, Kill, unchangedByClerk, hist
  <2>4. QED
    BY <2>1, <2>2, <2>3 DEF Next
<1>6. Allowed = again + kills + h /\ Allowed' = again' + kills' + h1
  BY DEF Allowed
<1>7. HeldOut' = HeldOut \/ h + 1 <= h1
  <2>1. h = h1 \/ h + 1 <= h1
    <3> HIDE DEF h, h1
    <3>1. QED
      BY <1>2, <1>4
  <2>2. QED
    BY <1>4, <2>1
<1> HIDE DEF h, h1
<1>8. Allowed \in Nat /\ Allowed' \in Nat /\ Allowed <= Allowed'
  BY <1>2, <1>4, <1>5, <1>6
<1>9. kills' # kills => Allowed + 1 <= Allowed'
  BY <1>2, <1>4, <1>5, <1>6
<1>10. again' # again => Allowed + 1 <= Allowed'
  BY <1>2, <1>4, <1>5, <1>6
<1>11. h + 1 <= h1 => Allowed + 1 <= Allowed'
  BY <1>2, <1>4, <1>5, <1>6
<1>12. QED
  BY <1>7, <1>8, <1>9, <1>10, <1>11

\* One dev run and its report, as long as commands wait for each other.
Coached(n) ==
  /\ paid[n] <= 1 + Allowed
  /\ paid[n] > Allowed =>
       \/ n < runs
       \/ reports # << >> /\ reports[Latest].about = n
       \/ \E c \in Clerks : Coaching(c) /\ pc[c] # "calling" /\ About(c) = n

Waits(c) ==
  /\ Coaching(c) =>
       /\ \A n \in 1..MaxRuns : n > About(c) => paid[n] = 0
       /\ pc[c] = "calling" /\ ~job[c].regenerate => paid[About(c)] <= Allowed
  /\ pc[c] = "saving" => \A k \in DOMAIN reports : k < desk[c].stamp

LEMMA PaidParts ==
  /\ PaidInv <=> /\ paid \in [1..MaxRuns -> Nat]
                 /\ \A n \in 1..MaxRuns : n > runs => paid[n] = 0
                 /\ ~overlapped => /\ \A n \in 1..MaxRuns : Coached(n)
                                   /\ \A c \in Clerks : Waits(c)
  /\ PaidInv' <=> /\ paid' \in [1..MaxRuns -> Nat]
                  /\ \A n \in 1..MaxRuns : n > runs' => paid'[n] = 0
                  /\ ~overlapped' => /\ \A n \in 1..MaxRuns : Coached(n)'
                                     /\ \A c \in Clerks : Waits(c)'
BY DEF PaidInv, Coached, Waits

\* A draft is about what was asked.
LEMMA DraftHolds ==
  ASSUME WorldInv, NEW c \in Clerks, Draft(c)
  PROVE  \E R : Hold(c, [stamp |-> clock + 1, report |-> R]) /\ R.about = desk[c].about
<1>1. PICK n \in 0..MaxProposals :
        \E drafts \in [1..n -> Answer] :
          Hold(c, [stamp |-> clock + 1, report |-> DraftedReport(desk[c].about, n, drafts)])
  BY DEF Draft, DraftedReport
<1>2. PICK drafts \in [1..n -> Answer] :
        Hold(c, [stamp |-> clock + 1, report |-> DraftedReport(desk[c].about, n, drafts)])
  BY <1>1
<1>3. DraftedReport(desk[c].about, n, drafts).about = desk[c].about
  BY DEF DraftedReport
<1>4. QED
  BY <1>2, <1>3

LEMMA PaidStep ==
  ASSUME WorldInv, \A d \in Clerks : Holds(d), NumbersInv, ClockInv, AloneInv, PaidInv, Next
  PROVE  PaidInv'
<1>1. /\ Allowed \in Nat /\ Allowed' \in Nat /\ Allowed <= Allowed'
      /\ kills' # kills => Allowed + 1 <= Allowed'
      /\ again' # again => Allowed + 1 <= Allowed'
      /\ HeldOut' # HeldOut => Allowed + 1 <= Allowed'
  BY AllowedStep
<1>2. /\ paid \in [1..MaxRuns -> Nat]
      /\ \A n \in 1..MaxRuns : n > runs => paid[n] = 0
      /\ ~overlapped => /\ \A n \in 1..MaxRuns : Coached(n)
                        /\ \A c \in Clerks : Waits(c)
  BY PaidParts
<1>3. runs \in 0..MaxRuns /\ runs' \in Nat /\ runs <= runs' /\ MaxRuns \in Nat
  BY ReportsStay, CoachDeskAssumption DEF WorldInv
<1>4. \A n \in 1..MaxRuns : paid[n] \in Nat /\ n \in Nat
  BY <1>2
<1>5. ASSUME NEW n \in 1..MaxRuns, paid'[n] = paid[n], Allowed + 1 <= Allowed', Coached(n)
      PROVE  Coached(n)'
  <2>1. paid[n] <= 1 + Allowed /\ paid[n] \in Nat
    BY <1>4, <1>5 DEF Coached
  <2>2. paid'[n] <= Allowed' /\ paid'[n] <= 1 + Allowed'
    BY <1>1, <1>5, <2>1
  <2>3. ~(paid'[n] > Allowed')
    BY <1>1, <1>5, <2>1, <2>2
  <2>4. QED
    BY <2>2, <2>3 DEF Coached
\* Where the report of a run stays and nobody is coaching it, nothing changes for it.
<1>6. ASSUME NEW n \in 1..MaxRuns, paid'[n] = paid[n], DOMAIN reports' = DOMAIN reports,
             \A k \in DOMAIN reports : reports'[k].about = reports[k].about, Coached(n),
             \A c \in Clerks : Coaching(c) /\ pc[c] # "calling" =>
                                 \/ Coaching(c)' /\ pc'[c] # "calling" /\ About(c)' = About(c)
      PROVE  Coached(n)'
  <2>1. paid[n] <= 1 + Allowed /\ paid[n] \in Nat
    BY <1>4, <1>6 DEF Coached
  <2>2. paid'[n] <= 1 + Allowed' /\ (paid'[n] > Allowed' => paid[n] > Allowed)
    BY <1>1, <1>6, <2>1
  <2>3. n < runs => n < runs'
    BY <1>3
  <2>4. reports # << >> /\ reports[Latest].about = n =>
          reports' # << >> /\ reports'[Latest'].about = n
    <3>1. Latest' = Latest
      BY <1>6 DEF Latest
    <3>2. SUFFICES ASSUME reports # << >>, reports[Latest].about = n
                   PROVE  reports' # << >> /\ reports'[Latest'].about = n
      OBVIOUS
    <3>3. Latest \in DOMAIN reports
      BY <3>2, LatestIsOne
    <3>4. QED
      BY <1>6, <3>1, <3>2, <3>3
  <2>5. (\E c \in Clerks : Coaching(c) /\ pc[c] # "calling" /\ About(c) = n) =>
          \E c \in Clerks : Coaching(c)' /\ pc'[c] # "calling" /\ About(c)' = n
    BY <1>6
  <2>6. paid[n] > Allowed =>
          \/ n < runs
          \/ reports # << >> /\ reports[Latest].about = n
          \/ \E c \in Clerks : Coaching(c) /\ pc[c] # "calling" /\ About(c) = n
    BY <1>6 DEF Coached
  <2>7. paid'[n] > Allowed' =>
          \/ n < runs'
          \/ reports' # << >> /\ reports'[Latest'].about = n
          \/ \E c \in Clerks : Coaching(c)' /\ pc'[c] # "calling" /\ About(c)' = n
    BY <2>2, <2>3, <2>4, <2>5, <2>6
  <2>8. QED
    BY <2>2, <2>7 DEF Coached
<1>7. CASE DevEval \/ \E f \in Files : HandEdit(f)
  <2>1. UNCHANGED <<local, reports, paid, overlapped>>
    BY <1>7 DEF DevEval, HandEdit, hist
  <2>2. \A c \in Clerks : (Coaching(c)' <=> Coaching(c)) /\ About(c)' = About(c)
    BY <2>1 DEF local, Coaching, About
  <2>3. ASSUME ~overlapped, NEW c \in Clerks
        PROVE  Waits(c)'
    <3>1. Coaching(c) /\ pc[c] = "calling" => About(c) \in 1..MaxRuns
      BY CoachDeskAssumption DEF Coaching, About, Holds, IsAbout, WorldInv
    <3>2. Coaching(c) /\ pc[c] = "calling" /\ ~job[c].regenerate => paid[About(c)] <= Allowed'
      <4>1. Coaching(c) /\ pc[c] = "calling" /\ ~job[c].regenerate => paid[About(c)] <= Allowed
        BY <1>2, <2>3 DEF Waits
      <4>2. QED
        BY <1>1, <1>4, <3>1, <4>1
    <3>3. QED
      BY <1>2, <2>1, <2>2, <2>3, <3>2 DEF Waits, local
  <2>4. \A n \in 1..MaxRuns : n > runs' => paid'[n] = 0
    BY <1>2, <1>3, <2>1
  <2>5. ~overlapped => \A n \in 1..MaxRuns : Coached(n)'
    BY <1>2, <1>6, <2>1, <2>2 DEF local
  <2>6. QED
    BY <1>2, <2>1, <2>3, <2>4, <2>5, PaidParts
<1>8. ASSUME NEW c \in Clerks, Clerk(c)
      PROVE  PaidInv'
  <2>1. runs' = runs
    BY <1>8 DEF Clerk, Start, Ask, Call, Draft, Save, LoadQuarantine, Quarantine, Load, Pick,
                Write, Stamp, Kill, unchangedByClerk, disk
  <2>2. \/ paid' = paid /\ ~(Call(c) /\ job[c].kind = "coach")
        \/ /\ Call(c) /\ job[c].kind = "coach" /\ desk[c].about \in 1..runs
           /\ paid' = [paid EXCEPT ![desk[c].about] = @ + 1]
    <3>1. CASE Call(c) /\ job[c].kind = "coach"
      <4>1. desk[c].about \in 1..runs
        BY <3>1, CommandHas DEF Call, Holds, IsAbout
      <4>2. QED
        BY <3>1, <4>1 DEF Call
    <3>2. CASE ~(Call(c) /\ job[c].kind = "coach")
      BY <1>8, <3>2 DEF Clerk, Start, Ask, Call, Draft, Save, LoadQuarantine, Quarantine, Load,
                Pick, Write, Stamp, Kill, hist
    <3>3. QED
      BY <3>1, <3>2
  <2>3. paid' \in [1..MaxRuns -> Nat] /\ \A n \in 1..MaxRuns : n > runs' => paid'[n] = 0
    <3>1. CASE paid' = paid
      BY <1>2, <2>1, <3>1
    <3>2. ASSUME NEW a \in 1..runs, paid' = [paid EXCEPT ![a] = @ + 1]
          PROVE  paid' \in [1..MaxRuns -> Nat] /\ \A n \in 1..MaxRuns : n > runs' => paid'[n] = 0
      <4>1. a \in 1..MaxRuns /\ a <= runs /\ a \in Nat /\ runs \in Nat
        BY <1>3
      <4>2. paid' \in [1..MaxRuns -> Nat]
        BY <1>2, <3>2, <4>1
      <4>3. \A n \in 1..MaxRuns : n > runs => n # a
        BY <1>4, <4>1
      <4>4. \A n \in 1..MaxRuns : n # a => paid'[n] = paid[n]
        BY <1>2, <3>2
      <4>5. QED
        BY <1>2, <2>1, <4>2, <4>3, <4>4
    <3>3. QED
      BY <2>2, <3>1, <3>2
  <2> SUFFICES ASSUME ~overlapped'
               PROVE  /\ \A n \in 1..MaxRuns : Coached(n)'
                      /\ \A d \in Clerks : Waits(d)'
    BY <2>3, PaidParts
  <2>4. ~overlapped /\ \A d \in Clerks \ {c} : pc[d] = "idle" /\ pc'[d] = "idle"
    BY <1>8, Frame, Alone DEF Busy
  <2>5. (\A n \in 1..MaxRuns : Coached(n)) /\ Waits(c)
    BY <1>2, <2>4
  <2>6. \A d \in Clerks : (Coaching(d) => d = c) /\ (Coaching(d)' => d = c)
    BY <2>4 DEF Coaching
  <2>7. Waits(c)' => \A d \in Clerks : Waits(d)'
    BY <2>4, <2>6 DEF Waits
  <2>8. CASE Ask(c) /\ pc'[c] = "calling"
    <3>1. ~Done(c)
      BY <2>8, Ends
    <3>2. /\ pc[c] = "asking" /\ paid' = paid /\ reports' = reports /\ job' = job
          /\ job[c].kind = "coach" => runs # 0 /\ ~Reuse(c)
          /\ desk' = [desk EXCEPT ![c] = [about |-> IF job[c].kind = "coach" THEN runs
                                                    ELSE job[c].item]]
      BY <2>8, <3>1 DEF Ask, Hold
    <3>3. desk'[c].about = IF job[c].kind = "coach" THEN runs ELSE job[c].item
      BY <3>2 DEF WorldInv
    <3>4. ~Coaching(c)
      BY <3>2 DEF Coaching
    <3>5. \A n \in 1..MaxRuns : Coached(n)'
      BY <1>6, <2>5, <2>6, <3>2, <3>4
    <3>6. ASSUME Coaching(c)'
          PROVE  /\ \A n \in 1..MaxRuns : n > About(c)' => paid'[n] = 0
                 /\ ~job'[c].regenerate => paid'[About(c)'] <= Allowed'
      <4>1. job[c].kind = "coach" /\ About(c)' = runs /\ runs \in 1..MaxRuns
        BY <1>3, <2>8, <3>2, <3>3, <3>6 DEF Coaching, About
      <4>2. ASSUME ~job[c].regenerate
            PROVE  paid[runs] <= Allowed'
        <5>1. ~(reports # << >> /\ reports[Latest].about = runs)
          BY <3>2, <4>1, <4>2 DEF Reuse
        <5>2. ~(paid[runs] > Allowed)
          BY <1>3, <2>5, <2>6, <3>4, <4>1, <5>1 DEF Coached
        <5>3. QED
          BY <1>1, <1>4, <4>1, <5>2
      <4>3. QED
        BY <1>2, <3>2, <4>1, <4>2
    <3>7. Waits(c)'
      BY <2>8, <3>6 DEF Waits
    <3>8. QED
      BY <2>7, <3>5, <3>7
  <2>9. CASE Call(c) /\ job[c].kind = "coach"
    <3>0. PICK a : a = desk[c].about
      OBVIOUS
    <3>1. /\ pc[c] = "calling" /\ pc'[c] = "drafting" /\ job' = job /\ desk' = desk
          /\ reports' = reports /\ again' = IF job[c].regenerate THEN again + 1 ELSE again
      BY <2>9 DEF Call, Goto, WorldInv
    <3>2. a \in 1..runs /\ a \in 1..MaxRuns /\ paid' = [paid EXCEPT ![a] = @ + 1]
      BY <1>3, <2>2, <2>9, <3>0
    <3>3. About(c) = a /\ About(c)' = a /\ Coaching(c) /\ Coaching(c)'
      BY <2>9, <3>0, <3>1 DEF About, Coaching
    <3>4. \A n \in 1..MaxRuns \ {a} : paid'[n] = paid[n]
      BY <1>2, <3>2
    <3>5. paid'[a] = paid[a] + 1 /\ paid[a] \in Nat
      BY <1>2, <3>2
    <3>6. paid'[a] <= 1 + Allowed'
      <4>1. CASE job[c].regenerate
        <5>1. Allowed + 1 <= Allowed'
          BY <1>1, <3>1, <4>1 DEF WorldInv
        <5>2. paid[a] <= 1 + Allowed
          BY <2>5, <3>2 DEF Coached
        <5>3. QED
          BY <1>1, <3>5, <5>1, <5>2
      <4>2. CASE ~job[c].regenerate
        <5>1. paid[a] <= Allowed
          BY <2>5, <3>1, <3>3, <4>2 DEF Waits
        <5>2. QED
          BY <1>1, <3>5, <5>1
      <4>3. QED
        BY <4>1, <4>2
    <3>7. Coached(a)'
      BY <3>1, <3>3, <3>6 DEF Coached
    <3>8. \A n \in 1..MaxRuns \ {a} : Coached(n)'
      BY <1>6, <2>5, <2>6, <3>1, <3>4
    <3>9. \A n \in 1..MaxRuns : n > a => paid'[n] = 0
      <4>1. \A n \in 1..MaxRuns : n > a => paid[n] = 0
        BY <2>5, <3>3 DEF Waits
      <4>2. a \in Nat
        BY <3>2
      <4>3. \A n \in 1..MaxRuns : n > a => n # a
        BY <1>4, <4>2
      <4>4. QED
        BY <3>4, <4>1, <4>3
    <3>10. Waits(c)'
      BY <3>1, <3>3, <3>9 DEF Waits
    <3>11. \A n \in 1..MaxRuns : Coached(n)'
      <4>1. ASSUME NEW n \in 1..MaxRuns
            PROVE  Coached(n)'
        <5>1. CASE n = a
          BY <3>7, <5>1
        <5>2. CASE n # a
          BY <3>8, <5>2
        <5>3. QED
          BY <5>1, <5>2
      <4>2. QED
        BY <4>1
    <3>12. QED
      BY <2>7, <3>10, <3>11
  <2>10. CASE Draft(c)
    <3>1. PICK R : /\ Hold(c, [stamp |-> clock + 1, report |-> R]) /\ R.about = desk[c].about
      BY <2>10, DraftHolds
    <3>2. /\ pc[c] = "drafting" /\ pc'[c] = "saving" /\ job' = job /\ reports' = reports
          /\ paid' = paid
      BY <2>10 DEF Draft, Goto, WorldInv
    <3>3. desk'[c].stamp = clock + 1 /\ desk'[c].report.about = desk[c].about
      BY <3>1 DEF Hold, WorldInv
    <3>4. (Coaching(c)' <=> Coaching(c)) /\ About(c)' = About(c)
      BY <3>2, <3>3 DEF Coaching, About
    <3>5. \A n \in 1..MaxRuns : Coached(n)'
      BY <1>6, <2>5, <2>6, <3>2, <3>4
    <3>6. \A k \in DOMAIN reports : k < clock + 1
      BY DEF WorldInv
    <3>7. Waits(c)'
      BY <2>5, <3>2, <3>3, <3>4, <3>6 DEF Waits
    <3>8. QED
      BY <2>7, <3>5, <3>7
  <2>11. CASE Save(c)
    <3> DEFINE s == desk[c].stamp
               a == desk[c].report.about
    <3>1. /\ s \in Nat /\ s \notin DOMAIN reports
          /\ DOMAIN reports' = DOMAIN reports \cup {s}
          /\ \A n \in DOMAIN reports : reports'[n].about = reports[n].about
          /\ reports'[s].about = a
      BY <1>8, <2>11, AboutStep
    <3>2. pc[c] = "saving" /\ paid' = paid /\ pc'[c] \in {"idle", "quarantining"}
      BY <2>11, Ends DEF Save, Goto, WorldInv
    <3>3. Waits(c)'
      BY <3>2 DEF Waits, Coaching
    <3>4. CASE job[c].kind = "coach"
      <4>1. Coaching(c) /\ About(c) = a /\ a \in 1..runs
        BY <3>2, <3>4, CommandHas DEF Coaching, About, Holds, IsAbout
      <4>2. \A k \in DOMAIN reports' : k <= s
        BY <2>5, <3>1, <3>2 DEF Waits, WorldInv
      <4>3. Latest' = s /\ reports' # << >>
        <5>1. s \in DOMAIN reports' /\ \A m \in DOMAIN reports' : m \in Nat
          BY <3>1 DEF WorldInv
        <5> HIDE DEF s
        <5>2. \A m \in DOMAIN reports' : (\A k \in DOMAIN reports' : k <= m) => m = s
          BY <4>2, <5>1
        <5>3. QED
          BY <4>2, <5>1, <5>2 DEF Latest
      <4>4. ASSUME NEW n \in 1..MaxRuns
            PROVE  Coached(n)'
        <5>1. paid[n] <= 1 + Allowed /\ paid[n] \in Nat /\ n \in Nat
          BY <1>4, <2>5 DEF Coached
        <5>2. paid'[n] <= 1 + Allowed'
          BY <1>1, <3>2, <5>1
        <5>3. ASSUME paid'[n] > Allowed'
              PROVE  n < runs' \/ n = a
          <6>1. paid[n] # 0
            BY <1>1, <3>2, <5>1, <5>3
          <6>2. ~(n > a)
            BY <2>5, <4>1, <6>1 DEF Waits
          <6>3. a \in Nat /\ a <= runs /\ runs \in Nat
            BY <1>3, <4>1
          <6> HIDE DEF a
          <6>4. QED
            BY <2>1, <5>1, <6>2, <6>3
        <5>4. QED
          BY <3>1, <4>3, <5>2, <5>3 DEF Coached
      <4>5. QED
        BY <2>7, <3>3, <4>4
    <3>5. CASE job[c].kind # "coach"
      <4>1. a \in Items
        BY <3>2, <3>5, CommandHas DEF Holds, IsAbout
      <4>2. HeldOut' # HeldOut
        BY <3>1, <4>1 DEF HeldOut
      <4>3. \A n \in 1..MaxRuns : Coached(n)'
        BY <1>1, <1>5, <2>5, <3>2, <4>2
      <4>4. QED
        BY <2>7, <3>3, <4>3
    <3>6. QED
      BY <3>4, <3>5
  <2>12. CASE Kill(c)
    <3>1. kills' = kills + 1 /\ paid' = paid /\ pc'[c] = "idle"
      BY <2>12, Ends DEF Kill, hist
    <3>2. kills' # kills
      BY <3>1 DEF WorldInv
    <3>3. \A n \in 1..MaxRuns : Coached(n)'
      BY <1>1, <1>5, <2>5, <3>1, <3>2
    <3>4. Waits(c)'
      BY <3>1 DEF Waits, Coaching
    <3>5. QED
      BY <2>7, <3>3, <3>4
  <2>13. CASE Call(c) /\ job[c].kind # "coach"
    <3>1. /\ paid' = paid /\ reports' = reports /\ job' = job /\ pc'[c] = "drafting"
      BY <2>13 DEF Call, Goto, WorldInv
    <3>2. ~Coaching(c) /\ ~Coaching(c)'
      BY <2>13, <3>1 DEF Coaching
    <3>3. \A n \in 1..MaxRuns : Coached(n)'
      BY <1>6, <2>5, <2>6, <3>1, <3>2
    <3>4. Waits(c)'
      BY <3>1, <3>2 DEF Waits
    <3>5. QED
      BY <2>7, <3>3, <3>4
  <2>14. CASE \/ Start(c) \/ (Ask(c) /\ pc'[c] # "calling") \/ LoadQuarantine(c) \/ Quarantine(c)
              \/ Load(c) \/ Pick(c) \/ Write(c) \/ Stamp(c)
    <3>1. /\ pc[c] \notin {"calling", "drafting", "saving"}
          /\ pc'[c] \notin {"calling", "drafting", "saving"} /\ ~Save(c) /\ paid' = paid
      BY <2>14 DEF Start, Ask, LoadQuarantine, Quarantine, Load, Pick, Write, Stamp, Save, Done,
                   Goto, Busy, WorldInv, hist
    <3>2. ~Coaching(c) /\ ~Coaching(c)' /\ pc'[c] # "saving"
      BY <3>1 DEF Coaching
    <3>3. /\ DOMAIN reports' = DOMAIN reports
          /\ \A n \in DOMAIN reports : reports'[n].about = reports[n].about
      BY <1>8, <3>1, AboutStep
    <3>4. \A n \in 1..MaxRuns : Coached(n)'
      BY <1>6, <2>5, <2>6, <3>1, <3>2, <3>3
    <3>5. Waits(c)'
      BY <3>2 DEF Waits
    <3>6. QED
      BY <2>7, <3>4, <3>5
  <2>15. QED
    BY <1>8, <2>8, <2>9, <2>10, <2>11, <2>12, <2>13, <2>14 DEF Clerk
<1>9. QED
  BY <1>7, <1>8 DEF Next

-----------------------------------------------------------------------------
(* The theorems                                                            *)

LEMMA InvStep == Inv /\ [Next]_vars => Inv'
<1> SUFFICES ASSUME Inv, [Next]_vars PROVE Inv'
  OBVIOUS
<1>1. CASE Next
  <2>1. WorldInv /\ (\A d \in Clerks : Holds(d)) /\ NumbersInv /\ ClockInv /\ BlocksInv
        /\ OnceInv /\ AloneInv /\ StampsInv /\ NamesInv /\ CopiesInv /\ FreshInv
        /\ StampingInv /\ QuarantineInv /\ PaidInv
    BY DEF Inv
  <2>2. WorldInv' /\ (\A d \in Clerks : Holds(d)') /\ NumbersInv' /\ ClockInv' /\ AloneInv'
    BY <1>1, <2>1, WorldStep, HoldsStep, NumbersStep, ClockStep, AloneStep
  <2>3. BlocksInv' /\ OnceInv' /\ StampsInv'
    BY <1>1, <2>1, BlocksStep, OnceStep, StampsStep
  <2>4. NamesInv' /\ CopiesInv' /\ FreshInv' /\ StampingInv'
    BY <1>1, <2>1, NamesStep, CopiesStep, FreshStep, StampingStep
  <2>5. QuarantineInv' /\ PaidInv'
    BY <1>1, <2>1, QuarantineStep, PaidStep
  <2>6. QED
    BY <2>2, <2>3, <2>4, <2>5 DEF Inv
<1>2. CASE UNCHANGED vars
  <2>1. UNCHANGED <<disk, clock, local, commands, kills, hands, hist, overlapped>>
    BY <1>2 DEF vars
  <2>2. WorldInv' /\ (\A d \in Clerks : Holds(d)')
    BY SMTT(30), <2>1 DEF Inv, WorldInv, Holds, IsAbout, Picked, disk, local, hist
  <2>3. NumbersInv' /\ ClockInv' /\ AloneInv'
    BY <2>1 DEF Inv, NumbersInv, ClockInv, Drafting, AloneInv, Busy, disk, local
  <2>4. Lines' = Lines
    BY <2>1 DEF Lines, Kept, disk, local
  <2>5. BlocksInv'
    BY <2>1, <2>4 DEF Inv, BlocksInv, Drawn, disk, local
  <2>6. OnceInv'
    BY <2>1, <2>4 DEF Inv, OnceInv, Guarded, Picked, disk, local, hist
  <2>7. StampsInv'
    BY <2>1, <2>4 DEF Inv, StampsInv, Gone, Picked, disk, local, hist
  <2>8. NamesInv' /\ CopiesInv' /\ FreshInv'
    BY <2>1 DEF Inv, NamesInv, CopiesInv, FreshInv, disk, local
  <2>9. StampingInv'
    <3>1. \A n, i : \A c \in Clerks : Stamping(c, n, i) <=> Stamping(c, n, i)'
      BY <2>1 DEF Stamping, local
    <3>2. \A c \in Clerks : Picked(c)' = Picked(c)
      BY <2>1 DEF Picked, local
    <3>3. \A n \in DOMAIN reports : \A i \in DOMAIN reports[n].proposals :
            InFile(reports[n].proposals[i])' => InFile(reports[n].proposals[i])
      BY <2>1, <3>2 DEF InFile, disk, local
    <3>4. StampingInv
      BY DEF Inv
    <3>5. QED
      BY <2>1, <3>1, <3>3, <3>4 DEF StampingInv, disk
  <2>10. QuarantineInv'
    BY <2>1 DEF Inv, QuarantineInv, Pending, Diagnosed, disk, local
  <2>11. PaidInv'
    <3>1. Allowed' = Allowed /\ Latest' = Latest
      BY <2>1 DEF Allowed, HeldOut, Latest, disk, hist
    <3>2. \A c \in Clerks : (Coaching(c)' <=> Coaching(c)) /\ About(c)' = About(c)
      BY <2>1 DEF Coaching, About, local
    <3>3. /\ \A n \in 1..MaxRuns : Coached(n) => Coached(n)'
          /\ \A c \in Clerks : Waits(c) => Waits(c)'
      BY <2>1, <3>1, <3>2 DEF Coached, Waits, disk, local, hist
    <3>4. PaidInv
      BY DEF Inv
    <3>5. QED
      BY <2>1, <3>3, <3>4, PaidParts DEF disk, hist
  <2>12. QED
    BY <2>2, <2>3, <2>5, <2>6, <2>7, <2>8, <2>9, <2>10, <2>11 DEF Inv
<1>3. QED
  BY <1>1, <1>2

LEMMA SpecInv == Spec => []Inv
BY InvInit, InvStep, PTL DEF Spec

\* Reports have numbers up to the clock, a clerk that saves or applies one has one in hand,
\* and nothing leaves the sets it is drawn from; every command drafts one report at most.
THEOREM TypeCorrect == Spec => []TypeOK
<1>1. Inv => TypeOK
  <2> SUFFICES ASSUME Inv PROVE TypeOK
    OBVIOUS
  <2>1. WorldInv /\ (\A d \in Clerks : Holds(d)) /\ ClockInv
    BY DEF Inv
  <2>2. clock \in 0..MaxCommands
    BY <2>1, ClockBound, CoachDeskAssumption DEF WorldInv
  <2>3. \A c \in Clerks :
          pc[c] \in {"saving", "picking", "writing"} =>
            desk[c].stamp \in 1..clock /\ desk[c].report \in Report
    BY <2>1 DEF Holds, WorldInv
  <2>4. paid \in [1..MaxRuns -> Nat]
    BY DEF Inv, PaidInv
  <2>5. \A c \in Clerks : pc[c] # "idle" => job[c] \in Commands
    BY <2>1 DEF Holds
  <2>6. QED
    BY <2>1, <2>2, <2>3, <2>4, <2>5 DEF WorldInv, TypeOK
<1>2. QED
  BY <1>1, SpecInv, PTL

\* An edit whose fingerprint is on record is in its file at most once unless it was forced:
\* applying it changes the text the fingerprint was taken from, whoever applies it a second
\* time, from whatever copy of the report, before or after the stamp, finds another text, and
\* a text that is put back is hand-written.
THEOREM EditsLandOnce == Spec => []AppliedOnce
<1>1. Inv => AppliedOnce
  <2> SUFFICES ASSUME Inv, NEW p \in Saved, p.seen # << >>, p.file # Unsafe, p.block \notin forced
               PROVE  Count(p.block, text[p.file]) <= 1
    BY DEF AppliedOnce
  <2>1. WorldInv /\ (\A d \in Clerks : Holds(d)) /\ OnceInv
    BY DEF Inv
  <2>2. p \in Lines
    BY DEF Saved, Lines, Kept
  <2>3. p.file \in Files
    BY <2>1, <2>2, LinesAreProposals DEF Proposal
  <2>4. Once(p.block, text[p.file])
    BY <2>1, <2>2, <2>3 DEF OnceInv, Guarded
  <2>5. text[p.file] \in Seq(Nat)
    BY <2>1, <2>3, BlocksAreNumbers DEF WorldInv
  <2>6. QED
    BY <2>4, <2>5, Counting
<1>2. QED
  BY <1>1, SpecInv, PTL

\* Among commands that wait for each other, what is stamped was written and is there, unless
\* a hand or the edit of another proposal took it away; what is in its file without a stamp
\* is being stamped, as long as none has died; and a killed one leaves at most one diagnosed
\* question out of quarantine.
THEOREM TheRecordsHold == Spec => []RecordsAreTrue
<1>1. Inv => RecordsAreTrue
  <2> SUFFICES ASSUME Inv, ~overlapped
               PROVE  /\ \A p \in Saved :
                           p.applied => /\ p.file # Unsafe
                                        /\ \/ p.file \in touched
                                           \/ p.block \in replaced
                                           \/ Count(p.block, text[p.file]) >= 1
                      /\ kills = 0 =>
                           \A p \in Unstamped : \E c \in Applying :
                             [p EXCEPT !.applied = TRUE] \in Range(desk[c].report.proposals)
                      /\ Cardinality(Diagnosed \ quarantine)
                           <= kills + Cardinality({c \in Clerks :
                                                     pc[c] \in {"quarantining", "marking"}})
    BY DEF RecordsAreTrue
  <2>1. /\ WorldInv /\ (\A d \in Clerks : Holds(d)) /\ StampsInv /\ CopiesInv /\ StampingInv
        /\ QuarantineInv /\ AloneInv
    BY DEF Inv
  <2>2. ASSUME NEW p \in Saved, p.file # Unsafe
        PROVE  /\ p \in Lines
               /\ Count(p.block, text[p.file]) >= 1 <=> Has(p.block, text[p.file])
    <3>1. p \in Lines
      BY DEF Saved, Lines, Kept
    <3>2. p.file \in Files
      BY <2>1, <2>2, <3>1, LinesAreProposals DEF Proposal
    <3>3. text[p.file] \in Seq(Nat)
      BY <2>1, <3>2, BlocksAreNumbers DEF WorldInv
    <3>4. QED
      BY <3>1, <3>3, Counting
  <2>3. ASSUME NEW p \in Saved, p.applied
        PROVE  /\ p.file # Unsafe
               /\ \/ p.file \in touched \/ p.block \in replaced
                  \/ Count(p.block, text[p.file]) >= 1
    <3>1. p \in Lines
      BY DEF Saved, Lines, Kept
    <3>2. p.file # Unsafe /\ (Gone(p) \/ Has(p.block, text[p.file]))
      BY <2>1, <2>3, <3>1 DEF StampsInv
    <3>3. QED
      BY <2>2, <3>2 DEF Gone
  <2>4. ASSUME kills = 0, NEW p \in Unstamped
        PROVE  \E c \in Applying : [p EXCEPT !.applied = TRUE] \in Range(desk[c].report.proposals)
    <3>1. p \in Saved /\ ~p.applied /\ p.file # Unsafe /\ Count(p.block, text[p.file]) >= 1
      BY DEF Unstamped
    <3>2. PICK n \in DOMAIN reports : p \in Range(reports[n].proposals)
      BY <3>1 DEF Saved
    <3>3. PICK i \in DOMAIN reports[n].proposals : p = reports[n].proposals[i]
      BY <3>2 DEF Range
    <3>4. InFile(p)
      BY <2>2, <3>1 DEF InFile
    <3>5. PICK c \in Clerks : Stamping(c, n, i)
      BY <2>1, <2>4, <3>1, <3>3, <3>4 DEF StampingInv
    <3> DEFINE q == desk[c].report.proposals[i]
    <3>6. /\ pc[c] \in {"picking", "writing"} /\ desk[c].stamp = n
          /\ i \in DOMAIN desk[c].report.proposals /\ q.applied
      BY <3>5 DEF Stamping
    <3>7. q = p \/ q = [p EXCEPT !.applied = TRUE]
      BY <2>1, <3>3, <3>6 DEF CopiesInv, CopyOf
    <3>8. q = [p EXCEPT !.applied = TRUE]
      BY <3>1, <3>6, <3>7
    <3>9. q \in Range(desk[c].report.proposals)
      BY <3>6 DEF Range
    <3>10. QED
      BY <3>6, <3>8, <3>9 DEF Applying
  <2>5. Cardinality(Diagnosed \ quarantine)
          <= kills + Cardinality({c \in Clerks : pc[c] \in {"quarantining", "marking"}})
    <3> DEFINE U == Diagnosed \ (quarantine \cup Pending)
               V == Diagnosed \ quarantine
               M == {c \in Clerks : pc[c] \in {"quarantining", "marking"}}
    <3>1. IsFiniteSet(U) /\ IsFiniteSet(V) /\ IsFiniteSet(M)
      BY <2>1, FiniteRecords, FS_Subset, CoachDeskAssumption
    <3>2. Cardinality(U) <= kills /\ kills \in Nat
      BY <2>1 DEF QuarantineInv, WorldInv
    <3>3. Cardinality(U) \in Nat /\ Cardinality(V) \in Nat /\ Cardinality(M) \in Nat
      BY <3>1, FS_CardinalityType
    <3>4. CASE M = {}
      <4>1. U = V
        BY <3>4 DEF Pending
      <4>2. Cardinality(V) <= kills
        BY <3>2, <4>1
      <4> HIDE DEF U, V, M
      <4>3. Cardinality(V) <= kills + Cardinality(M)
        BY <3>2, <3>3, <4>2
      <4>4. QED
        BY <4>3 DEF V, M
    <3>5. CASE M # {}
      <4>1. PICK c \in M : TRUE
        BY <3>5
      <4>2. M = {c}
        BY <2>1, <4>1 DEF AloneInv, Busy
      <4>3. Pending = {job[c].item}
        BY <4>2 DEF Pending
      <4>4. V \subseteq U \cup {job[c].item}
        BY <4>3
      <4>5. Cardinality(V) <= Cardinality(U) + 1
        BY <3>1, <4>4, OneMore
      <4>6. Cardinality(M) = 1
        BY <3>1, <4>2, FS_Singleton
      <4> HIDE DEF U, V, M
      <4>7. Cardinality(V) <= kills + Cardinality(M)
        BY <3>2, <3>3, <4>5, <4>6
      <4>8. QED
        BY <4>7 DEF V, M
    <3>6. QED
      BY <3>4, <3>5
  <2>6. QED
    BY <2>3, <2>4, <2>5
<1>2. QED
  BY <1>1, SpecInv, PTL

\* Among commands that wait for each other, a second call for one dev run was asked for, or
\* made up for one that died, or its report had lost its place to a held-out diagnosis.
THEOREM CoachedOnce == Spec => []PaidOncePerRun
<1>1. Inv => PaidOncePerRun
  <2> SUFFICES ASSUME Inv, ~overlapped, NEW n \in 1..MaxRuns
               PROVE  paid[n] <= 1 + again + kills + Cardinality(HeldOut)
    BY DEF PaidOncePerRun, HeldOut
  <2>1. WorldInv /\ paid[n] <= 1 + Allowed /\ paid[n] \in Nat
    BY DEF Inv, PaidInv
  <2> DEFINE h == Cardinality(HeldOut)
  <2>2. h \in Nat
    BY <2>1, FiniteRecords, FS_CardinalityType
  <2>3. Allowed = again + kills + h /\ again \in Nat /\ kills \in Nat
    BY <2>1 DEF Allowed, WorldInv
  <2> HIDE DEF h
  <2>4. paid[n] <= 1 + again + kills + h
    BY <2>1, <2>2, <2>3
  <2>5. QED
    BY <2>4 DEF h
<1>2. QED
  BY <1>1, SpecInv, PTL
=============================================================================
