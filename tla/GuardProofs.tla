----------------------------- MODULE GuardProofs ----------------------------
(***************************************************************************)
(* The proofs about the guards of a reply: the splitting of a text, the    *)
(* limits, the memory of texts (SendGuards) and the role of a sender       *)
(* (Identity); and about documents: that the chunks of a completed one     *)
(* are all of its text (Documents).                                        *)
(*                                                                         *)
(* Both models iterate over texts, and SendGuards over memories, by        *)
(* recursive functions.  What holds of each round is shown by induction    *)
(* over the set of rounds it holds of.                                     *)
(***************************************************************************)
EXTENDS ReplyGuards, Documents, TLAPS, FiniteSetTheorems, WellFoundedInduction

-----------------------------------------------------------------------------
(* Induction *)

\* Induction, about a set in place of an operator: what holds 0 and the successor of each of
\* its numbers holds them all.
LEMMA Induction ==
  ASSUME NEW P, 0 \in P, \A n \in Nat : n \in P => n + 1 \in P
  PROVE  Nat \subseteq P
  <1> DEFINE R == {ss \in Nat \X Nat : ss[1] < ss[2]}
             Left == Nat \ P
  <1>1. IsWellFoundedOn(R, Nat)
    BY NatLessThanWellFounded DEF OpToRel
  <1>2. SUFFICES ASSUME Left # {}
                 PROVE  FALSE
    OBVIOUS
  <1>3. PICK x \in Left : \A y \in Left : ~(<<y, x>> \in R)
    BY <1>1, <1>2, WFMin
  <1>4. x \in Nat /\ x # 0 /\ x - 1 \in Nat /\ <<x - 1, x>> \in R
    BY <1>3
  <1>5. x - 1 \in P
    BY <1>3, <1>4
  <1>6. (x - 1) + 1 \in P
    BY <1>4, <1>5
  <1> QED
    BY <1>3, <1>4, <1>6

\* A function whose values are given one after the other exists.
Steps(n, S) == [1 .. n -> [S -> S]]
Follows(f, n, S, c, step) ==
    /\ f \in [0 .. n -> S] /\ f[0] = c
    /\ \A i \in 1 .. n : f[i] = step[i][f[i - 1]]

LEMMA Iteration ==
  ASSUME NEW n \in Nat, NEW S, NEW c \in S, NEW step \in Steps(n, S)
  PROVE  \E f : Follows(f, n, S, c, step)
  <1> USE DEF Steps
  <1> DEFINE Made(f, m) == /\ f \in [0 .. m -> S] /\ f[0] = c
                           /\ \A i \in 1 .. m : f[i] = step[i][f[i - 1]]
             P == {m \in Nat : m <= n => \E f \in [0 .. m -> S] : Made(f, m)}
  <1>1. 0 \in P
    <2>1. [i \in 0 .. 0 |-> c] \in [0 .. 0 -> S] /\ Made([i \in 0 .. 0 |-> c], 0)
      OBVIOUS
    <2> QED
      BY <2>1
  <1>2. ASSUME NEW k \in Nat, k \in P
        PROVE  k + 1 \in P
    <2> DEFINE m == k + 1
    <2> SUFFICES ASSUME m <= n
                 PROVE  \E g \in [0 .. m -> S] : Made(g, m)
      OBVIOUS
    <2>3. m \in 1 .. n /\ m \in Nat /\ k = m - 1 /\ k <= n
      OBVIOUS
    <2>4. PICK f \in [0 .. k -> S] : Made(f, k)
      BY <1>2, <2>3
    <2> DEFINE g == [i \in 0 .. m |-> IF i = m THEN step[m][f[k]] ELSE f[i]]
    <2>5. step[m] \in [S -> S] /\ f[k] \in S
      BY <2>3, <2>4
    <2>6. g \in [0 .. m -> S]
      BY <2>3, <2>4, <2>5
    <2>7. g[0] = c
      BY <2>3, <2>4
    <2>8. \A i \in 1 .. m : g[i] = step[i][g[i - 1]]
      BY <2>3, <2>4
    <2> QED
      BY <2>6, <2>7, <2>8
  <1>3. Nat \subseteq P
    <2> HIDE DEF P
    <2> QED
      BY <1>1, <1>2, Induction
  <1>4. PICK f \in [0 .. n -> S] : Made(f, n)
    <2>1. n \in P
      BY <1>3
    <2> QED
      BY <2>1
  <1> QED
    BY <1>4 DEF Follows

\* A nonempty set of numbers up to n has a greatest one.
LEMMA Greatest ==
  ASSUME NEW n \in Nat, NEW S, S \subseteq 0 .. n, S # {}
  PROVE  Max(S) \in S /\ \A y \in S : y <= Max(S)
  <1> DEFINE P == {m \in Nat : (\E x \in S : x >= n - m) => \E x \in S : \A y \in S : x >= y}
  <1>1. 0 \in P
    OBVIOUS
  <1>2. ASSUME NEW m \in Nat, m \in P
        PROVE  m + 1 \in P
    <2> SUFFICES ASSUME NEW x \in S, x >= n - (m + 1)
                 PROVE  \E z \in S : \A y \in S : z >= y
      OBVIOUS
    <2>1. CASE \A y \in S : x >= y
      BY <2>1
    <2>2. CASE \E y \in S : ~(x >= y)
      <3>1. \E y \in S : y >= n - m
        BY <2>2
      <3> QED
        BY <1>2, <3>1
    <2> QED
      BY <2>1, <2>2
  <1>3. Nat \subseteq P
    <2> HIDE DEF P
    <2> QED
      BY <1>1, <1>2, Induction
  <1>4. \E x \in S : x >= n - n
    <2>1. PICK x \in S : TRUE
      OBVIOUS
    <2>2. x \in 0 .. n /\ x >= n - n
      OBVIOUS
    <2> QED
      BY <2>2
  <1>5. n \in P
    BY <1>3
  <1>6. \E x \in S : \A y \in S : x >= y
    BY <1>4, <1>5
  <1>7. Max(S) \in S /\ \A y \in S : Max(S) >= y
    BY <1>6, Zenon DEF Max
  <1>8. \A y \in S : y \in Int
    OBVIOUS
  <1> QED
    BY <1>7, <1>8

-----------------------------------------------------------------------------
(* Splitting *)

\* A cut is within the size of a part, and not before a low surrogate unless it leaves nothing.
LEMMA CutsFit ==
  ASSUME NEW t \in Seq({"char", "break", "high", "low"}), NEW total, NEW i, NEW from \in Nat
  PROVE  /\ Cut(t, total, i, from) \in 0 .. MaxChars
         /\ Cut(t, total, i, from) # 0 => t[from + Cut(t, total, i, from) + 1] # "low"
  <1> DEFINE natural == {k \in 1 .. MaxChars : t[from + k] = "break" /\ 10 * (k - 1) > 6 * MaxChars}
             at == IF i < total /\ natural # {} THEN Max(natural) ELSE MaxChars
             places == {0} \cup {k \in 1 .. at : t[from + k + 1] # "low"}
  <1>1. MaxChars \in Nat
    BY SendGuardsAssumption
  <1>2. natural # {} => Max(natural) \in natural
    <2>1. natural \subseteq 0 .. MaxChars
      BY <1>1
    <2> HIDE DEF natural
    <2> QED
      BY <1>1, <2>1, Greatest
  <1>3. at \in 0 .. MaxChars
    BY <1>1, <1>2
  <1> HIDE DEF at
  <1>4. places \subseteq 0 .. MaxChars /\ places # {}
    BY <1>1, <1>3
  <1>5. Max(places) \in places
    <2> HIDE DEF places
    <2> QED
      BY <1>1, <1>4, Greatest
  <1>6. Cut(t, total, i, from) = Max(places)
    BY DEF Cut, at
  <1> HIDE DEF places
  <1>7. Cut(t, total, i, from) \in places
    BY <1>5, <1>6
  <1> QED
    BY <1>3, <1>4, <1>7 DEF places

\* The kinds of a text's positions, and parts as pairs of positions.
Kinds == {"char", "break", "high", "low"}
Spans == Seq(Nat \X Nat)

\* A part that begins within the text ends within it, and before its size.
LEMMA PartsFit ==
  ASSUME NEW t \in Seq(Kinds), NEW i, NEW from \in Nat
  PROVE  /\ PartEnd(t, i, from) \in Nat
         /\ from <= Len(t) =>
               /\ from <= PartEnd(t, i, from) /\ PartEnd(t, i, from) <= Len(t)
               /\ PartEnd(t, i, from) - from <= MaxChars
               /\ i = MaxParts \/ PartEnd(t, i, from) \in {from, Len(t)}
                     \/ t[PartEnd(t, i, from) + 1] # "low"
  <1> DEFINE total == Min({(Len(t) + MaxChars - 1) \div MaxChars, MaxParts})
  <1>1. /\ MaxChars \in Nat \ {0} /\ MaxParts \in Nat \ {0} /\ NoteRoom \in Nat \ {0}
        /\ NoteRoom < MaxChars /\ Len(t) \in Nat
    BY SendGuardsAssumption
  <1>2. /\ Cut(t, total, i, from) \in 0 .. MaxChars
        /\ Cut(t, total, i, from) # 0 => t[from + Cut(t, total, i, from) + 1] # "low"
    BY CutsFit DEF Kinds
  <1>3. PartEnd(t, i, from) = IF Len(t) - from <= MaxChars THEN Len(t)
                              ELSE IF i = MaxParts THEN from + MaxChars - NoteRoom
                              ELSE from + Cut(t, total, i, from)
    BY DEF PartEnd
  <1> HIDE DEF total
  <1>4. CASE Len(t) - from <= MaxChars
    BY <1>1, <1>3, <1>4
  <1>5. CASE ~(Len(t) - from <= MaxChars) /\ i = MaxParts
    BY <1>1, <1>3, <1>5
  <1>6. CASE ~(Len(t) - from <= MaxChars) /\ i # MaxParts
    BY <1>1, <1>2, <1>3, <1>6
  <1> QED
    BY <1>4, <1>5, <1>6

\* What Split appends in round i.
NextParts(t, i, parts) ==
    LET from == IF parts = <<>> THEN 0 ELSE Last(parts)[2]
    IN IF parts # <<>> /\ from = Len(t) THEN parts
       ELSE Append(parts, <<from, PartEnd(t, i, from)>>)

\* Split goes on from one round to the next.
LEMMA SplitRounds ==
  ASSUME NEW t \in Seq(Kinds)
  PROVE  \E after \in [0 .. MaxParts -> Spans] :
            /\ Split(t) = after[MaxParts]
            /\ after[0] = <<>>
            /\ \A i \in 1 .. MaxParts : after[i] = NextParts(t, i, after[i - 1])
  <1> DEFINE step == [i \in 1 .. MaxParts |-> [parts \in Spans |-> NextParts(t, i, parts)]]
  <1>1. MaxParts \in Nat
    BY SendGuardsAssumption
  <1>2. ASSUME NEW i \in 1 .. MaxParts, NEW parts \in Spans
        PROVE  NextParts(t, i, parts) \in Spans
    <2> DEFINE from == IF parts = <<>> THEN 0 ELSE Last(parts)[2]
    <2>1. parts # <<>> => Last(parts) \in Nat \X Nat
      BY DEF Last, Spans
    <2>2. from \in Nat
      BY <2>1
    <2> HIDE DEF from
    <2>3. <<from, PartEnd(t, i, from)>> \in Nat \X Nat
      BY <2>2, PartsFit
    <2>4. Append(parts, <<from, PartEnd(t, i, from)>>) \in Spans
      BY <2>3 DEF Spans
    <2> QED
      BY <2>4 DEF NextParts, from
  <1>3. <<>> \in Spans
    BY DEF Spans
  <1>4. PICK f \in [0 .. MaxParts -> Spans] :
           f[0] = <<>> /\ \A i \in 1 .. MaxParts : f[i] = step[i][f[i - 1]]
    <2> HIDE DEF Spans
    <2>1. step \in Steps(MaxParts, Spans)
      BY <1>2 DEF Steps
    <2> DEFINE none == <<>>
    <2>2. none \in Spans
      BY <1>3
    <2> HIDE DEF step, none
    <2>3. PICK f : Follows(f, MaxParts, Spans, none, step)
      BY <1>1, <2>1, <2>2, Iteration
    <2> QED
      BY <2>3 DEF Follows, none
  <1>5. \A i \in 1 .. MaxParts : f[i - 1] \in Spans
    <2> HIDE DEF Spans
    <2> QED
      BY <1>1
  <1>6. f = [i \in 0 .. MaxParts |-> IF i = 0 THEN <<>> ELSE NextParts(t, i, f[i - 1])]
    <2> HIDE DEF Spans
    <2>1. \A i \in 1 .. MaxParts : step[i][f[i - 1]] = NextParts(t, i, f[i - 1])
      BY <1>5
    <2> HIDE DEF step
    <2>2. \A i \in 0 .. MaxParts : f[i] = IF i = 0 THEN <<>> ELSE NextParts(t, i, f[i - 1])
      BY <1>1, <1>4, <2>1
    <2> QED
      BY <2>2
  <1> DEFINE Is(g) == g = [i \in 0 .. MaxParts |-> IF i = 0 THEN <<>> ELSE NextParts(t, i, g[i - 1])]
             after == CHOOSE g : Is(g)
  <1>7. Is(after)
    <2> HIDE DEF Is
    <2>1. Is(f)
      BY <1>6 DEF Is
    <2> QED
      BY <2>1, Zenon
  <1>8. Split(t) = after[MaxParts]
    BY Zenon DEF Split, NextParts
  <1> HIDE DEF after, Spans
  <1>9. /\ after = [i \in 0 .. MaxParts |-> after[i]]
        /\ after[0] = <<>>
        /\ \A i \in 1 .. MaxParts : after[i] = NextParts(t, i, after[i - 1])
    <2>1. after = [i \in 0 .. MaxParts |-> IF i = 0 THEN <<>> ELSE NextParts(t, i, after[i - 1])]
      BY <1>7, Zenon
    <2>2. \A i \in 0 .. MaxParts : after[i] = IF i = 0 THEN <<>> ELSE NextParts(t, i, after[i - 1])
      BY <2>1, Zenon
    <2>3. 0 \in 0 .. MaxParts /\ \A i \in 1 .. MaxParts : i \in 0 .. MaxParts /\ i # 0
      BY <1>1
    <2>4. after = [i \in 0 .. MaxParts |-> after[i]]
      BY <2>1, <2>2, Zenon
    <2> QED
      BY <2>2, <2>3, <2>4, Zenon
  <1>10. \A i \in 0 .. MaxParts : after[i] \in Spans
    <2> DEFINE P == {m \in Nat : m <= MaxParts => after[m] \in Spans}
    <2>1. 0 \in P
      BY <1>3, <1>9
    <2>2. ASSUME NEW m \in Nat, m \in P
          PROVE  m + 1 \in P
      <3> SUFFICES ASSUME m + 1 <= MaxParts
                   PROVE  after[m + 1] \in Spans
        OBVIOUS
      <3>1. m + 1 \in 1 .. MaxParts /\ (m + 1) - 1 = m /\ after[m] \in Spans
        BY <1>1, <2>2
      <3> QED
        BY <1>2, <1>9, <3>1
    <2>3. Nat \subseteq P
      <3> HIDE DEF P
      <3> QED
        BY <2>1, <2>2, Induction
    <2> QED
      BY <2>3
  <1>11. after \in [0 .. MaxParts -> Spans]
    BY <1>9, <1>10, Zenon
  <1> QED
    BY <1>8, <1>9, <1>11

\* The parts of the first i rounds.
Sound(t, i, parts) ==
    /\ Len(parts) \in 1 .. i /\ parts[1][1] = 0
    /\ \A k \in 1 .. Len(parts) :
          /\ parts[k][1] <= parts[k][2] /\ parts[k][2] - parts[k][1] <= MaxChars
          /\ parts[k][2] <= Len(t)
          /\ k # 1 => parts[k][1] = parts[k - 1][2]
          /\ k # MaxParts => parts[k][2] \in {0, Len(t)} \/ t[parts[k][2] + 1] # "low"
          /\ k # 1 => parts[k][1] # Len(t)
    /\ Len(parts) = i \/ parts[Len(parts)][2] = Len(t)

\* A round keeps the parts sound.
LEMMA RoundsAreSound ==
  ASSUME NEW t \in Seq(Kinds), NEW i \in 1 .. MaxParts, NEW parts \in Spans,
         i = 1 => parts = <<>>, i # 1 => Sound(t, i - 1, parts)
  PROVE  Sound(t, i, NextParts(t, i, parts))
  <1>1. MaxParts \in Nat /\ MaxChars \in Nat /\ Len(t) \in Nat /\ i \in Nat
    BY SendGuardsAssumption
  <1>2. parts \in Seq(Nat \X Nat)
    BY DEF Spans
  <1>3. CASE i = 1
    <2>1. NextParts(t, i, parts) = <<<<0, PartEnd(t, 1, 0)>>>>
      BY <1>3 DEF NextParts
    <2>2. /\ PartEnd(t, 1, 0) \in Nat /\ PartEnd(t, 1, 0) <= Len(t) /\ PartEnd(t, 1, 0) <= MaxChars
          /\ 1 = MaxParts \/ PartEnd(t, 1, 0) \in {0, Len(t)} \/ t[PartEnd(t, 1, 0) + 1] # "low"
      BY <1>1, PartsFit
    <2> QED
      BY <1>1, <1>3, <2>1, <2>2 DEF Sound
  <1>4. CASE i # 1
    <2> DEFINE n == Len(parts)
               from == parts[n][2]
    <2>1. /\ parts # <<>> /\ n \in 1 .. i - 1 /\ Last(parts) = parts[n] /\ from \in Nat
          /\ from <= Len(t) /\ n \in Nat
      BY <1>1, <1>2, <1>4 DEF Sound, Last
    <2>2. CASE from = Len(t)
      <3>1. NextParts(t, i, parts) = parts
        BY <2>1, <2>2 DEF NextParts
      <3> QED
        BY <1>1, <1>4, <2>1, <2>2, <3>1 DEF Sound
    <2>3. CASE from # Len(t)
      <3> DEFINE end == PartEnd(t, i, from)
                 longer == Append(parts, <<from, end>>)
      <3>1. NextParts(t, i, parts) = longer
        BY <2>1, <2>3 DEF NextParts
      <3>2. /\ end \in Nat /\ from <= end /\ end <= Len(t) /\ end - from <= MaxChars
            /\ i = MaxParts \/ end \in {from, Len(t)} \/ t[end + 1] # "low"
        BY <2>1, PartsFit
      <3>3. n = i - 1
        BY <1>4, <2>3 DEF Sound
      <3>4. from \in {0, Len(t)} \/ t[from + 1] # "low"
        BY <1>1, <1>4, <2>1, <3>3 DEF Sound
      <3> HIDE DEF end
      <3>5. Len(longer) = i /\ longer[i] = <<from, end>> /\ \A k \in 1 .. n : longer[k] = parts[k]
        BY <1>1, <1>2, <2>1, <3>2, <3>3, SMTT(60)
      <3> HIDE DEF longer
      <3>6. longer[1][1] = 0
        BY <1>4, <2>1, <3>5 DEF Sound
      <3>7. ASSUME NEW k \in 1 .. n
            PROVE  /\ longer[k][1] <= longer[k][2] /\ longer[k][2] - longer[k][1] <= MaxChars
                   /\ longer[k][2] <= Len(t)
                   /\ k # 1 => longer[k][1] = longer[k - 1][2]
                   /\ k # MaxParts => longer[k][2] \in {0, Len(t)} \/ t[longer[k][2] + 1] # "low"
                   /\ k # 1 => longer[k][1] # Len(t)
        <4>1. longer[k] = parts[k] /\ (k # 1 => longer[k - 1] = parts[k - 1])
          BY <2>1, <3>5, SMTT(60)
        <4> QED
          BY <1>4, <4>1 DEF Sound
      <3>8. /\ longer[i][1] <= longer[i][2] /\ longer[i][2] - longer[i][1] <= MaxChars
            /\ longer[i][2] <= Len(t)
            /\ longer[i][1] = longer[i - 1][2]
            /\ i # MaxParts => longer[i][2] \in {0, Len(t)} \/ t[longer[i][2] + 1] # "low"
            /\ longer[i][1] # Len(t)
        BY <1>1, <2>1, <2>3, <3>2, <3>3, <3>4, <3>5
      <3> QED
        BY <1>1, <1>4, <2>1, <3>1, <3>3, <3>5, <3>6, <3>7, <3>8 DEF Sound
    <2> QED
      BY <2>2, <2>3
  <1> QED
    BY <1>3, <1>4

\* Every split is sound (splitLongMessage), by induction over its rounds.
LEMMA SplitsAreSound == SplitIsSound
  <1> SUFFICES ASSUME NEW x \in Text
               PROVE  LET t == Shape[x]
                          parts == Split(t)
                      IN /\ Len(parts) <= MaxParts
                         /\ parts[1][1] = 0
                         /\ \A i \in DOMAIN parts : parts[i][1] <= parts[i][2] /\ parts[i][2] - parts[i][1] <= MaxChars
                         /\ \A i \in DOMAIN parts \ {1} :
                               parts[i][1] = parts[i - 1][2] /\ (parts[i][1] # 0 => t[parts[i][1] + 1] # "low")
                         /\ Last(parts)[2] = Len(t) \/ Len(parts) = MaxParts
    BY Zenon DEF SplitIsSound
  <1> DEFINE t == Shape[x]
  <1>1. t \in Seq(Kinds) /\ MaxParts \in Nat \ {0}
    BY SendGuardsAssumption DEF Kinds
  <1> HIDE DEF t
  <1>2. PICK after \in [0 .. MaxParts -> Spans] :
            /\ Split(t) = after[MaxParts]
            /\ after[0] = <<>>
            /\ \A i \in 1 .. MaxParts : after[i] = NextParts(t, i, after[i - 1])
    BY <1>1, SplitRounds
  <1> DEFINE P == {m \in Nat : m \in 1 .. MaxParts => Sound(t, m, after[m])}
  <1>3. 0 \in P
    OBVIOUS
  <1>4. ASSUME NEW m \in Nat, m \in P
        PROVE  m + 1 \in P
    <2> SUFFICES ASSUME m + 1 \in 1 .. MaxParts
                 PROVE  Sound(t, m + 1, after[m + 1])
      OBVIOUS
    <2>1. /\ m \in 0 .. MaxParts /\ after[m] \in Spans /\ (m + 1) - 1 = m
          /\ m + 1 = 1 => after[m] = <<>>
          /\ m + 1 # 1 => Sound(t, m, after[m])
      BY <1>1, <1>2, <1>4
    <2>2. after[m + 1] = NextParts(t, m + 1, after[m])
      BY <1>2, <2>1
    <2> QED
      BY <1>1, <2>1, <2>2, RoundsAreSound
  <1>5. Nat \subseteq P
    <2> HIDE DEF P
    <2> QED
      BY <1>3, <1>4, Induction
  <1> DEFINE parts == Split(t)
  <1>6. Sound(t, MaxParts, parts) /\ parts \in Seq(Nat \X Nat)
    BY <1>1, <1>2, <1>5 DEF Spans
  <1> HIDE DEF parts
  <1>7. DOMAIN parts = 1 .. Len(parts) /\ Len(parts) \in Nat /\ Len(t) \in Nat
    <2>1. parts \in Seq(Nat \X Nat)
      BY <1>6
    <2> QED
      BY <1>1, <2>1
  <1>8. Sound(t, MaxParts, parts)
    BY <1>6
  <1>9. Len(parts) \in 1 .. MaxParts /\ parts[1][1] = 0 /\ (Len(parts) = MaxParts \/ parts[Len(parts)][2] = Len(t))
    BY <1>8 DEF Sound
  <1>10. \A k \in 1 .. Len(parts) : parts[k][1] <= parts[k][2] /\ parts[k][2] - parts[k][1] <= MaxChars
    BY <1>8, Zenon DEF Sound
  <1>11. \A k \in 1 .. Len(parts) :
            /\ k # 1 => parts[k][1] = parts[k - 1][2] /\ parts[k][1] # Len(t)
            /\ k # MaxParts => parts[k][2] \in {0, Len(t)} \/ t[parts[k][2] + 1] # "low"
    BY <1>8, Zenon DEF Sound
  <1>12. ASSUME NEW i \in DOMAIN parts \ {1}
         PROVE  parts[i][1] = parts[i - 1][2] /\ (parts[i][1] # 0 => t[parts[i][1] + 1] # "low")
    <2>1. i \in 1 .. Len(parts) /\ i - 1 \in 1 .. Len(parts) /\ i - 1 # MaxParts /\ i # 1
      <3>1. i \in 1 .. Len(parts) /\ i # 1
        BY <1>7
      <3>2. MaxParts \in Nat /\ Len(parts) <= MaxParts /\ Len(parts) \in Nat
        BY <1>1, <1>9
      <3> QED
        BY <3>1, <3>2
    <2>2. parts[i][1] = parts[i - 1][2] /\ parts[i][1] # Len(t)
      BY <1>11, <2>1
    <2>3. parts[i - 1][2] \in {0, Len(t)} \/ t[parts[i - 1][2] + 1] # "low"
      BY <1>11, <2>1
    <2> QED
      BY <2>2, <2>3, Zenon
  <1> QED
    BY <1>1, <1>7, <1>9, <1>10, <1>12 DEF t, parts, Last
-----------------------------------------------------------------------------
(* The invariant *)

\* The fields of the guards.
SendState == [pc : {"idle", "guard", "restore", "send"}, thread : GuardThread \cup {"none"},
              text : Text \cup {"none"}, left : Nat, overlapped : BOOLEAN]
Window == [count : Nat, left : 0 .. RateWindow + 1]
Entry == [hash : {"given"} \X Text, age : 0 .. SameWindow]
Plain == Text \ Straightened

GuardHasFields ==
    /\ perThread \in [GuardThread -> Window] /\ allThreads \in Window
    /\ recent \in [GuardThread -> Seq(Entry)] /\ \A t \in GuardThread : Len(recent[t]) <= Kept
    /\ replyUntil \in [GroupThread -> 0 .. ReplyWindow]
    /\ sends \in [Sending -> SendState]
    /\ \A s \in Sending : sends[s].pc # "idle" => sends[s].thread \in GuardThread /\ sends[s].text \in Text
    /\ sendCount \in 0 .. MaxSends
    /\ granted \in [threads : [GuardThread -> Nat], all : Nat]
    /\ promised \in [GuardThread -> [Plain -> 0 .. SameWindow]]

\* What the limiter counted of the sends of a thread: all of them, but for the one that began
\* the global window, which lasts as long as the thread's then.
CountedWell(window, global, n) ==
    /\ window.count <= Most(RateLimit) /\ n <= RateLimit + 1
    /\ window.left = 0 => n = 0
    /\ n <= window.count \/ (n = window.count + 1 /\ global.left >= window.left)

LimitsAreCounted ==
    /\ granted.all = allThreads.count /\ allThreads.count <= Most(GlobalLimit)
    /\ \A t \in GuardThread : CountedWell(perThread[t], allThreads, granted.threads[t])

\* A text that should be remembered is, with an age that lets it last.
Recalled(entries, x, promise) ==
    promise > 0 => \E i \in 1 .. Len(entries) :
        entries[i].hash = Remembered(x) /\ entries[i].age <= SameWindow - promise

\* A call that has passed the check of its text is of one that need not be remembered, unless
\* another delivered it meanwhile.
Passed(call, promises) ==
    call.pc \in {"restore", "send"} /\ call.text \notin Straightened /\ ~call.overlapped
        => promises[call.thread][call.text] = 0

TextsAreRemembered ==
    /\ \A t \in GuardThread : \A x \in Plain : Recalled(recent[t], x, promised[t][x])
    /\ \A s \in Sending : Passed(sends[s], promised)
    /\ repeated = FALSE

GuardInv == GuardHasFields /\ LimitsAreCounted /\ TextsAreRemembered

-----------------------------------------------------------------------------
(* The limits *)

\* The greater and the smaller of two numbers.
LEMMA OfTwo ==
  ASSUME NEW m \in Int, NEW n \in Int
  PROVE  /\ Max({m, n}) = IF m >= n THEN m ELSE n
         /\ Min({m, n}) = IF m <= n THEN m ELSE n
  <1>1. Max({m, n}) = IF m >= n THEN m ELSE n
    BY DEF Max
  <1>2. Min({m, n}) = IF m <= n THEN m ELSE n
    BY DEF Min
  <1> QED
    BY <1>1, <1>2

\* The windows' limits.
LEMMA Limits ==
  /\ RateWindow \in Nat /\ RateLimit \in Nat /\ GlobalLimit \in Nat
  /\ Most(RateLimit) \in Nat /\ Most(GlobalLimit) \in Nat
  /\ Most(RateLimit) >= 1 /\ Most(GlobalLimit) >= 1
  /\ Most(RateLimit) >= RateLimit /\ Most(GlobalLimit) >= GlobalLimit
  /\ Opened \in Window /\ Elapsed \in Window
  BY SendGuardsAssumption DEF Most, Opened, Elapsed, Window

\* What the limiter answers keeps its counts.
LEMMA LimiterCounts ==
  ASSUME GuardHasFields, LimitsAreCounted,
         NEW s, NEW t \in GuardThread, NEW x, Limited(s, t, x)
  PROVE  /\ perThread' \in [GuardThread -> Window] /\ allThreads' \in Window
         /\ granted' \in [threads : [GuardThread -> Nat], all : Nat]
         /\ LimitsAreCounted'
  <1> USE Limits
  <1>1. /\ perThread \in [GuardThread -> Window] /\ allThreads \in Window
        /\ granted \in [threads : [GuardThread -> Nat], all : Nat]
        /\ granted.all \in Nat /\ granted.threads \in [GuardThread -> Nat]
        /\ \A u \in GuardThread : /\ perThread[u].count \in Nat /\ perThread[u].left \in 0 .. RateWindow + 1
                                  /\ granted.threads[u] \in Nat
        /\ allThreads.count \in Nat /\ allThreads.left \in 0 .. RateWindow + 1
    BY DEF GuardHasFields, Window
  <1>2. /\ granted.all = allThreads.count /\ allThreads.count <= Most(GlobalLimit)
        /\ \A u \in GuardThread : CountedWell(perThread[u], allThreads, granted.threads[u])
    BY DEF LimitsAreCounted
  <1>3. CASE ThreadFull(t)
    <2>1. UNCHANGED <<perThread, allThreads, granted>>
      BY <1>3 DEF Limited
    <2> QED
      BY <1>1, <1>2, <2>1 DEF LimitsAreCounted
  <1>4. CASE ~ThreadFull(t) /\ GlobalFull
    <2>1. /\ perThread' = [perThread EXCEPT ![t] = IF ThreadOpen(t) THEN perThread[t] ELSE Opened]
          /\ allThreads' = allThreads
          /\ granted' = [granted EXCEPT !.threads[t] = IF ThreadOpen(t) THEN granted.threads[t] ELSE 0]
      BY <1>4 DEF Limited, Refused
    <2>2. perThread' \in [GuardThread -> Window]
      BY <1>1, <2>1
    <2>3. /\ granted' \in [threads : [GuardThread -> Nat], all : Nat] /\ granted'.all = granted.all
          /\ granted'.threads = [granted.threads EXCEPT ![t] = IF ThreadOpen(t) THEN granted.threads[t] ELSE 0]
      BY <1>1, <2>1
    <2>4. ASSUME NEW u \in GuardThread
          PROVE  CountedWell(perThread'[u], allThreads', granted'.threads[u])
      <3>1. CASE u # t \/ ThreadOpen(t)
        <4>1. perThread'[u] = perThread[u] /\ granted'.threads[u] = granted.threads[u]
          BY <1>1, <2>1, <2>3, <3>1
        <4> QED
          BY <1>2, <2>1, <4>1
      <3>2. CASE u = t /\ ~ThreadOpen(t)
        <4>1. perThread'[u] = Opened /\ granted'.threads[u] = 0
          BY <1>1, <2>1, <2>3, <3>2
        <4> QED
          BY <1>1, <4>1 DEF CountedWell, Opened
      <3> QED
        BY <3>1, <3>2
    <2> QED
      BY <1>1, <1>2, <2>1, <2>2, <2>3, <2>4 DEF LimitsAreCounted
  <1>5. CASE ~ThreadFull(t) /\ ~GlobalFull
    <2> DEFINE window == IF ~ThreadOpen(t) THEN Opened
                         ELSE IF GlobalOpen THEN OneMore(perThread[t]) ELSE perThread[t]
               global == IF GlobalOpen THEN OneMore(allThreads) ELSE Opened
               n == IF ThreadOpen(t) THEN granted.threads[t] + 1 ELSE 1
    <2>1. /\ perThread' = [perThread EXCEPT ![t] = window] /\ allThreads' = global
          /\ granted' = [threads |-> [granted.threads EXCEPT ![t] = n],
                         all |-> IF GlobalOpen THEN granted.all + 1 ELSE 1]
      BY <1>5 DEF Limited, Counted
    <2>2. /\ window \in Window /\ global \in Window /\ n \in Nat
          /\ window.left = IF ThreadOpen(t) THEN perThread[t].left ELSE RateWindow + 1
          /\ window.count = IF ~ThreadOpen(t) THEN 1
                            ELSE IF GlobalOpen THEN perThread[t].count + 1 ELSE perThread[t].count
          /\ global.left = IF GlobalOpen THEN allThreads.left ELSE RateWindow + 1
          /\ global.count = IF GlobalOpen THEN allThreads.count + 1 ELSE 1
      BY <1>1 DEF OneMore, Opened, Window
    <2> HIDE DEF window, global
    <2>3. perThread' \in [GuardThread -> Window] /\ allThreads' \in Window
      BY <1>1, <2>1, <2>2
    <2>4. /\ granted' \in [threads : [GuardThread -> Nat], all : Nat]
          /\ granted'.all = IF GlobalOpen THEN granted.all + 1 ELSE 1
          /\ granted'.threads = [granted.threads EXCEPT ![t] = n]
      BY <1>1, <2>1, <2>2
    <2>5. granted'.all = allThreads'.count /\ allThreads'.count <= Most(GlobalLimit)
      BY <1>1, <1>2, <1>5, <2>1, <2>2, <2>4 DEF GlobalFull, GlobalOpen
    <2>6. ASSUME NEW u \in GuardThread
          PROVE  CountedWell(perThread'[u], allThreads', granted'.threads[u])
      <3>1. CASE u # t
        <4>1. perThread'[u] = perThread[u] /\ granted'.threads[u] = granted.threads[u]
          BY <1>1, <2>1, <2>4, <3>1
        <4>2. CountedWell(perThread[u], allThreads, granted.threads[u])
          BY <1>2
        <4> QED
          BY <1>1, <2>1, <2>2, <4>1, <4>2 DEF CountedWell, GlobalOpen
      <3>2. CASE u = t
        <4>1. perThread'[u] = window /\ granted'.threads[u] = n
          BY <1>1, <2>1, <2>4, <3>2
        <4>2. CountedWell(perThread[t], allThreads, granted.threads[t])
          BY <1>2
        <4>3. ThreadOpen(t) => perThread[t].count < RateLimit
          BY <1>1, <1>5 DEF ThreadFull
        <4> QED
          BY <1>1, <2>1, <2>2, <4>1, <4>2, <4>3 DEF CountedWell, GlobalOpen, ThreadOpen
      <3> QED
        BY <3>1, <3>2
    <2> QED
      BY <2>3, <2>4, <2>5, <2>6 DEF LimitsAreCounted
  <1> QED
    BY <1>3, <1>4, <1>5

\* A tick of the windows keeps their counts.
LEMMA TicksCount ==
  ASSUME GuardHasFields, LimitsAreCounted, GuardTick
  PROVE  /\ perThread' \in [GuardThread -> Window] /\ allThreads' \in Window
         /\ granted' \in [threads : [GuardThread -> Nat], all : Nat]
         /\ LimitsAreCounted'
  <1> USE Limits
  <1>1. /\ perThread \in [GuardThread -> Window] /\ allThreads \in Window
        /\ granted.all \in Nat /\ granted.threads \in [GuardThread -> Nat]
        /\ \A u \in GuardThread : /\ perThread[u] \in Window /\ perThread[u].count \in Nat
                                  /\ perThread[u].left \in 0 .. RateWindow + 1
                                  /\ granted.threads[u] \in Nat
        /\ allThreads.count \in Nat /\ allThreads.left \in 0 .. RateWindow + 1
    BY DEF GuardHasFields, Window
  <1>2. ASSUME NEW w \in Window
        PROVE  /\ Aged(w) \in Window
               /\ Aged(w).count = IF w.left <= 1 THEN 0 ELSE w.count
               /\ Aged(w).left = IF w.left <= 1 THEN 0 ELSE w.left - 1
    BY DEF Aged, Elapsed, Window
  <1>3. /\ perThread' = [t \in GuardThread |-> Aged(perThread[t])] /\ allThreads' = Aged(allThreads)
        /\ granted' = [threads |-> [t \in GuardThread |-> IF perThread[t].left <= 1 THEN 0 ELSE granted.threads[t]],
                       all |-> IF allThreads.left <= 1 THEN 0 ELSE granted.all]
    BY DEF GuardTick
  <1>4. perThread' \in [GuardThread -> Window] /\ allThreads' \in Window
    BY <1>1, <1>2, <1>3
  <1>5. /\ granted' \in [threads : [GuardThread -> Nat], all : Nat]
        /\ granted'.all = IF allThreads.left <= 1 THEN 0 ELSE granted.all
        /\ \A t \in GuardThread : granted'.threads[t] = IF perThread[t].left <= 1 THEN 0 ELSE granted.threads[t]
    BY <1>1, <1>3
  <1>6. granted'.all = allThreads'.count /\ allThreads'.count <= Most(GlobalLimit)
    BY <1>1, <1>2, <1>3, <1>5 DEF LimitsAreCounted
  <1>7. ASSUME NEW u \in GuardThread
        PROVE  CountedWell(perThread'[u], allThreads', granted'.threads[u])
    <2>1. CountedWell(perThread[u], allThreads, granted.threads[u])
      BY DEF LimitsAreCounted
    <2>2. /\ perThread'[u].count = IF perThread[u].left <= 1 THEN 0 ELSE perThread[u].count
          /\ perThread'[u].left = IF perThread[u].left <= 1 THEN 0 ELSE perThread[u].left - 1
          /\ allThreads'.left = IF allThreads.left <= 1 THEN 0 ELSE allThreads.left - 1
      BY <1>1, <1>2, <1>3
    <2>3. perThread'[u].count \in Nat
      BY <1>1, <2>2
    <2> QED
      BY <1>1, <1>5, <2>1, <2>2, <2>3 DEF CountedWell
  <1> QED
    BY <1>4, <1>5, <1>6, <1>7 DEF LimitsAreCounted

-----------------------------------------------------------------------------
(* The memory of texts *)

\* The entries that are kept, one after the other.
LEMMA PrunedKeeps ==
  ASSUME NEW t, NEW x, recent[t] \in Seq(Entry)
  PROVE  /\ Pruned(t, x) \in Seq(Entry) /\ Len(Pruned(t, x)) <= Len(recent[t])
         /\ \A i \in 1 .. Len(recent[t]) : StillKept(recent[t][i], x) =>
               \E j \in 1 .. Len(Pruned(t, x)) : Pruned(t, x)[j] = recent[t][i]
  <1> DEFINE entries == recent[t]
             n == Len(entries)
             Going(i, a) == IF StillKept(entries[i], x) THEN Append(a, entries[i]) ELSE a
             S == Seq(Entry)
             step == [i \in 1 .. n |-> [a \in S |-> Going(i, a)]]
  <1>1. n \in Nat /\ entries \in Seq(Entry) /\ \A i \in 1 .. n : entries[i] \in Entry
    OBVIOUS
  <1> HIDE DEF entries, n
  <1>2. ASSUME NEW i \in 1 .. n, NEW a \in S
        PROVE  Going(i, a) \in S
    <2> HIDE DEF Entry
    <2> QED
      BY <1>1
  <1>3. <<>> \in S
    OBVIOUS
  <1> HIDE DEF S
  <1>4. PICK f : Follows(f, n, S, <<>>, step)
    <2>1. step \in Steps(n, S)
      BY <1>2 DEF Steps
    <2> DEFINE none == <<>>
    <2>2. none \in S
      BY <1>3
    <2> HIDE DEF step, none
    <2>3. PICK f : Follows(f, n, S, none, step)
      BY <1>1, <2>1, <2>2, Iteration
    <2> QED
      BY <2>3 DEF none
  <1>5. f \in [0 .. n -> S] /\ f[0] = <<>> /\ \A i \in 1 .. n : f[i] = Going(i, f[i - 1])
    <2>1. \A i \in 1 .. n : f[i - 1] \in S
      BY <1>1, <1>4 DEF Follows
    <2> HIDE DEF Going
    <2> QED
      BY <1>4, <2>1 DEF Follows
  <1> DEFINE Is(g) == g = [i \in 0 .. n |-> IF i = 0 THEN <<>>
                                            ELSE IF StillKept(entries[i], x) THEN Append(g[i - 1], entries[i])
                                            ELSE g[i - 1]]
             active == CHOOSE g : Is(g)
  <1>6. Is(f)
    <2>1. \A i \in 0 .. n : i # 0 => i \in 1 .. n
      BY <1>1
    <2> QED
      BY <1>5, <2>1, Zenon
  <1>7. Is(active)
    <2> HIDE DEF Is
    <2> QED
      BY <1>6, Zenon
  <1>8. Pruned(t, x) = active[n]
    BY Zenon DEF Pruned, entries, n
  <1> HIDE DEF active
  <1>9. active[0] = <<>> /\ \A i \in 1 .. n : active[i] = Going(i, active[i - 1])
    <2>1. active = [i \in 0 .. n |-> IF i = 0 THEN <<>> ELSE Going(i, active[i - 1])]
      BY <1>7, Zenon
    <2>2. \A i \in 0 .. n : active[i] = IF i = 0 THEN <<>> ELSE Going(i, active[i - 1])
      BY <2>1, Zenon
    <2>3. 0 \in 0 .. n /\ \A i \in 1 .. n : i \in 0 .. n /\ i # 0
      BY <1>1
    <2> HIDE DEF Going
    <2> QED
      BY <2>2, <2>3, Zenon
  <1> DEFINE HasKept(m) == /\ active[m] \in S /\ Len(active[m]) \in Nat /\ Len(active[m]) <= m
                         /\ \A i \in 1 .. m : StillKept(entries[i], x) =>
                               \E j \in 1 .. Len(active[m]) : active[m][j] = entries[i]
             P == {m \in Nat : m <= n => HasKept(m)}
  <1>10. 0 \in P
    <2>1. active[0] \in S /\ Len(active[0]) = 0
      BY <1>3, <1>9
    <2>2. \A i \in 1 .. 0 : FALSE
      OBVIOUS
    <2>3. HasKept(0)
      BY <2>1, <2>2
    <2> QED
      BY <2>3
  <1>11. ASSUME NEW m \in Nat, m \in P
         PROVE  m + 1 \in P
    <2> SUFFICES ASSUME m + 1 <= n
                 PROVE  HasKept(m + 1)
      OBVIOUS
    <2> DEFINE a == active[m]
               b == active[m + 1]
               e == entries[m + 1]
    <2>1. m + 1 \in 1 .. n /\ (m + 1) - 1 = m /\ m <= n
      BY <1>1
    <2>2. a \in S /\ Len(a) \in Nat /\ Len(a) <= m /\ e \in Entry
      BY <1>1, <1>11, <2>1
    <2>3. \A i \in 1 .. m : StillKept(entries[i], x) => \E j \in 1 .. Len(a) : a[j] = entries[i]
      BY <1>11, <2>1
    <2>4. b = IF StillKept(e, x) THEN Append(a, e) ELSE a
      BY <1>9, <2>1
    <2> HIDE DEF a, b, e
    <2>5. CASE StillKept(e, x)
      <3>1. b = Append(a, e)
        BY <2>4, <2>5
      <3>2. /\ b \in S /\ Len(b) = Len(a) + 1 /\ b[Len(a) + 1] = e
            /\ \A j \in 1 .. Len(a) : b[j] = a[j]
        <4> HIDE DEF Entry
        <4> QED
          BY <2>2, <3>1 DEF S
      <3>3. \A i \in 1 .. m : StillKept(entries[i], x) => \E j \in 1 .. Len(b) : b[j] = entries[i]
        <4>1. \A j \in 1 .. Len(a) : j \in 1 .. Len(b)
          BY <2>2, <3>2
        <4> QED
          BY <2>3, <3>2, <4>1, Zenon
      <3>4. Len(a) + 1 \in 1 .. Len(b)
        BY <2>2, <3>2
      <3>5. \A i \in 1 .. m + 1 : i \in 1 .. m \/ i = m + 1
        OBVIOUS
      <3>6. \A i \in 1 .. m + 1 : StillKept(entries[i], x) => \E j \in 1 .. Len(b) : b[j] = entries[i]
        BY <3>2, <3>3, <3>4, <3>5, Zenon DEF e
      <3>7. Len(b) \in Nat /\ Len(b) <= m + 1
        BY <2>2, <3>2
      <3> QED
        BY <3>2, <3>6, <3>7 DEF b
    <2>6. CASE ~StillKept(e, x)
      <3>1. b = a
        BY <2>4, <2>6
      <3>2. \A i \in 1 .. m + 1 : i \in 1 .. m \/ i = m + 1
        OBVIOUS
      <3>3. \A i \in 1 .. m + 1 : StillKept(entries[i], x) => \E j \in 1 .. Len(b) : b[j] = entries[i]
        BY <2>3, <2>6, <3>1, <3>2, Zenon DEF e
      <3>4. Len(b) \in Nat /\ Len(b) <= m + 1
        BY <2>2, <3>1
      <3> QED
        BY <2>2, <3>1, <3>3, <3>4 DEF b
    <2> QED
      BY <2>5, <2>6
  <1>12. Nat \subseteq P
    <2> HIDE DEF P
    <2> QED
      BY <1>10, <1>11, Induction
  <1>13. HasKept(n)
    BY <1>1, <1>12
  <1> QED
    BY <1>8, <1>13, Zenon DEF S, entries, n

\* The windows of the memory, and what is written of a text.
LEMMA Memories ==
  /\ SameWindow \in Nat /\ OtherWindow \in Nat /\ OtherWindow <= SameWindow /\ Kept \in Nat /\ Kept >= 1
  /\ Straightened \subseteq Text
  /\ \A x, y : (Remembered(x) = Remembered(y)) <=> (x = y)
  /\ \A x \in Plain : LookedUp(x) = Remembered(x)
  <1>1. \A x, y : (Remembered(x) = Remembered(y)) <=> (x = y)
    BY DEF Remembered
  <1>2. \A x \in Plain : LookedUp(x) = Remembered(x)
    BY DEF Remembered, LookedUp, Plain
  <1> QED
    BY <1>1, <1>2, SendGuardsAssumption

\* A check of a text forgets no text that should be remembered, and of its own it finds any.
LEMMA ChecksRecall ==
  ASSUME GuardHasFields, TextsAreRemembered, NEW t \in GuardThread, NEW x \in Text,
         recent' = [recent EXCEPT ![t] = Pruned(t, x)],
         promised' = [promised EXCEPT ![t] = Forgotten(promised[t],
             {y \in Text \ {x} : y \notin Straightened /\ SameWindow - promised[t][y] >= OtherWindow})]
  PROVE  /\ recent' \in [GuardThread -> Seq(Entry)] /\ \A u \in GuardThread : Len(recent'[u]) <= Kept
         /\ promised' \in [GuardThread -> [Plain -> 0 .. SameWindow]]
         /\ \A u \in GuardThread : \A y \in Plain :
               promised'[u][y] \in {0, promised[u][y]} /\ Recalled(recent'[u], y, promised'[u][y])
         /\ x \in Plain /\ ~IsDuplicate(t, x) => promised'[t][x] = 0
  <1> DEFINE gone == {y \in Text \ {x} : y \notin Straightened /\ SameWindow - promised[t][y] >= OtherWindow}
             entries == recent[t]
             kept == Pruned(t, x)
  <1>1. /\ recent \in [GuardThread -> Seq(Entry)] /\ \A u \in GuardThread : Len(recent[u]) <= Kept
        /\ promised \in [GuardThread -> [Plain -> 0 .. SameWindow]]
    BY DEF GuardHasFields
  <1>2. entries \in Seq(Entry) /\ promised[t] \in [Plain -> 0 .. SameWindow]
    <2> HIDE DEF Entry
    <2> QED
      BY <1>1
  <1>3. /\ kept \in Seq(Entry) /\ Len(kept) <= Len(entries)
        /\ \A i \in 1 .. Len(entries) :
              StillKept(entries[i], x) => \E j \in 1 .. Len(kept) : kept[j] = entries[i]
    <2>1. recent[t] \in Seq(Entry)
      BY <1>2
    <2>2. /\ Pruned(t, x) \in Seq(Entry) /\ Len(Pruned(t, x)) <= Len(recent[t])
          /\ \A i \in 1 .. Len(recent[t]) : StillKept(recent[t][i], x) =>
                \E j \in 1 .. Len(Pruned(t, x)) : Pruned(t, x)[j] = recent[t][i]
      <3> HIDE DEF gone
      <3> QED
        BY ONLY <2>1, PrunedKeeps
    <2> QED
      BY ONLY <2>2
  <1> HIDE DEF kept
  <1>4. recent' \in [GuardThread -> Seq(Entry)]
    <2> DEFINE S == Seq(Entry)
    <2>1. recent \in [GuardThread -> S] /\ kept \in S /\ recent' = [recent EXCEPT ![t] = kept]
      BY <1>1, <1>3 DEF kept
    <2> HIDE DEF S
    <2>2. recent' \in [GuardThread -> S]
      BY <2>1
    <2> QED
      BY <2>2 DEF S
  <1>5. /\ recent'[t] = kept
        /\ \A u \in GuardThread : u # t => recent'[u] = recent[u]
    <2> DEFINE S == Seq(Entry)
    <2>1. recent \in [GuardThread -> S] /\ recent' = [recent EXCEPT ![t] = kept]
      BY <1>1 DEF kept
    <2> HIDE DEF S
    <2> QED
      BY <2>1
  <1>6. \A u \in GuardThread : Len(recent'[u]) <= Kept
    <2>1. Len(entries) <= Kept /\ Len(entries) \in Nat /\ Len(kept) \in Nat
      BY <1>1, <1>2, <1>3
    <2>2. Len(kept) <= Kept
      BY <1>3, <2>1, Memories
    <2> QED
      BY <1>1, <1>5, <2>2
  <1> DEFINE left == [y \in Plain |-> IF y \in gone THEN 0 ELSE promised[t][y]]
  <1>7. promised' = [promised EXCEPT ![t] = left] /\ left \in [Plain -> 0 .. SameWindow]
    <2>1. DOMAIN promised[t] = Plain
      BY <1>2
    <2>2. Forgotten(promised[t], gone) = left
      BY <2>1 DEF Forgotten
    <2>3. left \in [Plain -> 0 .. SameWindow]
      <3> HIDE DEF gone, Plain
      <3> QED
        BY <1>2, Memories
    <2>4. promised' = [promised EXCEPT ![t] = left]
      <3> HIDE DEF left
      <3> QED
        BY <2>2
    <2> QED
      BY <2>3, <2>4
  <1> HIDE DEF left
  <1>8. /\ promised' \in [GuardThread -> [Plain -> 0 .. SameWindow]]
        /\ promised'[t] = left
        /\ \A u \in GuardThread : u # t => promised'[u] = promised[u]
    BY <1>1, <1>7
  <1>9. \A y \in Plain : left[y] = IF y \in gone THEN 0 ELSE promised[t][y]
    BY DEF left
  <1>10. ASSUME NEW y \in Plain, left[y] > 0
         PROVE  \E j \in 1 .. Len(kept) : kept[j].hash = Remembered(y) /\ kept[j].age <= SameWindow - left[y]
    <2>1. left[y] = promised[t][y] /\ y \notin gone /\ promised[t][y] \in 0 .. SameWindow
      BY <1>2, <1>9, <1>10
    <2>2. PICK i \in 1 .. Len(entries) :
             entries[i].hash = Remembered(y) /\ entries[i].age <= SameWindow - promised[t][y]
      BY <1>10, <2>1 DEF TextsAreRemembered, Recalled
    <2>3. entries[i].age \in 0 .. SameWindow
      <3>1. entries[i] \in Entry
        BY <1>2
      <3> QED
        BY <3>1 DEF Entry
    <2>4. StillKept(entries[i], x)
      <3>1. CASE y = x
        <4>1. entries[i].hash = LookedUp(x)
          BY <2>2, <3>1, Memories
        <4>2. entries[i].age < SameWindow
          BY <1>10, <2>1, <2>2, <2>3, Memories
        <4> QED
          BY <4>1, <4>2 DEF StillKept
      <3>2. CASE y # x
        <4>1. ~(SameWindow - promised[t][y] >= OtherWindow)
          BY <2>1, <3>2 DEF Plain
        <4>2. entries[i].age < OtherWindow /\ entries[i].age < SameWindow
          BY <2>1, <2>2, <2>3, <4>1, Memories
        <4> QED
          BY <4>2 DEF StillKept
      <3> QED
        BY <3>1, <3>2
    <2>5. PICK j \in 1 .. Len(kept) : kept[j] = entries[i]
      BY <1>3, <2>4
    <2> QED
      BY <2>1, <2>2, <2>5, Zenon
  <1>11. ASSUME NEW u \in GuardThread, NEW y \in Plain
         PROVE  promised'[u][y] \in {0, promised[u][y]} /\ Recalled(recent'[u], y, promised'[u][y])
    <2>1. CASE u = t
      <3>1. promised'[u][y] = left[y] /\ recent'[u] = kept
        BY <1>5, <1>8, <2>1
      <3>2. Recalled(kept, y, left[y])
        BY <1>10 DEF Recalled
      <3> QED
        BY <1>9, <2>1, <3>1, <3>2
    <2>2. CASE u # t
      <3>1. promised'[u][y] = promised[u][y] /\ recent'[u] = recent[u]
        BY <1>5, <1>8, <2>2
      <3>2. Recalled(recent[u], y, promised[u][y])
        BY DEF TextsAreRemembered
      <3> QED
        BY <3>1, <3>2
    <2> QED
      BY <2>1, <2>2
  <1>12. ASSUME x \in Plain, ~IsDuplicate(t, x)
         PROVE  promised'[t][x] = 0
    <2>1. promised'[t][x] = left[x] /\ left[x] \in 0 .. SameWindow
      BY <1>7, <1>8, <1>12
    <2>2. ASSUME left[x] > 0
          PROVE  FALSE
      <3>1. PICK j \in 1 .. Len(kept) : kept[j].hash = Remembered(x)
        BY <1>10, <1>12, <2>2
      <3>2. j \in DOMAIN kept
        BY <1>3, <3>1
      <3>3. kept[j].hash = LookedUp(x)
        BY <1>12, <3>1, Memories
      <3>4. IsDuplicate(t, x)
        BY <3>2, <3>3, Zenon DEF IsDuplicate, kept
      <3> QED
        BY <1>12, <3>4
    <2> QED
      BY <2>1, <2>2, Memories
  <1> QED
    BY <1>4, <1>6, <1>8, <1>11, <1>12

\* A text is remembered as long as is promised of it, and the oldest entry alone makes room.
LEMMA SendsRecall ==
  ASSUME GuardHasFields, TextsAreRemembered, NEW t \in GuardThread, NEW x \in Text, NEW dropped,
         dropped = IF Len(recent[t]) >= Kept THEN {y \in Text : Remembered(y) = recent[t][1].hash} ELSE {},
         recent' = Remember(t, x),
         promised' = [promised EXCEPT ![t] = [y \in DOMAIN promised[t] |->
              IF y = x THEN SameWindow ELSE Forgotten(promised[t], dropped)[y]]]
  PROVE  /\ recent' \in [GuardThread -> Seq(Entry)] /\ \A u \in GuardThread : Len(recent'[u]) <= Kept
         /\ promised' \in [GuardThread -> [Plain -> 0 .. SameWindow]]
         /\ \A u \in GuardThread : \A y \in Plain :
               /\ u # t \/ y # x => promised'[u][y] \in {0, promised[u][y]}
               /\ Recalled(recent'[u], y, promised'[u][y])
  <1> DEFINE entries == recent[t]
             n == Len(entries)
             new == [hash |-> Remembered(x), age |-> 0]
             longer == Append(entries, new)
             kept == IF Len(longer) > Kept THEN Tail(longer) ELSE longer
             S == Seq(Entry)
             left == [y \in Plain |-> IF y = x THEN SameWindow
                                      ELSE IF y \in dropped THEN 0 ELSE promised[t][y]]
  <1>1. /\ recent \in [GuardThread -> S] /\ \A u \in GuardThread : Len(recent[u]) <= Kept
        /\ promised \in [GuardThread -> [Plain -> 0 .. SameWindow]]
    BY DEF GuardHasFields
  <1>2. /\ new \in Entry /\ new.hash = Remembered(x) /\ new.age = 0
    BY Memories DEF Entry, Remembered
  <1> HIDE DEF new
  <1>3. /\ entries \in S /\ n \in Nat /\ n <= Kept /\ promised[t] \in [Plain -> 0 .. SameWindow]
    <2>1. entries \in S
      <3> HIDE DEF S
      <3> QED
        BY <1>1
    <2>2. n \in Nat
      <3> HIDE DEF Entry, entries
      <3> QED
        BY <2>1
    <2> QED
      BY <1>1, <2>1, <2>2
  <1> HIDE DEF entries
  <1>4. /\ longer \in S /\ Len(longer) = n + 1 /\ longer[n + 1] = new
        /\ \A i \in 1 .. n : longer[i] = entries[i]
    <2> HIDE DEF Entry
    <2> QED
      BY <1>2, <1>3
  <1> HIDE DEF longer, n
  <1>5. \* The new entry is kept.
        /\ kept \in S /\ Len(kept) \in Nat /\ Len(kept) <= Kept
        /\ \E j \in 1 .. Len(kept) : kept[j] = new
        /\ \A i \in 1 .. n : i # 1 \/ n < Kept => \E j \in 1 .. Len(kept) : kept[j] = entries[i]
    <2>1. CASE n + 1 > Kept
      <3>1. kept = Tail(longer)
        BY <1>4, <2>1
      <3>2. longer # <<>> /\ Len(longer) >= 2
        BY <1>3, <1>4, <2>1, Memories
      <3>3. /\ kept \in S /\ Len(kept) = n
            /\ \A j \in 1 .. n : kept[j] = longer[j + 1]
        <4> HIDE DEF Entry, kept
        <4>1. longer \in Seq(Entry) /\ Len(longer) = n + 1 /\ n \in Nat
          BY <1>3, <1>4
        <4> QED
          BY <3>1, <3>2, <4>1
      <3>4. n \in 1 .. n /\ kept[n] = new
        BY <1>3, <1>4, <2>1, <3>3, Memories
      <3>5. ASSUME NEW i \in 1 .. n, i # 1 \/ n < Kept
            PROVE  \E j \in 1 .. Len(kept) : kept[j] = entries[i]
        <4>1. i # 1 /\ i - 1 \in 1 .. n /\ (i - 1) + 1 = i
          BY <1>3, <2>1, <3>5, Memories
        <4>2. kept[i - 1] = entries[i]
          BY <1>4, <3>3, <4>1
        <4> QED
          BY <3>3, <4>1, <4>2
      <3> QED
        BY <1>3, <3>3, <3>4, <3>5
    <2>2. CASE ~(n + 1 > Kept)
      <3>1. kept = longer
        BY <1>4, <2>2
      <3>2. n + 1 \in 1 .. Len(kept) /\ \A i \in 1 .. n : i \in 1 .. Len(kept)
        BY <1>3, <1>4, <3>1
      <3> QED
        BY <1>3, <1>4, <2>2, <3>1, <3>2, Memories
    <2> QED
      BY <2>1, <2>2
  <1> HIDE DEF kept
  <1>6. recent' = [recent EXCEPT ![t] = kept]
    BY DEF Remember, kept, longer, new, entries
  <1>7. /\ recent' \in [GuardThread -> S]
        /\ recent'[t] = kept
        /\ \A u \in GuardThread : u # t => recent'[u] = recent[u]
    <2> HIDE DEF S
    <2> QED
      BY <1>1, <1>5, <1>6
  <1>8. promised' = [promised EXCEPT ![t] = left] /\ left \in [Plain -> 0 .. SameWindow]
    <2>1. DOMAIN promised[t] = Plain
      BY <1>3
    <2>2. [y \in Plain |-> IF y = x THEN SameWindow ELSE Forgotten(promised[t], dropped)[y]] = left
      BY <2>1 DEF Forgotten
    <2>3. left \in [Plain -> 0 .. SameWindow]
      <3> HIDE DEF Plain
      <3> QED
        BY <1>3, Memories
    <2>4. promised' = [promised EXCEPT ![t] = left]
      <3> HIDE DEF left
      <3> QED
        BY <2>1, <2>2
    <2> QED
      BY <2>3, <2>4
  <1> HIDE DEF left
  <1>9. /\ promised' \in [GuardThread -> [Plain -> 0 .. SameWindow]]
        /\ promised'[t] = left
        /\ \A u \in GuardThread : u # t => promised'[u] = promised[u]
    BY <1>1, <1>8
  <1>10. \A y \in Plain : left[y] = IF y = x THEN SameWindow
                                   ELSE IF y \in dropped THEN 0 ELSE promised[t][y]
    BY DEF left
  <1>11. ASSUME NEW y \in Plain, left[y] > 0
         PROVE  \E j \in 1 .. Len(kept) : kept[j].hash = Remembered(y) /\ kept[j].age <= SameWindow - left[y]
    <2>1. CASE y = x
      <3>1. PICK j \in 1 .. Len(kept) : kept[j] = new
        BY <1>5
      <3>2. left[y] = SameWindow /\ 0 <= SameWindow - SameWindow
        BY <1>10, <2>1, Memories
      <3> QED
        BY <1>2, <2>1, <3>1, <3>2
    <2>2. CASE y # x
      <3>1. left[y] = promised[t][y] /\ y \notin dropped
        BY <1>10, <1>11, <2>2
      <3>2. PICK i \in 1 .. n :
               entries[i].hash = Remembered(y) /\ entries[i].age <= SameWindow - promised[t][y]
        BY <1>11, <3>1 DEF TextsAreRemembered, Recalled, entries, n
      <3>3. i # 1 \/ n < Kept
        <4>1. SUFFICES ASSUME i = 1, ~(n < Kept)
                       PROVE  FALSE
          OBVIOUS
        <4>2. Len(recent[t]) >= Kept
          BY <1>3, <4>1, Memories DEF n, entries
        <4>3. Remembered(y) = recent[t][1].hash /\ y \in Text
          BY <3>2, <4>1 DEF entries, Plain
        <4> QED
          BY <3>1, <4>2, <4>3
      <3>4. PICK j \in 1 .. Len(kept) : kept[j] = entries[i]
        BY <1>5, <3>3
      <3> QED
        BY <3>1, <3>2, <3>4, Zenon
    <2> QED
      BY <2>1, <2>2
  <1>12. ASSUME NEW u \in GuardThread, NEW y \in Plain
         PROVE  /\ u # t \/ y # x => promised'[u][y] \in {0, promised[u][y]}
                /\ Recalled(recent'[u], y, promised'[u][y])
    <2>1. CASE u = t
      <3>1. promised'[u][y] = left[y] /\ recent'[u] = kept
        BY <1>7, <1>9, <2>1
      <3>2. Recalled(kept, y, left[y])
        BY <1>11 DEF Recalled
      <3> QED
        BY <1>10, <2>1, <3>1, <3>2
    <2>2. CASE u # t
      <3>1. promised'[u][y] = promised[u][y] /\ recent'[u] = recent[u]
        BY <1>7, <1>9, <2>2
      <3>2. Recalled(recent[u], y, promised[u][y])
        BY DEF TextsAreRemembered
      <3> QED
        BY <3>1, <3>2
    <2> QED
      BY <2>1, <2>2
  <1>13. \A u \in GuardThread : Len(recent'[u]) <= Kept
    BY <1>1, <1>5, <1>7
  <1> QED
    BY <1>7, <1>9, <1>12, <1>13

\* Time passes for what is remembered as it does for what is promised.
LEMMA TicksRecall ==
  ASSUME GuardHasFields, TextsAreRemembered, GuardTick
  PROVE  /\ recent' \in [GuardThread -> Seq(Entry)] /\ \A u \in GuardThread : Len(recent'[u]) <= Kept
         /\ promised' \in [GuardThread -> [Plain -> 0 .. SameWindow]]
         /\ \A u \in GuardThread : \A y \in Plain :
               /\ promised[u][y] = 0 => promised'[u][y] = 0
               /\ Recalled(recent'[u], y, promised'[u][y])
  <1> DEFINE S == Seq(Entry)
             older(e) == [e EXCEPT !.age = Min({e.age + 1, SameWindow})]
  <1>1. /\ recent \in [GuardThread -> S] /\ \A u \in GuardThread : Len(recent[u]) <= Kept
        /\ promised \in [GuardThread -> [Plain -> 0 .. SameWindow]]
    BY DEF GuardHasFields
  <1>2. /\ recent' = [t \in GuardThread |-> [i \in DOMAIN recent[t] |-> older(recent[t][i])]]
        /\ promised' = [t \in GuardThread |-> [x \in DOMAIN promised[t] |-> Sooner(promised[t][x])]]
    BY DEF GuardTick
  <1>3. ASSUME NEW e \in Entry
        PROVE  /\ older(e) \in Entry /\ older(e).hash = e.hash
               /\ older(e).age = IF e.age + 1 <= SameWindow THEN e.age + 1 ELSE SameWindow
    <2>1. e.age \in 0 .. SameWindow /\ e.age \in Int /\ SameWindow \in Int /\ e.age + 1 \in Int
      BY Memories DEF Entry
    <2>2. Min({e.age + 1, SameWindow}) = IF e.age + 1 <= SameWindow THEN e.age + 1 ELSE SameWindow
      BY <2>1, OfTwo
    <2> DEFINE m == Min({e.age + 1, SameWindow})
    <2>3. m \in 0 .. SameWindow
      BY <2>1, <2>2
    <2> HIDE DEF m
    <2>4. [e EXCEPT !.age = m] \in Entry /\ [e EXCEPT !.age = m].hash = e.hash /\ [e EXCEPT !.age = m].age = m
      BY <2>3 DEF Entry
    <2> QED
      BY <2>2, <2>4 DEF m
  <1>4. ASSUME NEW n \in Nat
        PROVE  Sooner(n) = IF n = 0 THEN 0 ELSE n - 1
    BY OfTwo DEF Sooner
  <1>5. ASSUME NEW u \in GuardThread
        PROVE  /\ recent'[u] \in S /\ Len(recent'[u]) = Len(recent[u]) /\ Len(recent[u]) \in Nat
               /\ \A i \in 1 .. Len(recent[u]) : recent'[u][i] = older(recent[u][i]) /\ recent[u][i] \in Entry
    <2> DEFINE entries == recent[u]
               n == Len(entries)
    <2>1. entries \in Seq(Entry)
      <3>1. entries \in S
        <4> HIDE DEF S
        <4> QED
          BY <1>1
      <3> QED
        BY <3>1
    <2>2. recent'[u] = [i \in DOMAIN entries |-> older(entries[i])]
      BY <1>2
    <2> HIDE DEF entries
    <2>3. n \in Nat /\ DOMAIN entries = 1 .. n /\ \A i \in 1 .. n : entries[i] \in Entry
      <3> HIDE DEF Entry
      <3> QED
        BY <2>1
    <2>4. \A i \in 1 .. n : older(entries[i]) \in Entry
      <3> HIDE DEF older
      <3> QED
        BY <1>3, <2>3
    <2> HIDE DEF older, n
    <2>5. recent'[u] = [i \in 1 .. n |-> older(entries[i])]
      BY <2>2, <2>3
    <2>6. recent'[u] \in Seq(Entry) /\ Len(recent'[u]) = n
      <3> HIDE DEF Entry
      <3> QED
        BY <2>3, <2>4, <2>5
    <2> QED
      BY <2>3, <2>5, <2>6 DEF n, entries
  <1>6. recent' \in [GuardThread -> S]
    <2> DEFINE next(t) == [i \in DOMAIN recent[t] |-> older(recent[t][i])]
    <2>1. recent' = [t \in GuardThread |-> next(t)]
      BY <1>2
    <2> HIDE DEF next, S
    <2>2. \A t \in GuardThread : recent'[t] = next(t)
      BY <2>1
    <2> QED
      BY <1>5, <2>1, <2>2
  <1>7. \A u \in GuardThread : Len(recent'[u]) <= Kept
    BY <1>1, <1>5
  <1>8. ASSUME NEW u \in GuardThread, NEW y \in Plain
        PROVE  /\ promised[u][y] \in 0 .. SameWindow
               /\ promised'[u][y] = IF promised[u][y] = 0 THEN 0 ELSE promised[u][y] - 1
    <2>1. promised[u][y] \in 0 .. SameWindow /\ promised[u][y] \in Nat /\ DOMAIN promised[u] = Plain
      BY <1>1, Memories
    <2>2. promised'[u][y] = Sooner(promised[u][y])
      BY <1>2, <2>1
    <2> QED
      BY <1>4, <2>1, <2>2
  <1>9. promised' \in [GuardThread -> [Plain -> 0 .. SameWindow]]
    <2>1. promised' = [t \in GuardThread |-> [x \in Plain |-> Sooner(promised[t][x])]]
      BY <1>1, <1>2
    <2>2. \A t \in GuardThread : \A x \in Plain : Sooner(promised[t][x]) \in 0 .. SameWindow
      <3> SUFFICES ASSUME NEW t \in GuardThread, NEW x \in Plain
                   PROVE  Sooner(promised[t][x]) \in 0 .. SameWindow
        OBVIOUS
      <3>1. promised[t][x] \in 0 .. SameWindow /\ promised[t][x] \in Nat
        BY <1>8, Memories
      <3> QED
        BY <1>4, <3>1, Memories
    <2> QED
      BY <2>1, <2>2
  <1>10. ASSUME NEW u \in GuardThread, NEW y \in Plain
         PROVE  Recalled(recent'[u], y, promised'[u][y])
    <2> SUFFICES ASSUME promised'[u][y] > 0
                 PROVE  \E i \in 1 .. Len(recent'[u]) :
                           /\ recent'[u][i].hash = Remembered(y)
                           /\ recent'[u][i].age <= SameWindow - promised'[u][y]
      BY DEF Recalled
    <2>1. promised[u][y] > 0 /\ promised'[u][y] = promised[u][y] - 1 /\ promised[u][y] \in 0 .. SameWindow
      BY <1>8
    <2>2. PICK i \in 1 .. Len(recent[u]) :
             recent[u][i].hash = Remembered(y) /\ recent[u][i].age <= SameWindow - promised[u][y]
      BY <2>1 DEF TextsAreRemembered, Recalled
    <2> DEFINE e == recent[u][i]
    <2>3. e \in Entry /\ recent'[u][i] = older(e) /\ Len(recent'[u]) = Len(recent[u])
      BY <1>5
    <2>4. e.hash = Remembered(y) /\ e.age <= SameWindow - promised[u][y]
      BY <2>2
    <2> HIDE DEF e, older
    <2>5. e.age \in 0 .. SameWindow
      BY <2>3 DEF Entry
    <2>6. older(e).hash = Remembered(y) /\ older(e).age <= SameWindow - promised'[u][y]
      BY <1>3, <2>1, <2>3, <2>4, <2>5, Memories
    <2> QED
      BY <2>3, <2>6
  <1> QED
    BY <1>6, <1>7, <1>8, <1>9, <1>10

\* A call stays what it was while nothing more is promised.
LEMMA StillPassed ==
  ASSUME GuardHasFields, NEW call \in SendState,
         call.pc # "idle" => call.thread \in GuardThread /\ call.text \in Text,
         Passed(call, promised),
         \A u \in GuardThread : \A y \in Plain : promised[u][y] = 0 => promised'[u][y] = 0
  PROVE  Passed(call, promised')
  BY DEF Passed, Plain

\* What the limiter does of the calls: it ends the one, or has it send.
LEMMA LimiterSends ==
  ASSUME GuardHasFields, NEW s \in Sending, NEW t \in GuardThread, NEW x \in Text, Limited(s, t, x),
         sends[s].pc # "idle"
  PROVE  /\ sends' \in [Sending -> SendState]
         /\ \A r \in Sending : r # s => sends'[r] = sends[r]
         /\ \/ sends'[s] = NoSend
            \/ /\ sends'[s].pc = "send" /\ sends'[s].thread = sends[s].thread
               /\ sends'[s].text = sends[s].text /\ sends'[s].overlapped = sends[s].overlapped
  <1>1. sends \in [Sending -> SendState] /\ NoSend \in SendState
    BY DEF GuardHasFields, SendState, NoSend
  <1>2. CASE sends' = [sends EXCEPT ![s] = NoSend]
    BY <1>1, <1>2
  <1>3. CASE sends' = [sends EXCEPT ![s].pc = "send", ![s].left = Len(Split(Shape[x]))]
    <2> DEFINE n == Len(Split(Shape[x]))
    <2>1. n \in Nat
      <3>1. Shape[x] \in Seq(Kinds) /\ MaxParts \in Nat \ {0}
        BY SendGuardsAssumption DEF Kinds
      <3> DEFINE t1 == Shape[x]
      <3> HIDE DEF t1
      <3>2. PICK after \in [0 .. MaxParts -> Spans] : Split(t1) = after[MaxParts]
        BY <3>1, SplitRounds DEF t1
      <3>3. Split(t1) \in Spans
        BY <3>1, <3>2
      <3> QED
        BY <3>3 DEF Spans, t1
    <2> DEFINE call == [sends[s] EXCEPT !.pc = "send", !.left = n]
    <2> HIDE DEF n
    <2>2. /\ call \in SendState /\ call.pc = "send" /\ call.thread = sends[s].thread
          /\ call.text = sends[s].text /\ call.overlapped = sends[s].overlapped
      BY <1>1, <2>1 DEF SendState
    <2>3. sends' = [sends EXCEPT ![s] = call]
      BY <1>1, <1>3 DEF n
    <2> HIDE DEF call
    <2> QED
      BY <1>1, <2>2, <2>3
  <1> QED
    BY <1>2, <1>3 DEF Limited, SendEnds

-----------------------------------------------------------------------------
(* The steps *)

\* A step keeps the invariant when it counts well, keeps its promises, and leaves each call
\* one that has passed, or one that has nothing to pass.
LEMMA Composed ==
  ASSUME GuardInv,
         perThread' \in [GuardThread -> Window], allThreads' \in Window,
         granted' \in [threads : [GuardThread -> Nat], all : Nat], LimitsAreCounted',
         recent' \in [GuardThread -> Seq(Entry)], \A t \in GuardThread : Len(recent'[t]) <= Kept,
         promised' \in [GuardThread -> [Plain -> 0 .. SameWindow]],
         \A t \in GuardThread : \A x \in Plain : Recalled(recent'[t], x, promised'[t][x]),
         replyUntil' \in [GroupThread -> 0 .. ReplyWindow], sendCount' \in 0 .. MaxSends, repeated' = FALSE,
         sends' \in [Sending -> SendState],
         \A r \in Sending : \/ sends'[r].pc \in {"idle"}
                            \/ /\ sends'[r].thread \in GuardThread /\ sends'[r].text \in Text
                               /\ Passed(sends'[r], promised')
  PROVE  GuardInv'
  <1>1. GuardHasFields'
    BY DEF GuardHasFields
  <1>2. \A r \in Sending : Passed(sends'[r], promised')
    BY DEF Passed
  <1>3. TextsAreRemembered'
    BY <1>2 DEF TextsAreRemembered
  <1> QED
    BY <1>1, <1>3 DEF GuardInv

\* The invariant holds at first.
LEMMA GuardInitially ==
  ASSUME GuardInit
  PROVE  GuardInv
  <1> USE Limits, Memories, SendGuardsAssumption
  <1>1. GuardHasFields
    <2>1. recent \in [GuardThread -> Seq(Entry)] /\ \A t \in GuardThread : Len(recent[t]) <= Kept
      BY DEF GuardInit
    <2>2. /\ perThread \in [GuardThread -> Window] /\ allThreads \in Window
          /\ replyUntil \in [GroupThread -> 0 .. ReplyWindow] /\ sendCount \in 0 .. MaxSends
      BY DEF GuardInit
    <2>3. sends \in [Sending -> SendState] /\ \A s \in Sending : sends[s].pc = "idle"
      BY DEF GuardInit, SendState, NoSend
    <2>4. granted \in [threads : [GuardThread -> Nat], all : Nat]
      BY DEF GuardInit
    <2>5. promised \in [GuardThread -> [Plain -> 0 .. SameWindow]]
      BY DEF GuardInit, Plain
    <2> QED
      BY <2>1, <2>2, <2>3, <2>4, <2>5 DEF GuardHasFields
  <1>2. LimitsAreCounted
    <2>1. granted.all = 0 /\ \A t \in GuardThread : granted.threads[t] = 0
      BY DEF GuardInit
    <2>2. allThreads = Elapsed /\ \A t \in GuardThread : perThread[t] = Elapsed
      BY DEF GuardInit
    <2> QED
      BY <2>1, <2>2 DEF LimitsAreCounted, CountedWell, Elapsed
  <1>3. TextsAreRemembered
    <2>1. \A t \in GuardThread : \A x \in Plain : promised[t][x] = 0
      BY DEF GuardInit, Plain
    <2>2. \A s \in Sending : sends[s].pc = "idle"
      BY DEF GuardInit, NoSend
    <2> QED
      BY <2>1, <2>2 DEF TextsAreRemembered, GuardInit, Recalled, Passed
  <1> QED
    BY <1>1, <1>2, <1>3 DEF GuardInv

\* Each step keeps it.
LEMMA GuardSteps ==
  ASSUME GuardInv, [GuardNext]_guardVars
  PROVE  GuardInv'
  <1> USE DEF GuardInv
  <1>1. /\ perThread \in [GuardThread -> Window] /\ allThreads \in Window
        /\ granted \in [threads : [GuardThread -> Nat], all : Nat]
        /\ recent \in [GuardThread -> Seq(Entry)] /\ \A t \in GuardThread : Len(recent[t]) <= Kept
        /\ promised \in [GuardThread -> [Plain -> 0 .. SameWindow]]
        /\ replyUntil \in [GroupThread -> 0 .. ReplyWindow] /\ sendCount \in 0 .. MaxSends
        /\ sends \in [Sending -> SendState]
        /\ \A r \in Sending : sends[r].pc # "idle" => sends[r].thread \in GuardThread /\ sends[r].text \in Text
    BY DEF GuardHasFields
  <1>2. /\ \A t \in GuardThread : \A x \in Plain : Recalled(recent[t], x, promised[t][x])
        /\ \A r \in Sending : Passed(sends[r], promised)
        /\ repeated = FALSE
    BY DEF TextsAreRemembered
  <1>3. NoSend \in SendState /\ NoSend.pc = "idle"
    BY DEF NoSend, SendState
  <1> DEFINE Remembering(r) == \/ sends'[r].pc \in {"idle"}
                               \/ /\ sends'[r].thread \in GuardThread /\ sends'[r].text \in Text
                                  /\ Passed(sends'[r], promised')
  \* What the steps leave alone.
  <1>4. UNCHANGED <<perThread, allThreads, granted>> =>
           /\ perThread' \in [GuardThread -> Window] /\ allThreads' \in Window
           /\ granted' \in [threads : [GuardThread -> Nat], all : Nat] /\ LimitsAreCounted'
    BY <1>1 DEF LimitsAreCounted
  <1>5. UNCHANGED <<recent, promised>> =>
           /\ recent' \in [GuardThread -> Seq(Entry)] /\ \A t \in GuardThread : Len(recent'[t]) <= Kept
           /\ promised' \in [GuardThread -> [Plain -> 0 .. SameWindow]]
           /\ \A t \in GuardThread : \A x \in Plain : Recalled(recent'[t], x, promised'[t][x])
    BY <1>1, <1>2
  <1>6. ASSUME NEW r \in Sending, sends'[r] = sends[r],
               \A u \in GuardThread : \A y \in Plain : promised[u][y] = 0 => promised'[u][y] = 0
        PROVE  Remembering(r)
    <2>1. sends[r] \in SendState /\ Passed(sends[r], promised)
      BY <1>1, <1>2
    <2>2. CASE sends[r].pc = "idle"
      BY <1>6, <2>2
    <2>3. CASE sends[r].pc # "idle"
      <3>1. sends[r].thread \in GuardThread /\ sends[r].text \in Text
        BY <1>1, <2>3
      <3>2. Passed(sends[r], promised')
        BY <1>6, <2>1, <3>1, StillPassed
      <3> QED
        BY <1>6, <3>1, <3>2
    <2> QED
      BY <2>2, <2>3
  <1>7. ASSUME UNCHANGED guardVars
        PROVE  GuardInv'
    BY <1>7 DEF guardVars, GuardHasFields, LimitsAreCounted, TextsAreRemembered
  <1>8. ASSUME NEW s \in Sending, NEW t \in GuardThread, NEW x \in Text, SendBegins(s, t, x)
        PROVE  GuardInv'
    <2> DEFINE call == [NoSend EXCEPT !.pc = "guard", !.thread = t, !.text = x]
    <2>1. call \in SendState /\ call.pc = "guard" /\ call.thread = t /\ call.text = x
      BY DEF NoSend, SendState
    <2>2. /\ sends' = [sends EXCEPT ![s] = call] /\ sendCount' = sendCount + 1 /\ sendCount < MaxSends
          /\ UNCHANGED <<perThread, allThreads, recent, replyUntil, granted, promised, repeated>>
      BY <1>8 DEF SendBegins
    <2> HIDE DEF call
    <2>3. sends' \in [Sending -> SendState] /\ sends'[s] = call /\ \A r \in Sending : r # s => sends'[r] = sends[r]
      BY <1>1, <2>1, <2>2
    <2>4. sendCount' \in 0 .. MaxSends
      BY <1>1, <2>2, SendGuardsAssumption
    <2>5. \A r \in Sending : Remembering(r)
      <3> SUFFICES ASSUME NEW r \in Sending
                   PROVE  Remembering(r)
        OBVIOUS
      <3>1. CASE r = s
        BY <2>1, <2>3, <3>1 DEF Passed
      <3>2. CASE r # s
        BY <1>6, <2>2, <2>3, <3>2
      <3> QED
        BY <3>1, <3>2
    <2> HIDE DEF Remembering
    <2> QED
      BY <1>1, <1>2, <1>4, <1>5, <2>2, <2>3, <2>4, <2>5, Composed DEF Remembering
  <1>9. ASSUME NEW s \in Sending, Guardrails(s)
        PROVE  GuardInv'
    <2> DEFINE t == sends[s].thread
               x == sends[s].text
    <2>1. sends[s] \in SendState /\ sends[s].pc = "guard" /\ t \in GuardThread /\ x \in Text
      BY <1>1, <1>9 DEF Guardrails
    <2>2. /\ recent' = [recent EXCEPT ![t] = Pruned(t, x)]
          /\ promised' = [promised EXCEPT ![t] = Forgotten(promised[t],
                {y \in Text \ {x} : y \notin Straightened /\ SameWindow - promised[t][y] >= OtherWindow})]
          /\ UNCHANGED <<replyUntil, sendCount, repeated>>
      BY <1>9, Zenon DEF Guardrails
    <2>3. \/ sends' = [sends EXCEPT ![s] = NoSend] /\ UNCHANGED <<perThread, allThreads, granted>>
          \/ ~IsDuplicate(t, x) /\ Limited(s, t, x)
          \/ /\ ~IsDuplicate(t, x) /\ sends' = [sends EXCEPT ![s].pc = "restore"]
             /\ UNCHANGED <<perThread, allThreads, granted>>
      BY <1>9, Zenon DEF Guardrails, SendEnds
    <2> HIDE DEF t, x
    <2>4. /\ recent' \in [GuardThread -> Seq(Entry)] /\ \A u \in GuardThread : Len(recent'[u]) <= Kept
          /\ promised' \in [GuardThread -> [Plain -> 0 .. SameWindow]]
          /\ \A u \in GuardThread : \A y \in Plain :
                promised'[u][y] \in {0, promised[u][y]} /\ Recalled(recent'[u], y, promised'[u][y])
          /\ x \in Plain /\ ~IsDuplicate(t, x) => promised'[t][x] = 0
      BY <2>1, <2>2, ChecksRecall
    <2>5. \A u \in GuardThread : \A y \in Plain : promised[u][y] = 0 => promised'[u][y] = 0
      BY <2>4
    <2>6. /\ perThread' \in [GuardThread -> Window] /\ allThreads' \in Window
          /\ granted' \in [threads : [GuardThread -> Nat], all : Nat] /\ LimitsAreCounted'
      BY <1>4, <2>1, <2>3, LimiterCounts
    <2>7. /\ sends' \in [Sending -> SendState] /\ \A r \in Sending : r # s => sends'[r] = sends[r]
          /\ \/ sends'[s] = NoSend
             \/ ~IsDuplicate(t, x) /\ sends'[s].thread = t /\ sends'[s].text = x
      <3>1. CASE sends' = [sends EXCEPT ![s] = NoSend]
        BY <1>1, <1>3, <3>1
      <3>2. CASE ~IsDuplicate(t, x) /\ Limited(s, t, x)
        BY <2>1, <3>2, LimiterSends DEF t, x
      <3>3. CASE ~IsDuplicate(t, x) /\ sends' = [sends EXCEPT ![s].pc = "restore"]
        <4> DEFINE call == [sends[s] EXCEPT !.pc = "restore"]
        <4>1. call \in SendState /\ call.thread = t /\ call.text = x
          BY <2>1 DEF SendState, t, x
        <4>2. sends' = [sends EXCEPT ![s] = call]
          BY <1>1, <3>3
        <4> HIDE DEF call
        <4> QED
          BY <1>1, <3>3, <4>1, <4>2
      <3> QED
        BY <2>3, <3>1, <3>2, <3>3
    <2>8. \A r \in Sending : Remembering(r)
      <3> SUFFICES ASSUME NEW r \in Sending
                   PROVE  Remembering(r)
        OBVIOUS
      <3>1. CASE r = s
        <4>1. CASE sends'[s] = NoSend
          BY <1>3, <3>1, <4>1
        <4>2. CASE ~IsDuplicate(t, x) /\ sends'[s].thread = t /\ sends'[s].text = x
          BY <2>1, <2>4, <3>1, <4>2 DEF Passed, Plain
        <4> QED
          BY <2>7, <4>1, <4>2
      <3>2. CASE r # s
        BY <1>6, <2>5, <2>7, <3>2
      <3> QED
        BY <3>1, <3>2
    <2> HIDE DEF Remembering
    <2> QED
      BY <1>1, <1>2, <2>2, <2>4, <2>6, <2>7, <2>8, Composed DEF Remembering
  <1>10. ASSUME NEW s \in Sending, Reconnected(s)
         PROVE  GuardInv'
    <2> DEFINE t == sends[s].thread
               x == sends[s].text
    <2>1. sends[s] \in SendState /\ sends[s].pc = "restore" /\ t \in GuardThread /\ x \in Text
      BY <1>1, <1>10 DEF Reconnected
    <2>2. /\ UNCHANGED <<recent, replyUntil, sendCount, promised, repeated>>
          /\ \/ Limited(s, t, x)
             \/ sends' = [sends EXCEPT ![s] = NoSend] /\ UNCHANGED <<perThread, allThreads, granted>>
      BY <1>10 DEF Reconnected, SendEnds
    <2> HIDE DEF t, x
    <2>3. /\ perThread' \in [GuardThread -> Window] /\ allThreads' \in Window
          /\ granted' \in [threads : [GuardThread -> Nat], all : Nat] /\ LimitsAreCounted'
      BY <1>4, <2>1, <2>2, LimiterCounts
    <2>4. /\ sends' \in [Sending -> SendState] /\ \A r \in Sending : r # s => sends'[r] = sends[r]
          /\ \/ sends'[s] = NoSend
             \/ /\ sends'[s].pc = "send" /\ sends'[s].thread = sends[s].thread
                /\ sends'[s].text = sends[s].text /\ sends'[s].overlapped = sends[s].overlapped
      <3>1. CASE sends' = [sends EXCEPT ![s] = NoSend]
        BY <1>1, <1>3, <3>1
      <3>2. CASE Limited(s, t, x)
        BY <2>1, <3>2, LimiterSends
      <3> QED
        BY <2>2, <3>1, <3>2
    <2>5. \A r \in Sending : Remembering(r)
      <3> SUFFICES ASSUME NEW r \in Sending
                   PROVE  Remembering(r)
        OBVIOUS
      <3>1. CASE r = s
        <4>1. CASE sends'[s] = NoSend
          BY <1>3, <3>1, <4>1
        <4>2. CASE /\ sends'[s].pc = "send" /\ sends'[s].thread = sends[s].thread
                   /\ sends'[s].text = sends[s].text /\ sends'[s].overlapped = sends[s].overlapped
          <5>1. Passed(sends[s], promised)
            BY <1>2
          <5> QED
            BY <2>1, <2>2, <3>1, <4>2, <5>1 DEF Passed, t, x
        <4> QED
          BY <2>4, <4>1, <4>2
      <3>2. CASE r # s
        BY <1>6, <2>2, <2>4, <3>2
      <3> QED
        BY <3>1, <3>2
    <2> HIDE DEF Remembering
    <2> QED
      BY <1>1, <1>2, <1>5, <2>2, <2>3, <2>4, <2>5, Composed DEF Remembering
  <1>11. ASSUME NEW s \in Sending, PartSent(s) \/ SendFails(s)
         PROVE  GuardInv'
    <2> DEFINE fewer == [sends[s] EXCEPT !.left = sends[s].left - 1]
    <2>1. /\ sends[s] \in SendState /\ sends[s].pc = "send"
          /\ UNCHANGED <<perThread, allThreads, recent, replyUntil, sendCount, granted, promised, repeated>>
          /\ \/ sends[s].left > 1 /\ sends' = [sends EXCEPT ![s] = fewer]
             \/ sends' = [sends EXCEPT ![s] = NoSend]
      BY <1>1, <1>11 DEF PartSent, SendFails, SendEnds
    <2>2. /\ sends[s].left > 1 => fewer \in SendState
          /\ fewer.pc = sends[s].pc /\ fewer.thread = sends[s].thread
          /\ fewer.text = sends[s].text /\ fewer.overlapped = sends[s].overlapped
      BY <2>1 DEF SendState
    <2> HIDE DEF fewer
    <2>3. /\ sends' \in [Sending -> SendState] /\ \A r \in Sending : r # s => sends'[r] = sends[r]
          /\ sends'[s] = NoSend \/ sends'[s] = fewer
      BY <1>1, <1>3, <2>1, <2>2
    <2>4. \A r \in Sending : Remembering(r)
      <3> SUFFICES ASSUME NEW r \in Sending
                   PROVE  Remembering(r)
        OBVIOUS
      <3>1. CASE r = s
        <4>1. CASE sends'[s] = NoSend
          BY <1>3, <3>1, <4>1
        <4>2. CASE sends'[s] = fewer
          <5>1. Passed(sends[s], promised) /\ sends[s].thread \in GuardThread /\ sends[s].text \in Text
            BY <1>1, <1>2, <2>1
          <5> QED
            BY <2>1, <2>2, <3>1, <4>2, <5>1 DEF Passed
        <4> QED
          BY <2>3, <4>1, <4>2
      <3>2. CASE r # s
        BY <1>6, <2>1, <2>3, <3>2
      <3> QED
        BY <3>1, <3>2
    <2> HIDE DEF Remembering
    <2> QED
      BY <1>1, <1>2, <1>4, <1>5, <2>1, <2>3, <2>4, Composed DEF Remembering
  <1>12. ASSUME NEW s \in Sending, AllSent(s)
         PROVE  GuardInv'
    <2> DEFINE t == sends[s].thread
               x == sends[s].text
               dropped == IF Len(recent[t]) >= Kept THEN {y \in Text : Remembered(y) = recent[t][1].hash} ELSE {}
               over(r) == [sends[r] EXCEPT !.overlapped = TRUE]
    <2>1. sends[s] \in SendState /\ sends[s].pc = "send" /\ t \in GuardThread /\ x \in Text
      BY <1>1, <1>12 DEF AllSent
    <2>2. /\ recent' = Remember(t, x)
          /\ promised' = [promised EXCEPT ![t] = [y \in DOMAIN promised[t] |->
                 IF y = x THEN SameWindow ELSE Forgotten(promised[t], dropped)[y]]]
          /\ repeated' = (repeated \/ (x \notin Straightened /\ promised[t][x] > 0 /\ ~sends[s].overlapped))
          /\ sends' = [r \in Sending |->
                 IF r = s THEN NoSend
                 ELSE IF sends[r].thread = t /\ sends[r].text = x /\ sends[r].pc \in {"restore", "send"}
                 THEN over(r) ELSE sends[r]]
          /\ UNCHANGED <<perThread, allThreads, replyUntil, sendCount, granted>>
      BY <1>12, Zenon DEF AllSent
    <2> HIDE DEF t, x
    <2>3. dropped = IF Len(recent[t]) >= Kept THEN {y \in Text : Remembered(y) = recent[t][1].hash} ELSE {}
      OBVIOUS
    <2> HIDE DEF dropped
    <2>4. /\ recent' \in [GuardThread -> Seq(Entry)] /\ \A u \in GuardThread : Len(recent'[u]) <= Kept
          /\ promised' \in [GuardThread -> [Plain -> 0 .. SameWindow]]
          /\ \A u \in GuardThread : \A y \in Plain :
                /\ u # t \/ y # x => promised'[u][y] \in {0, promised[u][y]}
                /\ Recalled(recent'[u], y, promised'[u][y])
      BY <2>1, <2>2, <2>3, SendsRecall
    <2>5. repeated' = FALSE
      <3>1. Passed(sends[s], promised)
        BY <1>2
      <3>2. x \notin Straightened /\ ~sends[s].overlapped => promised[t][x] = 0
        BY <2>1, <3>1 DEF Passed, t, x
      <3>3. ~(x \notin Straightened /\ promised[t][x] > 0 /\ ~sends[s].overlapped)
        BY <3>2
      <3> QED
        BY <1>2, <2>2, <3>3
    <2>6. ASSUME NEW r \in Sending
          PROVE  /\ over(r) \in SendState /\ over(r).overlapped = TRUE /\ over(r).pc = sends[r].pc
                 /\ over(r).thread = sends[r].thread /\ over(r).text = sends[r].text
      <3>1. sends[r] \in SendState
        BY <1>1
      <3> QED
        BY <3>1 DEF SendState
    <2> HIDE DEF over
    <2>7. sends' \in [Sending -> SendState]
      BY <1>1, <1>3, <2>2, <2>6
    <2>8. \A r \in Sending : Remembering(r)
      <3> SUFFICES ASSUME NEW r \in Sending
                   PROVE  Remembering(r)
        OBVIOUS
      <3>1. CASE r = s \/ sends[r].pc = "idle"
        <4>1. sends'[r] = NoSend \/ sends'[r] = sends[r]
          BY <2>2, <3>1
        <4> QED
          BY <1>3, <2>2, <3>1, <4>1
      <3>2. CASE r # s /\ sends[r].thread = t /\ sends[r].text = x /\ sends[r].pc \in {"restore", "send"}
        <4>1. sends'[r] = over(r)
          BY <2>2, <3>2
        <4> QED
          BY <2>1, <2>6, <3>2, <4>1 DEF Passed
      <3>3. CASE /\ r # s /\ sends[r].pc # "idle"
                 /\ ~(sends[r].thread = t /\ sends[r].text = x /\ sends[r].pc \in {"restore", "send"})
        <4>1. sends'[r] = sends[r]
          BY <2>2, <3>3
        <4>2. Passed(sends[r], promised) /\ sends[r].thread \in GuardThread /\ sends[r].text \in Text
          BY <1>1, <1>2, <3>3
        <4>3. Passed(sends[r], promised')
          BY <2>4, <3>3, <4>2 DEF Passed, Plain
        <4> QED
          BY <4>1, <4>2, <4>3
      <3> QED
        BY <3>1, <3>2, <3>3
    <2> HIDE DEF Remembering
    <2> QED
      BY <1>1, <1>4, <2>2, <2>4, <2>5, <2>7, <2>8, Composed DEF Remembering
  <1>13. ASSUME NEW g \in GroupThread, Mentioned(g)
         PROVE  GuardInv'
    <2>1. /\ replyUntil' = [replyUntil EXCEPT ![g] = ReplyWindow]
          /\ UNCHANGED <<perThread, allThreads, recent, sends, sendCount, granted, promised, repeated>>
      BY <1>13 DEF Mentioned
    <2>2. replyUntil' \in [GroupThread -> 0 .. ReplyWindow]
      BY <1>1, <2>1, SendGuardsAssumption
    <2>3. \A r \in Sending : Remembering(r)
      BY <1>6, <2>1
    <2> HIDE DEF Remembering
    <2> QED
      BY <1>1, <1>2, <1>4, <1>5, <2>1, <2>2, <2>3, Composed DEF Remembering
  <1>14. ASSUME GuardTick
         PROVE  GuardInv'
    <2>1. /\ perThread' \in [GuardThread -> Window] /\ allThreads' \in Window
          /\ granted' \in [threads : [GuardThread -> Nat], all : Nat] /\ LimitsAreCounted'
      BY <1>14, TicksCount
    <2>2. /\ recent' \in [GuardThread -> Seq(Entry)] /\ \A u \in GuardThread : Len(recent'[u]) <= Kept
          /\ promised' \in [GuardThread -> [Plain -> 0 .. SameWindow]]
          /\ \A u \in GuardThread : \A y \in Plain :
                /\ promised[u][y] = 0 => promised'[u][y] = 0
                /\ Recalled(recent'[u], y, promised'[u][y])
      BY <1>14, TicksRecall
    <2>3. /\ replyUntil' = [g \in GroupThread |-> Sooner(replyUntil[g])]
          /\ UNCHANGED <<sends, sendCount, repeated>>
      BY <1>14 DEF GuardTick
    <2>4. replyUntil' \in [GroupThread -> 0 .. ReplyWindow]
      <3>1. ASSUME NEW n \in 0 .. ReplyWindow
            PROVE  Sooner(n) \in 0 .. ReplyWindow
        <4>1. n \in Nat /\ ReplyWindow \in Nat
          BY SendGuardsAssumption
        <4>2. Max({n - 1, 0}) = IF n - 1 >= 0 THEN n - 1 ELSE 0
          BY <4>1, OfTwo
        <4> QED
          BY <4>1, <4>2 DEF Sooner
      <3> QED
        BY <1>1, <2>3, <3>1
    <2>5. \A r \in Sending : Remembering(r)
      BY <1>6, <2>2, <2>3
    <2> HIDE DEF Remembering
    <2> QED
      BY <1>1, <1>2, <2>1, <2>2, <2>3, <2>4, <2>5, Composed DEF Remembering
  <1> HIDE DEF GuardInv
  <1> QED
    BY <1>7, <1>8, <1>9, <1>10, <1>11, <1>12, <1>13, <1>14 DEF GuardNext

\* What the invariant says of the limits, and of the texts.
LEMMA InvariantGuards ==
  ASSUME GuardInv
  PROVE  GuardTypeOK /\ GuardsHold
  <1> USE Limits DEF GuardInv, GuardHasFields
  <1>1. /\ \A t \in GuardThread : granted.threads[t] <= RateLimit + 1
        /\ \A t \in GuardThread : perThread[t].count <= Most(RateLimit)
        /\ granted.all <= Most(GlobalLimit) /\ allThreads.count <= Most(GlobalLimit)
    BY DEF LimitsAreCounted, CountedWell
  <1>2. LimitsHold
    BY <1>1 DEF LimitsHold
  <1>3. GuardsHold
    BY <1>2, SplitsAreSound DEF GuardsHold, RepeatsAreStopped, TextsAreRemembered
  <1>4. ASSUME NEW w \in Window, NEW n \in Nat, w.count <= n
        PROVE  w \in [count : 0 .. n, left : 0 .. RateWindow + 1]
    BY <1>4 DEF Window
  <1>5. /\ perThread \in [GuardThread -> [count : 0 .. Most(RateLimit), left : 0 .. RateWindow + 1]]
        /\ allThreads \in [count : 0 .. Most(GlobalLimit), left : 0 .. RateWindow + 1]
    <2>1. /\ perThread \in [GuardThread -> Window] /\ allThreads \in Window
      OBVIOUS
    <2>2. \A t \in GuardThread : perThread[t] \in Window
      BY <2>1
    <2> HIDE DEF Window
    <2> QED
      BY <1>1, <1>4, <2>1, <2>2
  <1>6. \A s \in Sending : sends[s].pc \in {"idle", "guard", "restore", "send"}
    <2>1. \A s \in Sending : sends[s] \in SendState
      OBVIOUS
    <2> QED
      BY <2>1 DEF SendState
  <1>7. repeated \in BOOLEAN
    BY DEF TextsAreRemembered
  <1>8. GuardTypeOK
    BY <1>5, <1>6, <1>7 DEF GuardTypeOK
  <1> QED
    BY <1>3, <1>8

\* The invariant of the guards.
THEOREM GuardInvariant == GuardSpec => []GuardInv
  <1>1. GuardInit => GuardInv
    BY GuardInitially
  <1>2. GuardInv /\ [GuardNext]_guardVars => GuardInv'
    BY GuardSteps
  <1> QED
    BY <1>1, <1>2, PTL DEF GuardSpec

-----------------------------------------------------------------------------
(* Whose role it is *)

\* What is read of the rows was there while the message was resolved.
Known(id, scope, value) == <<<<id, scope>>, value>> \in held
Sought == event.pc \in {"thread", "all"}

IdentityHasFields ==
    /\ event.pc \in {"idle", "dropped", "thread", "all", "skipped", "handled"}
    /\ event = IF event.pc = "idle" THEN [pc |-> "idle"] ELSE [raw |-> event.raw, pc |-> event.pc]
    /\ event.pc # "idle" => event.raw \in Event /\ identity = normalizeMessage(event.raw)
    /\ roleRows \in [RowKey -> RowValue] /\ held \subseteq RowKey \X RowValue
    /\ rowEdits \in 0 .. MaxRowEdits /\ identityFaults \in 0 .. MaxIdentityFaults

\* Before it is handled a message has the lowest role; while it is resolved it is known who sent it, and the
\* rows there are among those there have been.
RolesAreSought ==
    /\ handledAs \in {Nobody, [role |-> "admin", status |-> "active"],
                      [role |-> "form_only", status |-> "blocked"]}
    /\ event.pc \in {"idle", "thread", "all"} => handledAs = Nobody
    /\ Sought => Held(roleRows) \subseteq held /\ ~cannotIdentifySender(identity)
    /\ event.pc = "all" /\ identityFaults = 0 /\ canonicalId \in {"person", "group"}
          => Known(canonicalId, "thread", Absent)

IdentityInv == IdentityHasFields /\ RolesAreSought /\ RolesAreTheirs

\* What the normalization leaves out of an event.
LEMMA Normalized ==
  ASSUME NEW e \in Event
  PROVE  /\ normalizeMessage(e).senderId = e.senderId
         /\ normalizeMessage(e).confidence = confidenceOf(e)
         /\ normalizeMessage(e).threadType = IF threadTypeOf(e) = "group" THEN "group" ELSE "user"
         /\ normalizeMessage(e).threadId = threadIdOf(e)
         /\ threadTypeOf(e) \in {"user", "group", "unknown"}
         /\ confidenceOf(e) \in {"exact", "derived", "unknown"}
         /\ threadTypeOf(e) = "unknown" => confidenceOf(e) = "unknown"
         /\ e.senderId \in {Absent, "person"}
  <1>1. e.senderId \in {Absent, "person"} /\ e.type \in {Absent, "user", "group"}
    BY DEF Event
  <1>2. threadTypeOf(e) \in {"user", "group", "unknown"}
    BY <1>1 DEF threadTypeOf, Absent
  <1> QED
    BY <1>1, <1>2 DEF normalizeMessage, normalizeInboundIdentity, confidenceOf

\* What is known of a sender holds at first.
LEMMA IdentityInitHolds == IdentityInit => IdentityInv
  BY IdentityAssumption DEF IdentityInit, IdentityInv, IdentityHasFields, RolesAreSought, RolesAreTheirs,
     NobodyIsElevated, BlockedAreSkipped, Nobody, RowValue, RowKey, Sought

\* Each step keeps it.
LEMMA IdentitySteps == IdentityInv /\ [IdentityNext]_identityVars => IdentityInv'
  <1> SUFFICES ASSUME IdentityInv, [IdentityNext]_identityVars
               PROVE  IdentityInv'
    OBVIOUS
  <1> USE IdentityAssumption
  <1>1. CASE UNCHANGED identityVars
    BY <1>1 DEF identityVars, IdentityInv, IdentityHasFields, RolesAreSought, RolesAreTheirs, Known, Sought,
         NobodyIsElevated, BlockedAreSkipped, canonicalId
  <1>2. ASSUME NEW e \in Event, Comes(e)
        PROVE  IdentityInv'
    <2>1. IdentityHasFields'
      BY <1>2 DEF Comes, IdentityInv, IdentityHasFields, Held
    <2>2. RolesAreSought'
      BY <1>2 DEF Comes, IdentityInv, IdentityHasFields, RolesAreSought, Known, Sought, Held
    <2>3. RolesAreTheirs'
      <3>1. handledAs'.role # "admin"
        BY <1>2 DEF Comes, IdentityInv, RolesAreSought, Nobody
      <3>2. event'.pc = "handled" => cannotIdentifySender(identity') /\ event'.raw = e /\ identity' = normalizeMessage(e)
        BY <1>2 DEF Comes
      <3>3. event'.pc = "handled" => e.senderId = Absent \/ confidenceOf(e) = "unknown"
        BY <3>2, Normalized DEF cannotIdentifySender
      <3> QED
        BY <3>1, <3>2, <3>3 DEF RolesAreTheirs, NobodyIsElevated, BlockedAreSkipped
    <2> QED
      BY <2>1, <2>2, <2>3 DEF IdentityInv
  <1>3. ASSUME NEW k \in RowKey, NEW v \in RowValue, EditRow(k, v)
        PROVE  IdentityInv'
    <2>1. IdentityHasFields'
      BY <1>3 DEF EditRow, IdentityInv, IdentityHasFields, Held
    <2>2. RolesAreSought'
      BY <1>3 DEF EditRow, IdentityInv, IdentityHasFields, RolesAreSought, Known, Sought, canonicalId
    <2>3. RolesAreTheirs'
      BY <1>3 DEF EditRow, IdentityInv, RolesAreTheirs, NobodyIsElevated, BlockedAreSkipped
    <2> QED
      BY <2>1, <2>2, <2>3 DEF IdentityInv
  <1>4. ASSUME NEW scope \in {"thread", "all"}, resolvePrincipal(scope)
        PROVE  IdentityInv'
    <2> DEFINE raw == event.raw
    <2>1. /\ event.pc = scope /\ event = [raw |-> raw, pc |-> scope] /\ raw \in Event
          /\ identity = normalizeMessage(raw) /\ ~cannotIdentifySender(identity)
          /\ Held(roleRows) \subseteq held /\ handledAs = Nobody
          /\ UNCHANGED <<identity, roleRows, held, rowEdits>>
      BY <1>4 DEF resolvePrincipal, IdentityInv, IdentityHasFields, RolesAreSought, Sought
    <2>2. /\ confidenceOf(raw) # "unknown"
          /\ raw.senderId # Absent \/ threadTypeOf(raw) = "user"
          /\ raw.senderId \in {Absent, "person"}
          /\ canonicalId = IF raw.senderId # Absent THEN "person" ELSE identity.threadId
      BY <2>1, Normalized DEF cannotIdentifySender, canonicalId, firstStr
    <2>3. RowOf(scope) # Absent => canonicalId \in {"person", "group"} /\ Known(canonicalId, scope, RowOf(scope))
      BY <2>1 DEF RowOf, RowKey, Known, Held
    <2>4. RowOf(scope) = Absent /\ canonicalId \in {"person", "group"} => Known(canonicalId, scope, Absent)
      BY <2>1 DEF RowOf, RowKey, Known, Held
    <2>5. CASE scope = "thread" /\ RowOf(scope) = Absent /\ event' = [event EXCEPT !.pc = "all"]
               /\ UNCHANGED <<handledAs, identityFaults>>
      <3>1. event' = [raw |-> raw, pc |-> "all"]
        BY <2>1, <2>5
      <3>2. IdentityHasFields'
        BY <2>1, <2>5, <3>1 DEF IdentityInv, IdentityHasFields
      <3>3. RolesAreSought'
        BY <2>1, <2>4, <2>5, <3>1 DEF RolesAreSought, Sought, Known, canonicalId, Nobody
      <3> QED
        BY <3>1, <3>2, <3>3 DEF IdentityInv, RolesAreTheirs, NobodyIsElevated, BlockedAreSkipped
    <2>6. ASSUME NEW value \in RowValue, HandledAs(value), identityFaults' \in 0 .. MaxIdentityFaults,
                 \/ value = RowOf(scope) /\ (scope = "thread" => RowOf(scope) # Absent) /\ identityFaults' = identityFaults
                 \/ value = Absent /\ identityFaults' # 0
          PROVE  IdentityInv'
      <3>1. /\ event' = [raw |-> raw, pc |-> event'.pc] /\ event'.pc = IF value = "blocked" THEN "skipped" ELSE "handled"
            /\ event'.raw = raw
        BY <2>1, <2>6 DEF HandledAs
      <3>2. /\ handledAs' \in {Nobody, [role |-> "admin", status |-> "active"],
                               [role |-> "form_only", status |-> "blocked"]}
            /\ handledAs'.role = "admin" => value = "admin"
        BY <2>6 DEF HandledAs, Nobody, RowValue
      <3>3. IdentityHasFields'
        BY <2>1, <2>6, <3>1 DEF IdentityInv, IdentityHasFields
      <3>4. RolesAreSought'
        BY <3>1, <3>2 DEF RolesAreSought, Sought
      <3>5. NobodyIsElevated'
        BY <2>1, <2>2, <2>3, <2>6, <3>1, <3>2 DEF NobodyIsElevated, Known, Absent
      <3>6. BlockedAreSkipped'
        <4> SUFFICES ASSUME event'.pc = "handled", raw.senderId # Absent, identityFaults' = 0
                     PROVE  /\ ~\A k \in held : k[1] = <<"person", "thread">> => k[2] = "blocked"
                            /\ ~(/\ \A k \in held : k[1] = <<"person", "thread">> => k[2] = Absent
                                 /\ \A k \in held : k[1] = <<"person", "all">> => k[2] = "blocked")
          BY <2>1, <3>1, Zenon DEF BlockedAreSkipped
        <4>1. value = RowOf(scope) /\ value # "blocked" /\ canonicalId = "person" /\ identityFaults = 0
          BY <2>2, <2>6, <3>1 DEF Absent
        <4>2. CASE scope = "thread"
          <5>1. <<<<"person", "thread">>, value>> \in held /\ value # Absent
            BY <2>3, <2>6, <4>1, <4>2 DEF Known
          <5> QED
            BY <4>1, <5>1
        <4>3. CASE scope = "all"
          <5>1. <<<<"person", "thread">>, Absent>> \in held
            BY <2>1, <4>1, <4>3 DEF IdentityInv, RolesAreSought, Known
          <5>2. <<<<"person", "all">>, value>> \in held
            BY <2>3, <2>4, <4>1, <4>3 DEF Known
          <5> QED
            BY <4>1, <5>1, <5>2 DEF Absent
        <4> QED
          BY <4>2, <4>3
      <3> QED
        BY <3>3, <3>4, <3>5, <3>6 DEF IdentityInv, RolesAreTheirs
    <2>7. RowOf(scope) \in RowValue /\ Absent \in RowValue
      BY <2>1 DEF IdentityInv, IdentityHasFields, RowOf, RowValue
    <2>8. identityFaults \in 0 .. MaxIdentityFaults
      BY DEF IdentityInv, IdentityHasFields
    <2> QED
      BY <1>4, <2>5, <2>6, <2>7, <2>8 DEF resolvePrincipal
  <1> QED
    BY <1>1, <1>2, <1>3, <1>4 DEF IdentityNext

\* The inductive invariant of the role.
THEOREM IdentityInvariant == IdentitySpec => []IdentityInv
  BY IdentityInitHolds, IdentitySteps, PTL DEF IdentitySpec

-----------------------------------------------------------------------------
(* Both *)

\* A sender's role and the message it belongs to have their types.
LEMMA IdentityTyped ==
  ASSUME IdentityInv
  PROVE  IdentityTypeOK
  BY DEF IdentityInv, IdentityHasFields, RolesAreSought, IdentityTypeOK, Nobody

\* The limits of a minute and of a repetition hold for any number of texts, calls, threads and
\* ticks, for any sizes of the windows, and a text of any length splits soundly
\* (RateLimiter.check, checkOutboundDedup, splitLongMessage); nobody has a role but their own
\* (resolvePrincipal).
THEOREM GuardsAlwaysStand == ReplyGuardsSpec => []GuardsStand
  <1>1. GuardInv => GuardsHold
    BY InvariantGuards
  <1>2. IdentityInv => RolesAreTheirs
    BY DEF IdentityInv
  <1>3. GuardInv /\ IdentityInv => GuardsStand
    BY <1>1, <1>2 DEF GuardsStand
  <1> QED
    BY GuardInvariant, IdentityInvariant, <1>3, PTL DEF ReplyGuardsSpec

\* The fields of the guards keep their types.
THEOREM GuardsTyped == ReplyGuardsSpec => [](GuardTypeOK /\ IdentityTypeOK)
  <1>1. GuardInv => GuardTypeOK
    BY InvariantGuards
  <1>2. IdentityInv => IdentityTypeOK
    BY IdentityTyped
  <1> QED
    BY GuardInvariant, IdentityInvariant, <1>1, <1>2, PTL DEF ReplyGuardsSpec

-----------------------------------------------------------------------------
(* Documents: chunking *)

\* A chunk begins within the text, ends after its begin, and goes on beyond the overlap
\* unless it ends the text.
LEMMA ChunksFit ==
  ASSUME NEW t \in Seq(Nat), NEW from \in Nat, from < Len(t)
  PROVE  /\ ChunkEnd(t, from) \in Nat
         /\ from < ChunkEnd(t, from) /\ ChunkEnd(t, from) <= Len(t)
         /\ ChunkEnd(t, from) = Len(t) \/ ChunkEnd(t, from) - from > Overlap
  <1> DEFINE ends == {from + ChunkSize, Len(t)}
             full == Min(ends)
             breaks == {i \in from + 1 .. full : t[i] # 0 /\ 2 * (i - from - 1) > ChunkSize}
             first == {i \in breaks : \A j \in breaks : t[i] <= t[j]}
  <1>1. /\ ChunkSize \in Nat /\ Overlap \in Nat /\ 0 < ChunkSize /\ 2 * Overlap <= ChunkSize
        /\ Len(t) \in Nat
    BY DocumentsAssumption
  <1>2. full \in ends /\ \A y \in ends : full <= y
    <2>1. \E x \in ends : \A y \in ends : x <= y
      BY <1>1
    <2> HIDE DEF ends
    <2> QED
      BY <2>1, Zenon DEF Min
  <1>3. /\ full \in Nat /\ from < full /\ full <= Len(t)
        /\ full = Len(t) \/ full = from + ChunkSize
    BY <1>1, <1>2
  <1> HIDE DEF full
  <1>4. ASSUME breaks # {}
        PROVE  Max(first) \in breaks
    <2> DEFINE K == {t[i] : i \in breaks}
    <2>1. \A i \in breaks : i \in 1 .. Len(t) /\ t[i] \in Nat
      BY <1>1, <1>3
    <2>2. K \subseteq Nat /\ K # {}
      BY <1>4, <2>1
    <2>3. PICK k \in K : \A y \in K : ~(<<y, k>> \in OpToRel(<, Nat))
      <3> HIDE DEF K
      <3> QED
        BY <2>2, NatLessThanWellFounded, WFMin
    <2>4. \A y \in K : k <= y
      <3>1. ASSUME NEW y \in K, y < k
            PROVE  FALSE
        <4>1. y \in Nat /\ k \in Nat
          BY <2>2, <2>3
        <4>2. <<y, k>> \in OpToRel(<, Nat)
          BY <3>1, <4>1 DEF OpToRel
        <4> QED
          BY <2>3, <4>2
      <3>2. \A y \in K : y \in Nat /\ k \in Nat
        BY <2>2, <2>3
      <3> HIDE DEF K
      <3> QED
        BY <3>1, <3>2
    <2>5. first # {}
      <3>1. PICK i \in breaks : t[i] = k
        BY <2>3
      <3>2. i \in first
        BY <2>4, <3>1
      <3> QED
        BY <3>2
    <2>6. first \subseteq 0 .. full
      BY <1>1, <1>3
    <2>7. Max(first) \in first
      <3> HIDE DEF first
      <3> QED
        BY <1>3, <2>5, <2>6, Greatest
    <2> QED
      BY <2>7
  <1>5. ChunkEnd(t, from) = IF full = Len(t) \/ breaks = {} THEN full ELSE Max(first)
    BY DEF ChunkEnd, full
  <1> HIDE DEF first
  <1>6. CASE full = Len(t) \/ breaks = {}
    BY <1>1, <1>3, <1>5, <1>6
  <1>7. CASE ~(full = Len(t) \/ breaks = {})
    <2>1. PICK i \in breaks : ChunkEnd(t, from) = i
      BY <1>4, <1>5, <1>7
    <2>2. i \in Nat /\ from < i /\ i <= full /\ 2 * (i - from - 1) > ChunkSize
      BY <1>3
    <2>3. i - from > Overlap
      BY <1>1, <2>2
    <2> QED
      BY <1>1, <1>3, <2>1, <2>2, <2>3
  <1> QED
    BY <1>6, <1>7

\* What Chunks appends in a round.
NextChunk(t, chunks) ==
    LET from == IF chunks = <<>> THEN 0 ELSE Last(chunks)[2] - Overlap
        stuck == chunks # <<>> /\ Last(chunks)[2] - Last(chunks)[1] <= Overlap
    IN IF stuck \/ from = Len(t) THEN chunks
       ELSE Append(chunks, <<from, ChunkEnd(t, from)>>)

\* A position is of one of the chunks.
Spanned(s, x) == \E i \in 1 .. Len(s) : s[i][1] < x /\ x <= s[i][2]

\* Chunks that leave nothing out up to where the last of them ends.
Gapless(t) ==
    {s \in Spans : s # <<>> =>
        /\ Last(s)[1] < Last(s)[2] /\ Last(s)[2] <= Len(t)
        /\ Last(s)[2] = Len(t) \/ Last(s)[2] - Last(s)[1] > Overlap
        /\ \A x \in Nat : Spanned(s, x) <=> 0 < x /\ x <= Last(s)[2]}

\* A round leaves nothing out, and brings the chunks on.
LEMMA RoundsAreGapless ==
  ASSUME NEW t \in Seq(Nat), t # <<>>, NEW s \in Gapless(t)
  PROVE  /\ NextChunk(t, s) \in Gapless(t) /\ NextChunk(t, s) # <<>>
         /\ \/ Last(NextChunk(t, s))[2] = Len(t)
            \/ Last(NextChunk(t, s))[2] > Overlap /\ s = <<>>
            \/ Last(NextChunk(t, s))[2] > Last(s)[2] /\ s # <<>>
  <1> DEFINE a == Last(s)[1]
             b == Last(s)[2]
             from == IF s = <<>> THEN 0 ELSE b - Overlap
             stuck == s # <<>> /\ b - a <= Overlap
             end == ChunkEnd(t, from)
             u == Append(s, <<from, end>>)
  <1>1. Len(t) \in Nat /\ Len(t) # 0 /\ Overlap \in Nat
    BY DocumentsAssumption
  <1>2. /\ s \in Seq(Nat \X Nat)
        /\ s # <<>> =>
              /\ a < b /\ b <= Len(t) /\ (b = Len(t) \/ b - a > Overlap)
              /\ \A x \in Nat : Spanned(s, x) <=> 0 < x /\ x <= b
    BY DEF Gapless, Spans
  <1>3. s # <<>> => a \in Nat /\ b \in Nat
    <2>1. s # <<>> => Last(s) \in Nat \X Nat
      BY <1>2 DEF Last
    <2> QED
      BY <2>1
  <1>4. NextChunk(t, s) = IF stuck \/ from = Len(t) THEN s ELSE u
    BY DEF NextChunk
  <1>5. CASE stuck \/ from = Len(t)
    <2>1. NextChunk(t, s) = s
      BY <1>4, <1>5
    <2>2. s # <<>>
      BY <1>1, <1>5
    <2>3. b = Len(t)
      <3> HIDE DEF a, b
      <3> QED
        BY <1>1, <1>2, <1>3, <1>5, <2>2, SMTT(60)
    <2> QED
      BY <2>1, <2>2, <2>3
  <1>6. CASE ~(stuck \/ from = Len(t))
    <2> HIDE DEF a, b
    <2>1. from \in Nat /\ from < Len(t) /\ (s # <<>> => b = from + Overlap)
      <3>1. CASE s = <<>>
        BY <1>1, <1>6, <3>1
      <3>2. CASE s # <<>>
        <4>1. from = b - Overlap /\ ~(b - a <= Overlap) /\ from # Len(t)
          BY <1>6, <3>2
        <4>2. a \in Nat /\ b \in Nat /\ b <= Len(t)
          BY <1>2, <1>3, <3>2
        <4> HIDE DEF from
        <4>3. from \in Nat /\ from < Len(t) /\ b = from + Overlap
          BY <1>1, <4>1, <4>2
        <4> QED
          BY <4>3
      <3> QED
        BY <3>1, <3>2
    <2>2. s = <<>> => from = 0
      OBVIOUS
    <2> HIDE DEF from
    <2>3. /\ end \in Nat /\ from < end /\ end <= Len(t)
          /\ end = Len(t) \/ end - from > Overlap
      BY <2>1, ChunksFit
    <2> HIDE DEF end
    <2> DEFINE last == <<from, end>>
    <2>4. last \in Nat \X Nat /\ last[1] = from /\ last[2] = end
      BY <2>1, <2>3
    <2> HIDE DEF last
    <2>5. /\ Len(u) = Len(s) + 1 /\ u # <<>> /\ Len(s) \in Nat
          /\ \A i \in 1 .. Len(s) : u[i] = s[i]
          /\ u[Len(s) + 1] = last /\ u \in Seq(Nat \X Nat)
      <3> DEFINE Pairs == Nat \X Nat
      <3>1. last \in Pairs /\ s \in Seq(Pairs)
        BY <1>2, <2>4
      <3> HIDE DEF Pairs
      <3>2. u = Append(s, last)
        BY DEF last
      <3>3. /\ Len(u) = Len(s) + 1 /\ u # <<>> /\ Len(s) \in Nat
            /\ \A i \in 1 .. Len(s) : u[i] = s[i]
            /\ u[Len(s) + 1] = last /\ u \in Seq(Pairs)
        BY <3>1, <3>2
      <3> QED
        BY <3>3 DEF Pairs
    <2> HIDE DEF u
    <2>6. Last(u) = last
      BY <2>5 DEF Last
    <2>7. s # <<>> => b <= end /\ from <= b /\ (end = Len(t) \/ end > b)
      BY <1>1, <1>2, <1>3, <2>1, <2>3
    <2>8. ASSUME NEW x \in Nat
          PROVE  Spanned(u, x) <=> 0 < x /\ x <= end
      <3>1. Spanned(u, x) <=> Spanned(s, x) \/ (from < x /\ x <= end)
        <4>1. \A i \in 1 .. Len(u) : i \in 1 .. Len(s) \/ i = Len(s) + 1
          BY <2>5
        <4>2. \A i \in 1 .. Len(s) : i \in 1 .. Len(u)
          BY <2>5
        <4>3. Len(s) + 1 \in 1 .. Len(u)
          BY <2>5
        <4>4. u[Len(s) + 1][1] = from /\ u[Len(s) + 1][2] = end
          BY <2>4, <2>5
        <4> QED
          BY <2>5, <4>1, <4>2, <4>3, <4>4, Zenon DEF Spanned
      <3>2. CASE s = <<>>
        <4>1. ~Spanned(s, x)
          BY <3>2 DEF Spanned
        <4> QED
          BY <2>2, <2>3, <3>1, <3>2, <4>1
      <3>3. CASE s # <<>>
        <4>1. Spanned(s, x) <=> 0 < x /\ x <= b
          BY <1>2, <3>3
        <4> QED
          BY <1>3, <2>1, <2>3, <2>7, <3>1, <3>3, <4>1
      <3> QED
        BY <3>2, <3>3
    <2>9. u \in Gapless(t)
      BY <2>3, <2>4, <2>5, <2>6, <2>8 DEF Gapless, Spans
    <2>10. NextChunk(t, s) = u
      BY <1>4, <1>6
    <2>11. Last(u)[2] = end
      BY <2>4, <2>6
    <2>12. s = <<>> => end = Len(t) \/ end > Overlap
      BY <1>1, <2>2, <2>3
    <2> QED
      BY <2>5, <2>7, <2>9, <2>10, <2>11, <2>12 DEF b
  <1> QED
    BY <1>5, <1>6

\* Chunks goes on from one round to the next.
LEMMA ChunkRounds ==
  ASSUME NEW t \in Seq(Nat), t # <<>>
  PROVE  \E after \in [0 .. Len(t) -> Gapless(t)] :
            /\ Chunks(t) = after[Len(t)]
            /\ after[0] = <<>>
            /\ \A i \in 1 .. Len(t) : after[i] = NextChunk(t, after[i - 1])
  <1> DEFINE n == Len(t)
             step == [i \in 1 .. n |-> [s \in Gapless(t) |-> NextChunk(t, s)]]
  <1>1. n \in Nat
    OBVIOUS
  <1>2. \A s \in Gapless(t) : NextChunk(t, s) \in Gapless(t)
    BY RoundsAreGapless
  <1>3. <<>> \in Gapless(t)
    BY DEF Gapless, Spans
  <1>4. PICK f \in [0 .. n -> Gapless(t)] :
           f[0] = <<>> /\ \A i \in 1 .. n : f[i] = step[i][f[i - 1]]
    <2>1. step \in Steps(n, Gapless(t))
      BY <1>2 DEF Steps
    <2> DEFINE none == <<>>
    <2>2. none \in Gapless(t)
      BY <1>3
    <2> HIDE DEF step, none, n
    <2>3. PICK f : Follows(f, n, Gapless(t), none, step)
      BY <1>1, <2>1, <2>2, Iteration
    <2> QED
      BY <2>3 DEF Follows, none
  <1>5. \A i \in 1 .. n : f[i - 1] \in Gapless(t)
    BY <1>1
  <1> HIDE DEF n
  <1>6. f = [i \in 0 .. n |-> IF i = 0 THEN <<>> ELSE NextChunk(t, f[i - 1])]
    <2>1. \A i \in 1 .. n : step[i][f[i - 1]] = NextChunk(t, f[i - 1])
      BY <1>5
    <2> HIDE DEF step
    <2>2. \A i \in 0 .. n : f[i] = IF i = 0 THEN <<>> ELSE NextChunk(t, f[i - 1])
      BY <1>1, <1>4, <2>1
    <2> QED
      BY <2>2
  <1> DEFINE Is(g) == g = [i \in 0 .. n |-> IF i = 0 THEN <<>> ELSE NextChunk(t, g[i - 1])]
             after == CHOOSE g : Is(g)
  <1>7. Is(after)
    <2> HIDE DEF Is
    <2>1. Is(f)
      BY <1>6 DEF Is
    <2> QED
      BY <2>1, Zenon
  <1>8. Chunks(t) = after[n]
    BY Zenon DEF Chunks, NextChunk, n
  <1> HIDE DEF after
  <1>9. /\ after = [i \in 0 .. n |-> after[i]]
        /\ after[0] = <<>>
        /\ \A i \in 1 .. n : after[i] = NextChunk(t, after[i - 1])
    <2>1. after = [i \in 0 .. n |-> IF i = 0 THEN <<>> ELSE NextChunk(t, after[i - 1])]
      BY <1>7, Zenon
    <2>2. \A i \in 0 .. n : after[i] = IF i = 0 THEN <<>> ELSE NextChunk(t, after[i - 1])
      BY <2>1, Zenon
    <2>3. 0 \in 0 .. n /\ \A i \in 1 .. n : i \in 0 .. n /\ i # 0
      BY <1>1
    <2>4. after = [i \in 0 .. n |-> after[i]]
      BY <2>1, <2>2, Zenon
    <2> QED
      BY <2>2, <2>3, <2>4, Zenon
  <1>10. \A i \in 0 .. n : after[i] \in Gapless(t)
    <2> DEFINE P == {m \in Nat : m <= n => after[m] \in Gapless(t)}
    <2>1. 0 \in P
      BY <1>3, <1>9
    <2>2. ASSUME NEW m \in Nat, m \in P
          PROVE  m + 1 \in P
      <3> SUFFICES ASSUME m + 1 <= n
                   PROVE  after[m + 1] \in Gapless(t)
        OBVIOUS
      <3>1. m + 1 \in 1 .. n /\ (m + 1) - 1 = m /\ after[m] \in Gapless(t)
        BY <1>1, <2>2
      <3> QED
        BY <1>2, <1>9, <3>1
    <2>3. Nat \subseteq P
      <3> HIDE DEF P
      <3> QED
        BY <2>1, <2>2, Induction
    <2> QED
      BY <1>1, <2>3
  <1>11. after \in [0 .. n -> Gapless(t)]
    BY <1>9, <1>10, Zenon
  <1> QED
    BY <1>8, <1>9, <1>11 DEF n

\* All the chunks of a text hold every position of it.
LEMMA ChunksCover ==
  ASSUME NEW t \in Seq(Nat)
  PROVE  /\ Len(Chunks(t)) \in Nat
         /\ Positions(t, Len(Chunks(t))) = 1 .. Len(t)
  <1>1. CASE t = <<>>
    <2>1. Chunks(t) = <<>>
      <3> DEFINE Is(g) == g = [i \in 0 .. Len(t) |->
                    IF i = 0 THEN <<>> ELSE NextChunk(t, g[i - 1])]
                 after == CHOOSE g : Is(g)
                 h == [i \in 0 .. Len(t) |-> <<>>]
      <3>1. Len(t) = 0 /\ 0 \in 0 .. Len(t) /\ \A i \in 0 .. Len(t) : i = 0
        BY <1>1
      <3>2. Is(h)
        BY <3>1, Zenon
      <3>3. Is(after)
        <4> HIDE DEF Is, h
        <4> QED
          BY <3>2, Zenon
      <3>4. Chunks(t) = after[Len(t)]
        BY Zenon DEF Chunks, NextChunk
      <3> HIDE DEF after
      <3>5. after[Len(t)] = <<>>
        BY <3>1, <3>3, Zenon
      <3> QED
        BY <3>4, <3>5
    <2>2. Positions(t, Len(Chunks(t))) = {}
      BY <2>1 DEF Positions
    <2> QED
      BY <1>1, <2>1, <2>2
  <1>2. CASE t # <<>>
    <2> DEFINE n == Len(t)
    <2>1. PICK after \in [0 .. n -> Gapless(t)] :
            /\ Chunks(t) = after[n]
            /\ after[0] = <<>>
            /\ \A i \in 1 .. n : after[i] = NextChunk(t, after[i - 1])
      BY <1>2, ChunkRounds
    <2>2. n \in Nat /\ n # 0 /\ Overlap \in Nat
      BY <1>2, DocumentsAssumption
    <2> HIDE DEF n
    <2> DEFINE P == {m \in Nat : m + 1 <= n =>
                       /\ after[m + 1] # <<>>
                       /\ Last(after[m + 1])[2] = n \/ Last(after[m + 1])[2] > m + Overlap}
    <2>3. \A s \in Gapless(t) : s # <<>> => Last(s) \in Nat \X Nat
      BY DEF Gapless, Spans, Last
    <2>4. 0 \in P
      <3>1. 1 \in 1 .. n /\ 1 - 1 = 0 /\ 0 \in 0 .. n
        BY <2>2
      <3>2. after[1] = NextChunk(t, after[0]) /\ after[0] \in Gapless(t)
        BY <2>1, <3>1
      <3>3. /\ after[1] # <<>>
            /\ Last(after[1])[2] = n \/ Last(after[1])[2] > Overlap
        BY <1>2, <2>1, <3>2, RoundsAreGapless DEF n
      <3> QED
        BY <2>2, <3>3
    <2>5. ASSUME NEW m \in Nat, m \in P
          PROVE  m + 1 \in P
      <3> SUFFICES ASSUME (m + 1) + 1 <= n
                   PROVE  /\ after[(m + 1) + 1] # <<>>
                          /\ \/ Last(after[(m + 1) + 1])[2] = n
                             \/ Last(after[(m + 1) + 1])[2] > (m + 1) + Overlap
        OBVIOUS
      <3> DEFINE s == after[m + 1]
                 u == after[(m + 1) + 1]
      <3>1. /\ m + 1 \in 0 .. n /\ (m + 1) + 1 \in 1 .. n /\ ((m + 1) + 1) - 1 = m + 1
            /\ (m + 1) + 1 \in 0 .. n
        BY <2>2
      <3>2. s # <<>> /\ (Last(s)[2] = n \/ Last(s)[2] > m + Overlap)
        BY <2>2, <2>5
      <3>3. u = NextChunk(t, s) /\ s \in Gapless(t) /\ u \in Gapless(t)
        BY <2>1, <3>1
      <3> HIDE DEF s, u
      <3>4. /\ u # <<>>
            /\ Last(u)[2] = n \/ Last(u)[2] > Last(s)[2]
        BY <1>2, <3>2, <3>3, RoundsAreGapless DEF n
      <3>5. Last(u)[2] \in Nat /\ Last(s)[2] \in Nat /\ Last(u)[2] <= n
        BY <2>3, <3>2, <3>3, <3>4 DEF Gapless, n
      <3>6. u # <<>> /\ (Last(u)[2] = n \/ Last(u)[2] > (m + 1) + Overlap)
        BY <2>2, <3>2, <3>4, <3>5
      <3> QED
        BY <3>6 DEF u
    <2>6. Nat \subseteq P
      <3> HIDE DEF P
      <3> QED
        BY <2>4, <2>5, Induction
    <2> DEFINE s == Chunks(t)
    <2>7. n - 1 \in P /\ (n - 1) + 1 = n /\ n \in 0 .. n
      <3>1. n - 1 \in Nat /\ (n - 1) + 1 = n /\ n \in 0 .. n
        BY <2>2
      <3> HIDE DEF P
      <3> QED
        BY <2>6, <3>1
    <2>8. s \in Gapless(t) /\ s # <<>> /\ (Last(s)[2] = n \/ Last(s)[2] > (n - 1) + Overlap)
      BY <2>1, <2>2, <2>7
    <2> HIDE DEF s
    <2>9. Last(s)[2] = n
      <3>1. Last(s)[2] \in Nat /\ Last(s)[2] <= n
        BY <2>3, <2>8 DEF Gapless, n
      <3> QED
        BY <2>2, <2>8, <3>1
    <2>10. s \in Seq(Nat \X Nat) /\ \A x \in Nat : Spanned(s, x) <=> 0 < x /\ x <= n
      BY <2>8, <2>9 DEF Gapless, Spans
    <2>11. Positions(t, Len(s)) = UNION {s[i][1] + 1 .. s[i][2] : i \in 1 .. Len(s)}
      BY DEF Positions, s
    <2>12. UNION {s[i][1] + 1 .. s[i][2] : i \in 1 .. Len(s)} = 1 .. n
      <3>1. \A i \in 1 .. Len(s) : s[i][1] \in Nat /\ s[i][2] \in Nat
        BY <2>10
      <3>2. ASSUME NEW i \in 1 .. Len(s), NEW x \in s[i][1] + 1 .. s[i][2]
            PROVE  x \in 1 .. n
        <4>1. x \in Nat /\ s[i][1] < x /\ x <= s[i][2]
          BY <3>1
        <4>2. Spanned(s, x)
          BY <4>1, Zenon DEF Spanned
        <4>3. 0 < x /\ x <= n
          BY <2>10, <4>1, <4>2
        <4> QED
          BY <2>2, <4>1, <4>3
      <3>3. ASSUME NEW x \in 1 .. n
            PROVE  \E i \in 1 .. Len(s) : x \in s[i][1] + 1 .. s[i][2]
        <4>1. x \in Nat /\ 0 < x /\ x <= n
          BY <2>2
        <4>2. Spanned(s, x)
          BY <2>10, <4>1
        <4>3. PICK i \in 1 .. Len(s) : s[i][1] < x /\ x <= s[i][2]
          BY <4>2, Zenon DEF Spanned
        <4>4. s[i][1] \in Nat /\ s[i][2] \in Nat
          BY <3>1
        <4>5. x \in s[i][1] + 1 .. s[i][2]
          BY <4>1, <4>3, <4>4
        <4> QED
          BY <4>5
      <3> QED
        BY <3>2, <3>3, Zenon
    <2> QED
      BY <2>10, <2>11, <2>12 DEF s, n
  <1> QED
    BY <1>1, <1>2

-----------------------------------------------------------------------------
(* Documents: the inductive invariant *)

DocRec == [status : DocStatus, direct : BOOLEAN, text : DocText, file : Nat, chunks : Nat,
           of : Nat, crossed : BOOLEAN, job : JobStatus]
PollPc == {"idle", "next", "load", "lost", "read", "convert", "output", "complete", "chunk",
           "finish", "failing", "failing job", "caught", "caught job"}
PollRec == [pc : PollPc, queue : SUBSET Nat, doc : Nat, of : Nat]

DocTyped ==
    /\ docs \in Seq(DocRec) /\ Len(docs) <= MaxDocs
    /\ ingesting \subseteq DocId /\ files \subseteq DocId /\ output \in {0} \cup DocId
    /\ pollers \in [Poller -> PollRec]
    /\ docFaults \in 0 .. MaxDocFaults

Busy(v) == v.pc \notin {"idle", "next"}
Untouched(r) == r.chunks = 0 /\ r.status # "completed"
Size(e) == Len(Chunks(docs[e].text))

\* What the row r of the document d says: nothing is done before its job is claimed, and a
\* document that counts as completed has as many chunks as a text that may be its own.
DocFits(d, r) ==
    /\ r.of \in {0} \cup DocId
    /\ d \in ingesting => r.job = "none"
    /\ d \in ingesting \/ r.job = "queued" => Untouched(r)
    /\ r.status = "completed" /\ (r.direct \/ r.job = "completed") =>
          r.of \in DocId /\ (r.crossed \/ r.of = d) /\ r.chunks = Size(r.of)

\* How far a poll v has come with the document of the row r.
PollHolds(v, r) ==
    /\ v.queue \subseteq DocId
    /\ ~Busy(v) => v.doc = 0
    /\ Busy(v) => v.doc \in DocId \ ingesting /\ r.job \notin {"queued", "completed"}
    /\ v.pc \in {"load", "read", "convert", "output", "complete"} => Untouched(r)
    /\ v.pc \in {"convert", "output", "complete"} => ~r.direct
    /\ v.pc = "finish" => r.direct
    /\ v.pc \in {"complete", "chunk"} => v.of \in DocId /\ (r.crossed \/ v.of = v.doc)
    /\ v.pc = "chunk" =>
          /\ r.chunks <= Size(v.of)
          /\ r.direct => r.status # "completed" /\ v.of = v.doc
          /\ ~r.direct => r.of = v.of
    /\ v.of \in {0} \cup DocId
PollFits(v, r) == PollHolds(v, r) /\ (v.pc = "output" => output \in {0, v.doc} \/ r.crossed)

\* No two polls process the same document.
PollsApart ==
    \A p, q \in Poller : Busy(pollers[p]) /\ Busy(pollers[q]) /\ p # q =>
        pollers[p].doc # pollers[q].doc

DocInv ==
    /\ DocTyped
    /\ \A d \in DocId : DocFits(d, docs[d])
    /\ \A p \in Poller : PollFits(pollers[p], docs[pollers[p].doc])
    /\ PollsApart

-----------------------------------------------------------------------------
(* Documents: what a step keeps *)

\* What fits goes on fitting when texts stay and documents are added, a conversion as long as
\* the markdown is not of another document.
LEMMA FitsMove ==
  ASSUME DocId \subseteq DocId', ingesting' \cap DocId \subseteq ingesting,
         \A e \in DocId : docs'[e].text = docs[e].text
  PROVE  /\ \A d \in DocId : \A r : DocFits(d, r) => DocFits(d, r)'
         /\ \A v, r : PollHolds(v, r) /\ (v.pc = "output" => output' \in {0, v.doc} \/ r.crossed)
                         => PollFits(v, r)'
  <1>1. \A e \in DocId : Size(e)' = Size(e)
    BY DEF Size
  <1>2. ASSUME NEW d \in DocId, NEW r, DocFits(d, r)
        PROVE  DocFits(d, r)'
    BY <1>1, <1>2 DEF DocFits, Untouched
  <1>3. ASSUME NEW v, NEW r, PollHolds(v, r), v.pc = "output" => output' \in {0, v.doc} \/ r.crossed
        PROVE  PollFits(v, r)'
    BY <1>1, <1>3 DEF PollFits, PollHolds, Untouched, Busy
  <1> QED
    BY <1>2, <1>3

\* Everything goes on fitting when the markdown stays or goes.
LEMMA FitsStay ==
  ASSUME DocId \subseteq DocId', ingesting' \cap DocId \subseteq ingesting,
         \A e \in DocId : docs'[e].text = docs[e].text, output' \in {0, output}
  PROVE  /\ \A d \in DocId : \A r : DocFits(d, r) => DocFits(d, r)'
         /\ \A v, r : PollFits(v, r) => PollFits(v, r)'
  <1>1. ASSUME NEW v, NEW r, PollFits(v, r), v.pc = "output"
        PROVE  output' \in {0, v.doc} \/ r.crossed
    BY <1>1 DEF PollFits
  <1>2. ASSUME NEW v, NEW r, PollFits(v, r)
        PROVE  PollHolds(v, r) /\ (v.pc = "output" => output' \in {0, v.doc} \/ r.crossed)
    BY <1>1, <1>2 DEF PollFits
  <1> QED
    BY <1>2, FitsMove

\* A row's document is one of docs.
LEMMA Rows ==
  ASSUME DocTyped
  PROVE  /\ DocId = 1 .. Len(docs) /\ Len(docs) \in Nat /\ DocId \subseteq Nat \ {0}
         /\ \A d \in DocId : docs[d] \in DocRec
         /\ \A d \in DocId : \A r \in DocRec :
               /\ [docs EXCEPT ![d] = r] \in Seq(DocRec)
               /\ Len([docs EXCEPT ![d] = r]) = Len(docs)
               /\ DOMAIN [docs EXCEPT ![d] = r] = DocId
               /\ \A e \in DocId : [docs EXCEPT ![d] = r][e] = IF e = d THEN r ELSE docs[e]
         /\ \A p \in Poller : pollers[p] \in PollRec
  <1>1. docs \in Seq(DocRec) /\ DocId = DOMAIN docs /\ pollers \in [Poller -> PollRec]
    BY DEF DocTyped, DocId
  <1> DEFINE R == DocRec
             V == PollRec
  <1> HIDE DEF R, V
  <1>2. docs \in Seq(R) /\ pollers \in [Poller -> V]
    BY <1>1 DEF R, V
  <1>3. /\ DocId = 1 .. Len(docs) /\ Len(docs) \in Nat /\ DocId \subseteq Nat \ {0}
        /\ \A d \in DocId : docs[d] \in R
    BY <1>1, <1>2
  <1>4. ASSUME NEW d \in DocId, NEW r \in R
        PROVE  /\ [docs EXCEPT ![d] = r] \in Seq(R)
               /\ Len([docs EXCEPT ![d] = r]) = Len(docs)
               /\ DOMAIN [docs EXCEPT ![d] = r] = DocId
               /\ \A e \in DocId : [docs EXCEPT ![d] = r][e] = IF e = d THEN r ELSE docs[e]
    BY <1>1, <1>2, <1>3
  <1> QED
    BY <1>2, <1>3, <1>4 DEF R, V

\* A poll goes on with a row of its own, or with none.
LEMMA OneMoves ==
  ASSUME DocInv, NEW p \in Poller, NEW d \in DocId,
         NEW r \in DocRec, docs' = [docs EXCEPT ![d] = r], r.text = docs[d].text,
         NEW v \in PollRec, pollers' = [pollers EXCEPT ![p] = v],
         \A q \in Poller \ {p} : Busy(pollers[q]) => pollers[q].doc # d,
         v.doc \in {0, d}, DocFits(d, r), PollFits(v, r),
         UNCHANGED <<ingesting, files, output>>, docFaults' \in 0 .. MaxDocFaults
  PROVE  DocInv'
  <1>1. /\ DocTyped /\ \A e \in DocId : DocFits(e, docs[e])
        /\ \A q \in Poller : PollFits(pollers[q], docs[pollers[q].doc])
        /\ PollsApart
    BY DEF DocInv
  <1>2. /\ DocId = 1 .. Len(docs) /\ Len(docs) \in Nat /\ DocId \subseteq Nat \ {0}
        /\ docs' \in Seq(DocRec) /\ Len(docs') = Len(docs) /\ DocId' = DocId
        /\ \A e \in DocId : docs'[e] = IF e = d THEN r ELSE docs[e]
        /\ \A q \in Poller : pollers[q] \in PollRec
    BY <1>1, Rows DEF DocId
  <1>3. /\ pollers' \in [Poller -> PollRec] /\ pollers'[p] = v
        /\ \A q \in Poller \ {p} : pollers'[q] = pollers[q]
    BY <1>1 DEF DocTyped
  <1>4. DocTyped'
    BY <1>1, <1>2, <1>3 DEF DocTyped
  <1>5. /\ \A e \in DocId : \A u : DocFits(e, u) => DocFits(e, u)'
        /\ \A w, u : PollFits(w, u) => PollFits(w, u)'
    BY <1>2, FitsStay
  <1>6. ASSUME NEW e \in DocId
        PROVE  DocFits(e, docs[e])'
    <2>1. CASE e = d
      <3>1. DocFits(d, r)'
        BY <1>5
      <3> QED
        BY <1>2, <2>1, <3>1 DEF DocFits, Untouched
    <2>2. CASE e # d
      <3>1. docs'[e] = docs[e] /\ DocFits(e, docs[e])
        BY <1>1, <1>2, <2>2
      <3> DEFINE u == docs[e]
      <3> HIDE DEF u
      <3>2. DocFits(e, u) /\ docs'[e] = u
        BY <3>1 DEF u
      <3> QED
        BY <1>5, <3>2 DEF DocFits, Untouched
    <2> QED
      BY <2>1, <2>2
  <1>7. ASSUME NEW q \in Poller
        PROVE  PollFits(pollers[q], docs[pollers[q].doc])'
    <2>1. PICK w, u : w = pollers'[q] /\ u = docs'[w.doc]
      OBVIOUS
    <2>2. PollFits(w, u)
      <3>1. CASE q = p
        <4>1. w = v
          BY <1>3, <2>1, <3>1
        <4>2. CASE v.doc = d
          BY <1>2, <2>1, <4>1, <4>2
        <4>3. CASE v.doc = 0
          <5>1. ~Busy(v)
            BY <1>2, <4>3 DEF PollFits, PollHolds
          <5> QED
            BY <4>1, <5>1 DEF PollFits, PollHolds, Busy
        <4> QED
          BY <4>2, <4>3
      <3>2. CASE q # p
        <4>1. w = pollers[q] /\ PollFits(w, docs[w.doc])
          BY <1>1, <1>3, <2>1, <3>2
        <4>2. CASE Busy(w)
          <5>1. w.doc \in DocId /\ w.doc # d
            BY <3>2, <4>1, <4>2 DEF PollFits, PollHolds
          <5>2. u = docs[w.doc]
            BY <1>2, <2>1, <5>1
          <5> QED
            BY <4>1, <5>2
        <4>3. CASE ~Busy(w)
          BY <4>1, <4>3 DEF PollFits, PollHolds, Busy
        <4> QED
          BY <4>2, <4>3
      <3> QED
        BY <3>1, <3>2
    <2>3. PollFits(w, u)'
      BY <1>5, <2>2
    <2> QED
      BY <2>1, <2>3 DEF PollFits, PollHolds, Busy, Untouched
  <1>8. PollsApart'
    <2>1. SUFFICES ASSUME NEW q \in Poller, NEW s \in Poller, q # s,
                          Busy(pollers'[q]), Busy(pollers'[s])
                   PROVE  pollers'[q].doc # pollers'[s].doc
      BY DEF PollsApart, Busy
    <2>2. Busy(v) => v.doc = d
      BY <1>2 DEF PollFits, PollHolds
    <2>3. CASE q # p /\ s # p
      BY <1>1, <1>3, <2>1, <2>3 DEF PollsApart
    <2>4. CASE q = p
      BY <1>3, <2>1, <2>2, <2>4
    <2>5. CASE s = p
      BY <1>3, <2>1, <2>2, <2>5
    <2> QED
      BY <2>3, <2>4, <2>5
  <1> QED
    BY <1>2, <1>4, <1>6, <1>7, <1>8 DEF DocInv

\* Polls that end or begin have no document.
LEMMA OthersRest ==
  ASSUME DocInv, docs' = docs, UNCHANGED <<ingesting, files, output>>,
         docFaults' \in 0 .. MaxDocFaults, pollers' \in [Poller -> PollRec],
         \A q \in Poller : \/ pollers'[q] = pollers[q]
                           \/ /\ ~Busy(pollers'[q]) /\ pollers'[q].doc = 0 /\ pollers'[q].of \in {0} \cup DocId
                              /\ pollers'[q].queue \subseteq DocId
  PROVE  DocInv'
  <1>1. /\ DocTyped /\ \A e \in DocId : DocFits(e, docs[e])
        /\ \A q \in Poller : PollFits(pollers[q], docs[pollers[q].doc])
        /\ PollsApart
    BY DEF DocInv
  <1>2. DocId' = DocId
    BY DEF DocId
  <1>3. DocTyped'
    BY <1>1, <1>2 DEF DocTyped
  <1>4. /\ \A e \in DocId : \A u : DocFits(e, u) => DocFits(e, u)'
        /\ \A w, u : PollFits(w, u) => PollFits(w, u)'
    BY <1>2, FitsStay
  <1>5. ASSUME NEW e \in DocId
        PROVE  DocFits(e, docs[e])'
    <2>1. PICK u : u = docs[e]
      OBVIOUS
    <2>2. DocFits(e, u) /\ docs'[e] = u
      BY <1>1, <2>1
    <2> QED
      BY <1>4, <2>2 DEF DocFits, Untouched
  <1>6. ASSUME NEW q \in Poller
        PROVE  PollFits(pollers[q], docs[pollers[q].doc])'
    <2>1. PICK w, u : w = pollers'[q] /\ u = docs'[w.doc]
      OBVIOUS
    <2>2. PollFits(w, u)
      <3>1. CASE w = pollers[q]
        BY <1>1, <2>1, <3>1
      <3>2. CASE w # pollers[q]
        BY <2>1, <3>2 DEF PollFits, PollHolds, Busy
      <3> QED
        BY <3>1, <3>2
    <2>3. PollFits(w, u)'
      BY <1>4, <2>2
    <2> QED
      BY <2>1, <2>3 DEF PollFits, PollHolds, Busy, Untouched
  <1>7. PollsApart'
    BY <1>1 DEF PollsApart, Busy
  <1> QED
    BY <1>2, <1>3, <1>5, <1>6, <1>7 DEF DocInv

\* What PollerGoes makes of a poll.
Goes(p, pc) ==
    [pollers[p] EXCEPT !.pc = pc, !.doc = IF pc = "next" THEN 0 ELSE @,
                       !.of = IF pc \in {"chunk", "finish"} THEN @ ELSE 0]
PcOnError == {"lost", "next", "failing", "failing job", "caught", "caught job"}

\* What is known of a poll that has a document.
LEMMA BusyPolls ==
  ASSUME DocInv, NEW p \in Poller, Busy(pollers[p])
  PROVE  /\ pollers[p].doc \in DocId /\ pollers[p] \in PollRec
         /\ docs[pollers[p].doc] \in DocRec
         /\ DocFits(pollers[p].doc, docs[pollers[p].doc])
         /\ PollFits(pollers[p], docs[pollers[p].doc])
         /\ \A q \in Poller \ {p} : Busy(pollers[q]) => pollers[q].doc # pollers[p].doc
         /\ docs = [docs EXCEPT ![pollers[p].doc] = docs[pollers[p].doc]]
         /\ \A pc \in PollPc : Goes(p, pc) \in PollRec /\ Goes(p, pc).doc \in {0, pollers[p].doc}
         /\ \A pc \in PcOnError : PollFits(Goes(p, pc), docs[pollers[p].doc])
  <1>1. DocTyped /\ PollsApart /\ PollFits(pollers[p], docs[pollers[p].doc])
    BY DEF DocInv
  <1>2. pollers[p].doc \in DocId /\ pollers[p] \in PollRec
    BY <1>1, Rows DEF PollFits, PollHolds
  <1>3. /\ docs[pollers[p].doc] \in DocRec /\ DocFits(pollers[p].doc, docs[pollers[p].doc])
    BY <1>1, <1>2, Rows DEF DocInv
  <1>4. \A q \in Poller \ {p} : Busy(pollers[q]) => pollers[q].doc # pollers[p].doc
    BY <1>1 DEF PollsApart
  <1>5. docs = [docs EXCEPT ![pollers[p].doc] = docs[pollers[p].doc]]
    BY <1>1 DEF DocTyped
  <1>6. ASSUME NEW pc \in PollPc
        PROVE  Goes(p, pc) \in PollRec /\ Goes(p, pc).doc \in {0, pollers[p].doc}
    <2>1. pollers[p] \in [pc : PollPc, queue : SUBSET Nat, doc : Nat, of : Nat]
      BY <1>2 DEF PollRec
    <2> DEFINE Q == SUBSET Nat
               PC == PollPc
    <2> HIDE DEF Q, PC
    <2>2. pollers[p] \in [pc : PC, queue : Q, doc : Nat, of : Nat] /\ pc \in PC
      BY <2>1 DEF Q, PC
    <2>3. Goes(p, pc) \in [pc : PC, queue : Q, doc : Nat, of : Nat]
      BY <2>2 DEF Goes
    <2>4. Goes(p, pc).doc \in {0, pollers[p].doc}
      BY <2>2 DEF Goes
    <2> QED
      BY <2>3, <2>4 DEF Q, PC, PollRec
  <1>7. ASSUME NEW pc \in PcOnError
        PROVE  PollFits(Goes(p, pc), docs[pollers[p].doc])
    <2>1. pollers[p] \in [pc : PollPc, queue : SUBSET Nat, doc : Nat, of : Nat]
      BY <1>2 DEF PollRec
    <2>2. /\ Goes(p, pc).pc = pc /\ Goes(p, pc).queue = pollers[p].queue
          /\ Goes(p, pc).doc = (IF pc = "next" THEN 0 ELSE pollers[p].doc)
          /\ Goes(p, pc).of = 0
      BY <2>1 DEF Goes, PcOnError
    <2> QED
      BY <1>1, <2>2 DEF PollFits, PollHolds, PcOnError, Busy, Untouched
  <1> QED
    BY <1>1, <1>2, <1>3, <1>4, <1>5, <1>6, <1>7

\* A poll that goes on without a write.
LEMMA PollGoesOn ==
  ASSUME DocInv, NEW p \in Poller, Busy(pollers[p]), NEW v \in PollRec,
         pollers' = [pollers EXCEPT ![p] = v], v.doc \in {0, pollers[p].doc},
         PollFits(v, docs[pollers[p].doc]),
         UNCHANGED <<docs, ingesting, files, output>>, docFaults' \in 0 .. MaxDocFaults
  PROVE  DocInv'
  <1> DEFINE d == pollers[p].doc
             r == docs[d]
  <1>1. /\ d \in DocId /\ r \in DocRec /\ DocFits(d, r)
        /\ \A q \in Poller \ {p} : Busy(pollers[q]) => pollers[q].doc # d
        /\ docs' = [docs EXCEPT ![d] = r] /\ r.text = docs[d].text
    BY BusyPolls
  <1> QED
    BY <1>1, OneMoves

\* Nobody writes more faults than there may be.
LEMMA FaultsStay ==
  ASSUME DocInv, DocFault \/ docFaults' = docFaults
  PROVE  docFaults' \in 0 .. MaxDocFaults
  BY DocumentsAssumption DEF DocInv, DocTyped, DocFault

\* A statement writes one row, or fails and leaves it.
LEMMA StatementMoves ==
  ASSUME DocInv, NEW p \in Poller, Busy(pollers[p]),
         NEW next \in PollPc, NEW orElse \in PcOnError, NEW change,
         NEW r \in DocRec, change[pollers[p].doc] = r, r.text = docs[pollers[p].doc].text,
         docs[pollers[p].doc].status # "deleted" =>
             DocFits(pollers[p].doc, r) /\ PollFits(Goes(p, next), r),
         Statement(p, change, next, orElse)
  PROVE  DocInv'
  <1> DEFINE d == pollers[p].doc
  <1>1. /\ d \in DocId
        /\ \A q \in Poller \ {p} : Busy(pollers[q]) => pollers[q].doc # d
        /\ \A pc \in PollPc : Goes(p, pc) \in PollRec /\ Goes(p, pc).doc \in {0, d}
        /\ \A pc \in PcOnError : PollFits(Goes(p, pc), docs[d])
    BY BusyPolls
  <1>2. /\ UNCHANGED <<ingesting, files, output>>
        /\ docFaults' = docFaults \/ DocFault
    BY DEF Statement, PollerRests, DocFault
  <1>3. docFaults' \in 0 .. MaxDocFaults
    BY <1>2, FaultsStay
  <1>4. CASE docs[d].status # "deleted" /\ docs' = [docs EXCEPT ![d] = change[d]] /\ PollerGoes(p, next)
    <2>1. pollers' = [pollers EXCEPT ![p] = Goes(p, next)]
      BY <1>4 DEF PollerGoes, Goes, DocInv, DocTyped, PollRec
    <2> QED
      BY <1>1, <1>2, <1>3, <1>4, <2>1, OneMoves
  <1>5. CASE PollerGoes(p, orElse) /\ docs' = docs
    <2>1. pollers' = [pollers EXCEPT ![p] = Goes(p, orElse)]
      BY <1>5 DEF PollerGoes, Goes, DocInv, DocTyped, PollRec
    <2>2. orElse \in PollPc
      BY DEF PcOnError, PollPc
    <2> QED
      BY <1>1, <1>2, <1>3, <1>5, <2>1, <2>2, PollGoesOn
  <1> QED
    BY <1>4, <1>5 DEF Statement

-----------------------------------------------------------------------------
(* Documents: the steps of a poll *)

\* What Goes makes of a poll, field by field.
LEMMA GoesFields ==
  ASSUME DocInv, NEW p \in Poller, NEW pc
  PROVE  /\ Goes(p, pc).pc = pc /\ Goes(p, pc).queue = pollers[p].queue
         /\ Goes(p, pc).doc = (IF pc = "next" THEN 0 ELSE pollers[p].doc)
         /\ Goes(p, pc).of = (IF pc \in {"chunk", "finish"} THEN pollers[p].of ELSE 0)
  <1>1. pollers[p] \in PollRec
    BY DEF DocInv, DocTyped
  <1>2. pollers[p] \in [pc : PollPc, queue : SUBSET Nat, doc : Nat, of : Nat]
    BY <1>1 DEF PollRec
  <1> QED
    BY <1>2 DEF Goes

LEMMA PollStartsKeeps ==
  ASSUME DocInv, NEW p \in Poller, PollStarts(p)
  PROVE  DocInv'
  <1> DEFINE v == [pollers[p] EXCEPT !.pc = "next", !.queue = {d \in DocId : docs[d].job = "queued"}]
  <1>1. /\ DocTyped /\ PollFits(pollers[p], docs[pollers[p].doc]) /\ pollers[p].pc = "idle"
    BY DEF DocInv, PollStarts, PollerAt
  <1>2. pollers[p] \in [pc : PollPc, queue : SUBSET Nat, doc : Nat, of : Nat] /\ DocId \subseteq Nat
    BY <1>1, Rows DEF PollRec
  <1>3. pollers[p].doc = 0
    BY <1>1 DEF PollFits, PollHolds, Busy
  <1>4. pollers' = [pollers EXCEPT ![p] = v]
    BY <1>1 DEF PollStarts, DocTyped
  <1>5. /\ v.pc = "next" /\ v.doc = 0 /\ v.of \in {0} \cup DocId
        /\ v.queue \subseteq DocId /\ v \in PollRec
    <2>1. pollers[p].of \in {0} \cup DocId
      BY <1>1 DEF PollFits, PollHolds
    <2> QED
      BY <1>2, <1>3, <2>1 DEF PollRec, PollPc
  <1> HIDE DEF v
  <1>6. /\ pollers' \in [Poller -> PollRec]
        /\ \A q \in Poller : pollers'[q] = pollers[q] \/ pollers'[q] = v
    BY <1>1, <1>4, <1>5 DEF DocTyped
  <1>7. docs' = docs /\ UNCHANGED <<ingesting, files, output>> /\ docFaults' \in 0 .. MaxDocFaults
    BY FaultsStay DEF PollStarts, PollerRests
  <1> QED
    BY <1>5, <1>6, <1>7, OthersRest DEF Busy

\* A nonempty set of numbers has a least one.
LEMMA Least ==
  ASSUME NEW S, S \subseteq Nat, S # {}
  PROVE  Min(S) \in S
  <1>1. PICK k \in S : \A y \in S : ~(<<y, k>> \in OpToRel(<, Nat))
    BY NatLessThanWellFounded, WFMin
  <1>2. ASSUME NEW y \in S, y < k
        PROVE  FALSE
    BY <1>1, <1>2 DEF OpToRel
  <1>3. \A y \in S : k <= y
    <2>1. \A y \in S : y \in Nat /\ k \in Nat /\ ~(y < k)
      BY <1>2
    <2> QED
      BY <2>1
  <1> QED
    BY <1>3, Zenon DEF Min

LEMMA PollEndsKeeps ==
  ASSUME DocInv, NEW p \in Poller, PollEnds(p), docs' = docs, PollerRests,
         DocFault \/ docFaults' = docFaults
  PROVE  DocInv'
  <1> DEFINE v == [pc |-> "idle", queue |-> {}, doc |-> 0, of |-> 0]
  <1>1. v \in PollRec /\ v.pc = "idle" /\ v.doc = 0 /\ v.of = 0 /\ v.queue = {}
    BY DEF PollRec, PollPc
  <1> HIDE DEF v
  <1>2. pollers' = [pollers EXCEPT ![p] = v]
    BY DEF PollEnds, v
  <1>3. /\ pollers' \in [Poller -> PollRec]
        /\ \A q \in Poller : pollers'[q] = pollers[q] \/ pollers'[q] = v
    BY <1>1, <1>2 DEF DocInv, DocTyped
  <1>4. docs' = docs /\ UNCHANGED <<ingesting, files, output>> /\ docFaults' \in 0 .. MaxDocFaults
    BY FaultsStay DEF PollerRests
  <1> QED
    BY <1>1, <1>3, <1>4, OthersRest DEF Busy

LEMMA ClaimKeeps ==
  ASSUME DocInv, NEW p \in Poller, Claim(p)
  PROVE  DocInv'
  <1> DEFINE d == Min(pollers[p].queue)
             skipped == [pollers EXCEPT ![p].queue = @ \ {d}]
             v == [pollers[p] EXCEPT !.queue = @ \ {d}]
             w == [pollers[p] EXCEPT !.queue = @ \ {d}, !.pc = "load", !.doc = d]
             r == [docs[d] EXCEPT !.job = "processing"]
  <1>1. /\ DocTyped /\ PollFits(pollers[p], docs[pollers[p].doc]) /\ pollers[p].pc = "next"
        /\ PollerRests /\ UNCHANGED <<ingesting, files, output>>
    BY DEF DocInv, Claim, PollerAt, PollerRests
  <1>2. /\ pollers[p] \in [pc : PollPc, queue : SUBSET Nat, doc : Nat, of : Nat]
        /\ DocId \subseteq Nat \ {0} /\ pollers[p] \in PollRec
    BY <1>1, Rows DEF PollRec
  <1>3. /\ pollers[p].doc = 0 /\ pollers[p].of \in {0} \cup DocId
        /\ pollers[p].queue \subseteq DocId
    BY <1>1 DEF PollFits, PollHolds, Busy
  <1>4. CASE pollers[p].queue = {}
    <2>1. PollEnds(p) /\ docs' = docs /\ docFaults' = docFaults
      BY <1>4 DEF Claim
    <2> QED
      BY <1>1, <2>1, PollEndsKeeps
  <1>5. CASE pollers[p].queue # {}
    <2>1. d \in DocId /\ d \in Nat \ {0}
      BY <1>2, <1>3, <1>5, Least
    <2>2. \/ /\ docs[d].job = "queued"
             /\ docs' = [docs EXCEPT ![d].job = "processing"]
             /\ pollers' = [skipped EXCEPT ![p].pc = "load", ![p].doc = d]
             /\ UNCHANGED docFaults
          \/ docs[d].job # "queued" /\ pollers' = skipped /\ UNCHANGED <<docs, docFaults>>
          \/ DocFault /\ PollEnds(p) /\ UNCHANGED docs
      BY <1>5 DEF Claim
    <2> HIDE DEF d
    <2>3. docs[d] \in DocRec /\ DocFits(d, docs[d])
      BY <1>1, <2>1, Rows DEF DocInv
    <2>4. docFaults \in 0 .. MaxDocFaults
      BY <1>1 DEF DocTyped
    <2>5. CASE /\ docs[d].job = "queued"
               /\ docs' = [docs EXCEPT ![d].job = "processing"]
               /\ pollers' = [skipped EXCEPT ![p].pc = "load", ![p].doc = d]
               /\ UNCHANGED docFaults
      <3>1. docs' = [docs EXCEPT ![d] = r]
        BY <2>5
      <3>2. /\ r \in DocRec /\ r.text = docs[d].text /\ r.job = "processing" /\ r.of = docs[d].of
            /\ r.chunks = docs[d].chunks /\ r.status = docs[d].status
            /\ r.direct = docs[d].direct /\ r.crossed = docs[d].crossed
        BY <2>3 DEF DocRec, JobStatus
      <3>3. /\ w \in PollRec /\ w.pc = "load" /\ w.doc = d /\ w.of = pollers[p].of
            /\ w.queue \subseteq DocId
        BY <1>2, <1>3, <2>1 DEF PollRec, PollPc
      <3>4. pollers' = [pollers EXCEPT ![p] = w]
        BY <1>1, <2>5 DEF DocTyped
      <3> HIDE DEF r, w
      <3>5. d \notin ingesting /\ Untouched(docs[d])
        BY <2>3, <2>5 DEF DocFits
      <3>6. DocFits(d, r)
        BY <2>3, <3>2, <3>5 DEF DocFits, Untouched
      <3>7. PollFits(w, r)
        BY <1>3, <2>1, <3>2, <3>3, <3>5 DEF PollFits, PollHolds, Untouched, Busy
      <3>8. ASSUME NEW q \in Poller \ {p}, Busy(pollers[q])
            PROVE  pollers[q].doc # d
        BY <2>5, <3>8 DEF DocInv, PollFits, PollHolds
      <3> QED
        BY <1>1, <2>1, <2>4, <2>5, <3>1, <3>2, <3>3, <3>4, <3>6, <3>7, <3>8, OneMoves, ZenonT(60)
    <2>6. CASE docs[d].job # "queued" /\ pollers' = skipped /\ UNCHANGED <<docs, docFaults>>
      <3>1. pollers' = [pollers EXCEPT ![p] = v]
        BY <1>1, <2>6 DEF DocTyped
      <3>2. /\ v \in PollRec /\ v.pc = "next" /\ v.doc = 0 /\ v.of \in {0} \cup DocId
            /\ v.queue \subseteq DocId
        BY <1>1, <1>2, <1>3 DEF PollRec
      <3> HIDE DEF v
      <3>3. /\ pollers' \in [Poller -> PollRec]
            /\ \A q \in Poller : pollers'[q] = pollers[q] \/ pollers'[q] = v
        BY <1>1, <3>1, <3>2 DEF DocTyped
      <3> QED
        BY <1>1, <2>4, <2>6, <3>2, <3>3, OthersRest DEF Busy
    <2>7. CASE DocFault /\ PollEnds(p) /\ UNCHANGED docs
      BY <1>1, <2>7, PollEndsKeeps
    <2> QED
      BY <2>2, <2>5, <2>6, <2>7
  <1> QED
    BY <1>4, <1>5

LEMMA LoadKeeps ==
  ASSUME DocInv, NEW p \in Poller, Load(p)
  PROVE  DocInv'
  <1> DEFINE r == docs[pollers[p].doc]
  <1>1. pollers[p].pc = "load" /\ Busy(pollers[p]) /\ Statement(p, docs, "read", "lost")
    BY DEF Load, PollerAt, Busy
  <1>2. r \in DocRec /\ DocFits(pollers[p].doc, r) /\ PollFits(pollers[p], r)
    BY <1>1, BusyPolls
  <1>3. PollFits(Goes(p, "read"), r)
    BY <1>1, <1>2, GoesFields DEF PollFits, PollHolds, Busy
  <1>4. "read" \in PollPc /\ "lost" \in PcOnError
    BY DEF PollPc, PcOnError
  <1> QED
    BY <1>1, <1>2, <1>3, <1>4, StatementMoves

LEMMA LostKeeps ==
  ASSUME DocInv, NEW p \in Poller, Lost(p)
  PROVE  DocInv'
  BY PollEndsKeeps DEF Lost

LEMMA ReadFileKeeps ==
  ASSUME DocInv, NEW p \in Poller, ReadFile(p)
  PROVE  DocInv'
  <1> DEFINE d == pollers[p].doc
             v == [pollers[p] EXCEPT !.pc = IF docs[d].direct THEN "chunk" ELSE "convert", !.of = d]
  <1>1. pollers[p].pc = "read" /\ Busy(pollers[p])
    BY DEF ReadFile, PollerAt, Busy
  <1>2. /\ docs[d] \in DocRec /\ DocFits(d, docs[d]) /\ PollFits(pollers[p], docs[d])
        /\ d \in DocId /\ pollers[p] \in PollRec /\ docs[d] \in DocRec
        /\ \A pc \in PollPc : Goes(p, pc) \in PollRec /\ Goes(p, pc).doc \in {0, d}
        /\ \A pc \in PcOnError : PollFits(Goes(p, pc), docs[d])
    BY <1>1, BusyPolls
  <1>3. /\ UNCHANGED <<docs, ingesting, files, output>> /\ (DocFault \/ docFaults' = docFaults)
        /\ \/ PollerGoes(p, "caught")
           \/ pollers' = [pollers EXCEPT ![p].pc = IF docs[d].direct THEN "chunk" ELSE "convert", ![p].of = d]
    BY DEF ReadFile, PollerRests
  <1>4. docFaults' \in 0 .. MaxDocFaults
    BY <1>3, FaultsStay
  <1>5. CASE PollerGoes(p, "caught")
    <2>1. pollers' = [pollers EXCEPT ![p] = Goes(p, "caught")]
      BY <1>5 DEF PollerGoes, Goes, DocInv, DocTyped, PollRec
    <2>2. "caught" \in PollPc /\ "caught" \in PcOnError
      BY DEF PollPc, PcOnError
    <2> QED
      BY <1>1, <1>2, <1>3, <1>4, <2>1, <2>2, PollGoesOn
  <1>6. CASE pollers' = [pollers EXCEPT ![p].pc = IF docs[d].direct THEN "chunk" ELSE "convert", ![p].of = d]
    <2>1. pollers' = [pollers EXCEPT ![p] = v]
      BY <1>6 DEF DocInv, DocTyped
    <2>2. DocId \subseteq Nat /\ d \in Nat
      BY <1>2, Rows DEF DocInv
    <2>3. /\ v \in PollRec /\ v.pc = (IF docs[d].direct THEN "chunk" ELSE "convert")
          /\ v.of = d /\ v.doc = d /\ v.queue = pollers[p].queue
      <3> DEFINE at == IF docs[d].direct THEN "chunk" ELSE "convert"
                 Q == SUBSET Nat
                 PC == PollPc
      <3>1. at \in PC
        BY DEF PollPc
      <3>2. pollers[p] \in [pc : PC, queue : Q, doc : Nat, of : Nat]
        BY <1>2 DEF PollRec
      <3> HIDE DEF at, Q, PC
      <3>3. [pollers[p] EXCEPT !.pc = at, !.of = d] \in [pc : PC, queue : Q, doc : Nat, of : Nat]
        BY <2>2, <3>1, <3>2
      <3>4. v = [pollers[p] EXCEPT !.pc = at, !.of = d]
        BY DEF at
      <3>5. v \in PollRec
        BY <3>3, <3>4 DEF Q, PC, PollRec
      <3> HIDE DEF v
      <3>6. v.pc = at /\ v.of = d /\ v.doc = d /\ v.queue = pollers[p].queue
        BY <3>2, <3>4
      <3> QED
        BY <3>5, <3>6 DEF at
    <2> HIDE DEF v
    <2>4. Size(d) \in Nat
      <3>1. docs[d].text \in Seq(Nat)
        BY <1>2, DocumentsAssumption DEF DocRec
      <3> QED
        BY <3>1, ChunksCover DEF Size
    <2>5. Untouched(docs[d]) /\ docs[d].direct \in BOOLEAN
      BY <1>1, <1>2 DEF PollFits, PollHolds, DocRec
    <2>6. PollFits(v, docs[d])
      <3>1. CASE docs[d].direct
        BY <1>1, <1>2, <2>3, <2>4, <2>5, <3>1 DEF PollFits, PollHolds, Busy, Untouched
      <3>2. CASE ~docs[d].direct
        BY <1>1, <1>2, <2>3, <2>4, <2>5, <3>2 DEF PollFits, PollHolds, Busy, Untouched
      <3> QED
        BY <3>1, <3>2
    <2> QED
      BY <1>1, <1>2, <1>3, <1>4, <2>1, <2>3, <2>6, PollGoesOn
  <1> QED
    BY <1>3, <1>5, <1>6

LEMMA ConvertFailsKeeps ==
  ASSUME DocInv, NEW p \in Poller, ConvertFails(p)
  PROVE  DocInv'
  <1>1. pollers[p].pc = "convert" /\ Busy(pollers[p])
    BY DEF ConvertFails, PollerAt, Busy
  <1>2. "failing" \in PollPc /\ "failing" \in PcOnError
    BY DEF PollPc, PcOnError
  <1>3. /\ Goes(p, "failing") \in PollRec /\ Goes(p, "failing").doc \in {0, pollers[p].doc}
        /\ PollFits(Goes(p, "failing"), docs[pollers[p].doc])
    BY <1>1, <1>2, BusyPolls
  <1>4. pollers' = [pollers EXCEPT ![p] = Goes(p, "failing")]
    BY DEF ConvertFails, PollerGoes, Goes, DocInv, DocTyped, PollRec
  <1>5. UNCHANGED <<docs, ingesting, files, output>> /\ docFaults' \in 0 .. MaxDocFaults
    BY FaultsStay DEF ConvertFails, PollerRests
  <1> QED
    BY <1>1, <1>3, <1>4, <1>5, PollGoesOn

LEMMA ReadOutputKeeps ==
  ASSUME DocInv, NEW p \in Poller, ReadOutput(p)
  PROVE  DocInv'
  <1> DEFINE d == pollers[p].doc
             v == [pollers[p] EXCEPT !.pc = "complete", !.of = output]
  <1>1. pollers[p].pc = "output" /\ Busy(pollers[p])
    BY DEF ReadOutput, PollerAt, Busy
  <1>2. /\ PollFits(pollers[p], docs[d]) /\ d \in DocId /\ pollers[p] \in PollRec
        /\ \A pc \in PollPc : Goes(p, pc) \in PollRec /\ Goes(p, pc).doc \in {0, d}
        /\ \A pc \in PcOnError : PollFits(Goes(p, pc), docs[d])
    BY <1>1, BusyPolls
  <1>3. /\ UNCHANGED <<docs, ingesting, files, output, docFaults>>
        /\ \/ PollerGoes(p, "failing")
           \/ output # 0 /\ pollers' = [pollers EXCEPT ![p].pc = "complete", ![p].of = output]
    BY DEF ReadOutput, PollerRests
  <1>4. docFaults' \in 0 .. MaxDocFaults
    BY <1>3, FaultsStay
  <1>5. CASE PollerGoes(p, "failing")
    <2>1. pollers' = [pollers EXCEPT ![p] = Goes(p, "failing")]
      BY <1>5 DEF PollerGoes, Goes, DocInv, DocTyped, PollRec
    <2>2. "failing" \in PollPc /\ "failing" \in PcOnError
      BY DEF PollPc, PcOnError
    <2> QED
      BY <1>1, <1>2, <1>3, <1>4, <2>1, <2>2, PollGoesOn
  <1>6. CASE output # 0 /\ pollers' = [pollers EXCEPT ![p].pc = "complete", ![p].of = output]
    <2>1. pollers' = [pollers EXCEPT ![p] = v]
      BY <1>6 DEF DocInv, DocTyped
    <2>2. output \in DocId /\ output \in Nat
      BY <1>6, Rows DEF DocInv, DocTyped
    <2>3. v.pc = "complete" /\ v.of = output /\ v.doc = d /\ v.queue = pollers[p].queue
      BY <1>2 DEF PollRec
    <2>4. v \in PollRec
      BY <1>2, <2>2 DEF PollRec, PollPc
    <2> HIDE DEF v
    <2>5. PollFits(v, docs[d])
      BY <1>1, <1>2, <1>6, <2>2, <2>3 DEF PollFits, PollHolds, Busy
    <2> QED
      BY <1>1, <1>2, <1>3, <1>4, <2>1, <2>3, <2>4, <2>5, PollGoesOn
  <1> QED
    BY <1>3, <1>5, <1>6

LEMMA StoreChunkKeeps ==
  ASSUME DocInv, NEW p \in Poller, StoreChunk(p)
  PROVE  DocInv'
  <1> DEFINE d == pollers[p].doc
             of == pollers[p].of
             n == Size(of)
             stored == [docs[d] EXCEPT !.chunks = @ + 1, !.of = of]
             completed == [docs[d] EXCEPT !.status = "completed", !.of = of]
             finished == [docs[d] EXCEPT !.job = "completed"]
  <1>1. pollers[p].pc = "chunk" /\ Busy(pollers[p])
    BY DEF StoreChunk, PollerAt, Busy
  <1>2. /\ PollFits(pollers[p], docs[d]) /\ d \in DocId /\ pollers[p] \in PollRec
        /\ docs[d] \in DocRec /\ DocFits(d, docs[d])
    BY <1>1, BusyPolls
  <1>3. /\ of \in DocId /\ of \in Nat /\ docs[of] \in DocRec
        /\ docs[d].crossed \/ of = d
        /\ d \notin ingesting /\ docs[d].job \notin {"queued", "completed"}
        /\ docs[d].chunks <= n
        /\ docs[d].direct => docs[d].status # "completed" /\ of = d
        /\ ~docs[d].direct => docs[d].of = of
    BY <1>1, <1>2, Rows DEF PollFits, PollHolds, Busy, DocInv
  <1>4. n \in Nat
    <2>1. docs[of].text \in Seq(Nat)
      BY <1>3, DocumentsAssumption DEF DocRec
    <2> QED
      BY <2>1, ChunksCover DEF Size
  <1>5. /\ \A f : DocWith(p, f)[d] = f
        /\ PollerText(p) = docs[of].text /\ IsDirect(p) = docs[d].direct
        /\ WhenFailed(p) = (IF docs[d].direct THEN "caught" ELSE "failing")
    BY <1>2 DEF DocWith, DocId, PollerText, IsDirect, WhenFailed
  <1>6. /\ Goes(p, "chunk").pc = "chunk" /\ Goes(p, "chunk").queue = pollers[p].queue
        /\ Goes(p, "chunk").doc = d /\ Goes(p, "chunk").of = of
        /\ Goes(p, "finish").pc = "finish" /\ Goes(p, "finish").queue = pollers[p].queue
        /\ Goes(p, "finish").doc = d /\ Goes(p, "finish").of = of
        /\ Goes(p, "next").pc = "next" /\ Goes(p, "next").queue = pollers[p].queue
        /\ Goes(p, "next").doc = 0 /\ Goes(p, "next").of = 0
    BY GoesFields
  <1>7. /\ {"chunk", "finish", "next"} \subseteq PollPc
        /\ {"caught", "failing", WhenFailed(p)} \subseteq PcOnError
    BY <1>5 DEF PollPc, PcOnError
  <1>8. docs[d].chunks \in Nat /\ docs[d].direct \in BOOLEAN
    BY <1>2 DEF DocRec
  <1>9. CASE docs[d].chunks < n
    <2>1. Statement(p, DocWith(p, stored), "chunk", WhenFailed(p))
      BY <1>5, <1>9 DEF StoreChunk, Size
    <2>2. /\ stored \in DocRec /\ stored.text = docs[d].text /\ stored.job = docs[d].job
          /\ stored.of = of /\ stored.chunks = docs[d].chunks + 1
          /\ stored.status = docs[d].status /\ stored.direct = docs[d].direct
          /\ stored.crossed = docs[d].crossed
      <3> DEFINE S == DocStatus
                 J == JobStatus
                 c == docs[d].chunks + 1
      <3>1. /\ docs[d] \in [status : S, direct : BOOLEAN, text : DocText, file : Nat, chunks : Nat,
                            of : Nat, crossed : BOOLEAN, job : J]
            /\ c \in Nat
        BY <1>2, <1>8 DEF DocRec
      <3> HIDE DEF S, J, c
      <3>2. stored = [docs[d] EXCEPT !.chunks = c, !.of = of]
        BY DEF c
      <3> HIDE DEF stored
      <3>3. /\ stored \in [status : S, direct : BOOLEAN, text : DocText, file : Nat, chunks : Nat,
                            of : Nat, crossed : BOOLEAN, job : J]
            /\ stored.text = docs[d].text /\ stored.job = docs[d].job
            /\ stored.of = of /\ stored.chunks = c
            /\ stored.status = docs[d].status /\ stored.direct = docs[d].direct
            /\ stored.crossed = docs[d].crossed
        BY <1>3, <3>1, <3>2
      <3> QED
        BY <3>3 DEF S, J, c, DocRec
    <2> HIDE DEF stored, d, of, n
    <2>3. DocFits(d, stored)
      BY <1>2, <1>3, <2>2 DEF DocFits, Untouched
    <2>4. PollFits(Goes(p, "chunk"), stored)
      BY <1>2, <1>3, <1>4, <1>6, <1>8, <1>9, <2>2 DEF PollFits, PollHolds, Busy, n
    <2> QED
      BY <1>1, <1>5, <1>7, <2>1, <2>2, <2>3, <2>4, StatementMoves DEF d
  <1>10. CASE ~(docs[d].chunks < n) /\ docs[d].direct
    <2>1. Statement(p, DocWith(p, completed), "finish", "caught")
      BY <1>5, <1>10 DEF StoreChunk, Size
    <2>2. /\ completed \in DocRec /\ completed.text = docs[d].text /\ completed.job = docs[d].job
          /\ completed.of = of /\ completed.chunks = docs[d].chunks
          /\ completed.status = "completed" /\ completed.direct = docs[d].direct
          /\ completed.crossed = docs[d].crossed
      BY <1>2, <1>3, <1>8 DEF DocRec, DocStatus
    <2> HIDE DEF completed, d, of, n
    <2>3. docs[d].chunks = n
      BY <1>3, <1>4, <1>8, <1>10
    <2>4. DocFits(d, completed)
      BY <1>2, <1>3, <2>2, <2>3 DEF DocFits, Untouched, n
    <2>5. PollFits(Goes(p, "finish"), completed)
      BY <1>2, <1>3, <1>6, <1>10, <2>2 DEF PollFits, PollHolds, Busy
    <2> QED
      BY <1>1, <1>5, <1>7, <2>1, <2>2, <2>4, <2>5, StatementMoves DEF d
  <1>11. CASE ~(docs[d].chunks < n) /\ ~docs[d].direct
    <2>1. Statement(p, DocWith(p, finished), "next", "failing")
      BY <1>5, <1>11 DEF StoreChunk, Size
    <2>2. /\ finished \in DocRec /\ finished.text = docs[d].text /\ finished.job = "completed"
          /\ finished.of = of /\ finished.chunks = docs[d].chunks
          /\ finished.status = docs[d].status /\ finished.direct = docs[d].direct
          /\ finished.crossed = docs[d].crossed
      BY <1>2, <1>3, <1>8, <1>11 DEF DocRec, JobStatus
    <2> HIDE DEF finished, d, of, n
    <2>3. docs[d].chunks = n
      BY <1>3, <1>4, <1>8, <1>11
    <2>4. DocFits(d, finished)
      BY <1>2, <1>3, <2>2, <2>3 DEF DocFits, Untouched, n
    <2>5. PollFits(Goes(p, "next"), finished)
      BY <1>2, <1>3, <1>6, <2>2 DEF PollFits, PollHolds, Busy
    <2> QED
      BY <1>1, <1>5, <1>7, <2>1, <2>2, <2>4, <2>5, StatementMoves DEF d
  <1> QED
    BY <1>8, <1>9, <1>10, <1>11

\* What the statements of an error write of p's document.
RowsOnError(p) == {[docs[pollers[p].doc] EXCEPT !.status = "failed"],
                   [docs[pollers[p].doc] EXCEPT !.job = "failed"]}

LEMMA ErrorFits ==
  ASSUME DocInv, NEW p \in Poller, Busy(pollers[p]), NEW next \in PcOnError,
         NEW r \in RowsOnError(p)
  PROVE  /\ next \in PollPc /\ r \in DocRec /\ r.text = docs[pollers[p].doc].text
         /\ DocWith(p, r)[pollers[p].doc] = r
         /\ DocFits(pollers[p].doc, r) /\ PollFits(Goes(p, next), r)
  <1> DEFINE d == pollers[p].doc
  <1>1. /\ d \in DocId /\ docs[d] \in DocRec /\ DocFits(d, docs[d])
        /\ PollFits(pollers[p], docs[d])
    BY BusyPolls
  <1>2. d \notin ingesting /\ d \in DocId /\ docs[d].job \notin {"queued", "completed"}
    BY <1>1 DEF PollFits, PollHolds
  <1>3. /\ r \in DocRec /\ r.text = docs[d].text /\ r.of = docs[d].of /\ r.chunks = docs[d].chunks
        /\ r.direct = docs[d].direct /\ r.crossed = docs[d].crossed
        /\ r.job \in {docs[d].job, "failed"} /\ r.status \in {docs[d].status, "failed"}
    BY <1>1 DEF DocRec, DocStatus, JobStatus, RowsOnError
  <1>4. DocWith(p, r)[d] = r
    BY <1>1 DEF DocWith, DocId
  <1>5. DocFits(d, r)
    BY <1>1, <1>2, <1>3 DEF DocFits, Untouched
  <1>6. /\ Goes(p, next).pc = next /\ Goes(p, next).queue = pollers[p].queue
        /\ Goes(p, next).doc = (IF next = "next" THEN 0 ELSE d)
        /\ Goes(p, next).of = 0
    BY GoesFields, ZenonT(60) DEF PcOnError
  <1>7. PollFits(Goes(p, next), r)
    BY <1>1, <1>2, <1>3, <1>6 DEF PollFits, PollHolds, PcOnError, Busy, Untouched
  <1> QED
    BY <1>3, <1>4, <1>5, <1>7 DEF PcOnError, PollPc

LEMMA FailsKeep ==
  ASSUME DocInv, NEW p \in Poller,
         FailJobDoc(p) \/ FailJobRow(p) \/ CaughtDoc(p) \/ CaughtRow(p)
  PROVE  DocInv'
  <1> DEFINE d == pollers[p].doc
             failed == [docs[d] EXCEPT !.status = "failed"]
             over == [docs[d] EXCEPT !.job = "failed"]
  <1>1. Busy(pollers[p])
    BY DEF FailJobDoc, FailJobRow, CaughtDoc, CaughtRow, PollerAt, Busy
  <1>2. {"failing job", "caught", "caught job", "next"} \subseteq PcOnError
    BY DEF PcOnError
  <1>3. PICK r \in {failed, over}, next \in PcOnError, orElse \in PcOnError :
           Statement(p, DocWith(p, r), next, orElse)
    <2>1. CASE FailJobDoc(p)
      <3>1. Statement(p, DocWith(p, failed), "failing job", "caught")
        BY <2>1 DEF FailJobDoc
      <3> QED
        BY <1>2, <3>1
    <2>2. CASE FailJobRow(p)
      <3>1. Statement(p, DocWith(p, over), "caught", "caught")
        BY <2>2 DEF FailJobRow
      <3> QED
        BY <1>2, <3>1
    <2>3. CASE CaughtDoc(p)
      <3>1. Statement(p, DocWith(p, failed), "caught job", "next")
        BY <2>3 DEF CaughtDoc
      <3> QED
        BY <1>2, <3>1
    <2>4. CASE CaughtRow(p)
      <3>1. Statement(p, DocWith(p, over), "next", "next")
        BY <2>4 DEF CaughtRow
      <3> QED
        BY <1>2, <3>1
    <2> QED
      BY <2>1, <2>2, <2>3, <2>4
  <1>4. /\ next \in PollPc /\ r \in DocRec /\ r.text = docs[d].text /\ DocWith(p, r)[d] = r
        /\ DocFits(d, r) /\ PollFits(Goes(p, next), r)
    <2>1. r \in RowsOnError(p)
      BY <1>3 DEF RowsOnError
    <2>2. next \in PcOnError
      BY <1>3
    <2> HIDE DEF failed, over
    <2> QED
      BY <1>1, <2>1, <2>2, ErrorFits
  <1> QED
    BY <1>1, <1>3, <1>4, StatementMoves

LEMMA CompleteConvertedKeeps ==
  ASSUME DocInv, NEW p \in Poller, CompleteConverted(p)
  PROVE  DocInv'
  <1> DEFINE d == pollers[p].doc
             of == pollers[p].of
             r == [docs[d] EXCEPT !.status = "completed", !.of = of]
  <1>1. pollers[p].pc = "complete" /\ Busy(pollers[p])
    BY DEF CompleteConverted, PollerAt, Busy
  <1>2. /\ d \in DocId /\ docs[d] \in DocRec /\ DocFits(d, docs[d])
        /\ PollFits(pollers[p], docs[d])
    BY <1>1, BusyPolls
  <1>3. /\ of \in DocId /\ of \in Nat /\ docs[of] \in DocRec
        /\ docs[d].crossed \/ of = d
        /\ d \notin ingesting /\ docs[d].job \notin {"queued", "completed"}
        /\ ~docs[d].direct /\ docs[d].chunks = 0
    BY <1>1, <1>2, Rows DEF PollFits, PollHolds, Busy, Untouched, DocInv
  <1>4. Size(of) \in Nat
    <2>1. docs[of].text \in Seq(Nat)
      BY <1>3, DocumentsAssumption DEF DocRec
    <2> QED
      BY <2>1, ChunksCover DEF Size
  <1>5. /\ r \in DocRec /\ r.text = docs[d].text /\ r.job = docs[d].job
        /\ r.of = of /\ r.chunks = 0 /\ r.status = "completed"
        /\ r.direct = docs[d].direct /\ r.crossed = docs[d].crossed
    BY <1>2, <1>3 DEF DocRec, DocStatus
  <1>6. Statement(p, DocWith(p, r), "chunk", "failing") /\ DocWith(p, r)[d] = r
    BY <1>2 DEF CompleteConverted, DocWith, DocId
  <1>7. /\ Goes(p, "chunk").pc = "chunk" /\ Goes(p, "chunk").queue = pollers[p].queue
        /\ Goes(p, "chunk").doc = d /\ Goes(p, "chunk").of = of
    BY GoesFields
  <1>8. "chunk" \in PollPc /\ "failing" \in PcOnError
    BY DEF PollPc, PcOnError
  <1> HIDE DEF r, d, of
  <1>9. DocFits(d, r)
    BY <1>2, <1>3, <1>5 DEF DocFits
  <1>10. PollFits(Goes(p, "chunk"), r)
    BY <1>2, <1>3, <1>4, <1>5, <1>7 DEF PollFits, PollHolds, Busy
  <1> QED
    BY <1>1, <1>5, <1>6, <1>8, <1>9, <1>10, StatementMoves DEF d

LEMMA FinishDirectKeeps ==
  ASSUME DocInv, NEW p \in Poller, FinishDirect(p)
  PROVE  DocInv'
  <1> DEFINE d == pollers[p].doc
             r == [docs[d] EXCEPT !.job = "completed"]
  <1>1. pollers[p].pc = "finish" /\ Busy(pollers[p])
    BY DEF FinishDirect, PollerAt, Busy
  <1>2. /\ d \in DocId /\ docs[d] \in DocRec /\ DocFits(d, docs[d])
        /\ PollFits(pollers[p], docs[d])
    BY <1>1, BusyPolls
  <1>3. d \notin ingesting /\ docs[d].direct
    BY <1>1, <1>2 DEF PollFits, PollHolds, Busy
  <1>4. /\ r \in DocRec /\ r.text = docs[d].text /\ r.job = "completed" /\ r.of = docs[d].of
        /\ r.chunks = docs[d].chunks /\ r.status = docs[d].status
        /\ r.direct = docs[d].direct /\ r.crossed = docs[d].crossed
    BY <1>2 DEF DocRec, JobStatus
  <1>5. Statement(p, DocWith(p, r), "next", "caught") /\ DocWith(p, r)[d] = r
    BY <1>2 DEF FinishDirect, DocWith, DocId
  <1>6. /\ Goes(p, "next").pc = "next" /\ Goes(p, "next").queue = pollers[p].queue
        /\ Goes(p, "next").doc = 0 /\ Goes(p, "next").of = 0
    BY GoesFields
  <1>7. "next" \in PollPc /\ "caught" \in PcOnError
    BY DEF PollPc, PcOnError
  <1> HIDE DEF r, d
  <1>8. DocFits(d, r)
    BY <1>2, <1>3, <1>4 DEF DocFits, Untouched
  <1>9. PollFits(Goes(p, "next"), r)
    BY <1>2, <1>6 DEF PollFits, PollHolds, Busy
  <1> QED
    BY <1>1, <1>4, <1>5, <1>7, <1>8, <1>9, StatementMoves DEF d

\* While two conversions run, both are crossed.
LEMMA ConvertKeeps ==
  ASSUME DocInv, NEW p \in Poller, Convert(p)
  PROVE  DocInv'
  <1> DEFINE d == pollers[p].doc
             busy == {q \in Poller : pollers[q].pc \in {"convert", "output"}}
             mixed(e) == Cardinality(busy) > 1 /\ \E q \in busy : pollers[q].doc = e
             v == Goes(p, "output")
  <1>1. pollers[p].pc = "convert" /\ Busy(pollers[p])
    BY DEF Convert, PollerAt, Busy
  <1>2. /\ DocTyped /\ PollsApart /\ \A e \in DocId : DocFits(e, docs[e])
        /\ \A q \in Poller : PollFits(pollers[q], docs[pollers[q].doc])
    BY DEF DocInv
  <1>3. /\ d \in DocId /\ PollFits(pollers[p], docs[d]) /\ v \in PollRec
    BY <1>1, BusyPolls DEF PollPc
  <1>4. /\ DocId = 1 .. Len(docs) /\ Len(docs) \in Nat
        /\ \A e \in DocId : docs[e] \in DocRec
    BY <1>2, Rows
  <1>5. /\ output' = d /\ ingesting' = ingesting /\ files' = files /\ docFaults' = docFaults
        /\ docs' = [e \in DocId |-> [docs[e] EXCEPT !.crossed = @ \/ mixed(e)]]
        /\ PollerGoes(p, "output")
    BY Zenon DEF Convert
  <1>6. pollers' = [pollers EXCEPT ![p] = v]
    BY <1>2, <1>5 DEF PollerGoes, Goes, DocTyped, PollRec
  <1>7. /\ pollers' \in [Poller -> PollRec] /\ pollers'[p] = v
        /\ \A q \in Poller \ {p} : pollers'[q] = pollers[q]
    BY <1>2, <1>3, <1>6 DEF DocTyped
  <1> HIDE DEF mixed, busy
  <1>8. ASSUME NEW e \in DocId
        PROVE  /\ docs'[e] \in DocRec
               /\ docs'[e].of = docs[e].of /\ docs'[e].chunks = docs[e].chunks
               /\ docs'[e].status = docs[e].status /\ docs'[e].direct = docs[e].direct
               /\ docs'[e].job = docs[e].job /\ docs'[e].text = docs[e].text
               /\ docs'[e].crossed = (docs[e].crossed \/ mixed(e))
    <2>1. docs'[e] = [docs[e] EXCEPT !.crossed = @ \/ mixed(e)]
      BY <1>5
    <2>2. docs[e] \in DocRec /\ mixed(e) \in BOOLEAN
      BY <1>4 DEF mixed
    <2> DEFINE m == mixed(e)
    <2> HIDE DEF m
    <2>3. m \in BOOLEAN /\ docs'[e] = [docs[e] EXCEPT !.crossed = @ \/ m]
      BY <2>1, <2>2 DEF m
    <2> QED
      BY <2>2, <2>3 DEF DocRec, m
  <1>9. DOMAIN docs' = DocId /\ DocId' = DocId
    BY <1>5 DEF DocId
  <1>10. docs' \in Seq(DocRec) /\ Len(docs') = Len(docs)
    <2> DEFINE R == DocRec
    <2> HIDE DEF R
    <2>1. docs' \in [1 .. Len(docs) -> R]
      BY <1>4, <1>5, <1>8, <1>9 DEF R
    <2>2. docs' \in Seq(R) /\ Len(docs') = Len(docs)
      BY <1>4, <2>1
    <2> QED
      BY <2>2 DEF R
  <1>11. DocTyped'
    BY <1>2, <1>3, <1>5, <1>7, <1>9, <1>10 DEF DocTyped
  <1>12. /\ \A e \in DocId : \A r : DocFits(e, r) => DocFits(e, r)'
         /\ \A w, r : PollHolds(w, r) /\ (w.pc = "output" => output' \in {0, w.doc} \/ r.crossed)
                         => PollFits(w, r)'
    BY <1>5, <1>8, <1>9, FitsMove
  <1>13. ASSUME NEW e \in DocId
         PROVE  DocFits(e, docs[e])'
    <2>1. PICK r : r = docs'[e]
      OBVIOUS
    <2>2. DocFits(e, r)
      <3>1. DocFits(e, docs[e])
        BY <1>2
      <3> QED
        BY <1>8, <2>1, <3>1 DEF DocFits, Untouched
    <2>3. DocFits(e, r)'
      BY <1>12, <2>2
    <2> QED
      BY <2>1, <2>3 DEF DocFits, Untouched
  <1>14. ASSUME NEW q \in Poller
         PROVE  PollFits(pollers[q], docs[pollers[q].doc])'
    <2>1. PICK w, r : w = pollers'[q] /\ r = docs'[w.doc]
      OBVIOUS
    <2>2. PollHolds(w, r) /\ (w.pc = "output" => d = w.doc \/ r.crossed)
      <3>1. CASE q = p
        <4>1. w = v /\ v.pc = "output" /\ v.queue = pollers[p].queue /\ v.doc = d /\ v.of = 0
          BY <1>7, <2>1, <3>1, GoesFields
        <4>2. /\ d \in DocId \ ingesting /\ docs[d].job \notin {"queued", "completed"}
              /\ Untouched(docs[d]) /\ ~docs[d].direct /\ pollers[p].queue \subseteq DocId
          BY <1>1, <1>3 DEF PollFits, PollHolds, Busy
        <4> QED
          BY <1>8, <2>1, <4>1, <4>2 DEF PollFits, PollHolds, Busy, Untouched
      <3>2. CASE q # p
        <4>1. w = pollers[q] /\ PollFits(w, docs[w.doc])
          BY <1>2, <1>7, <2>1, <3>2
        <4>2. CASE ~Busy(w)
          BY <4>1, <4>2 DEF PollFits, PollHolds, Busy
        <4>3. CASE Busy(w)
          <5>1. w.doc \in DocId
            BY <4>1, <4>3 DEF PollFits, PollHolds
          <5>2. ASSUME w.pc = "output"
                PROVE  mixed(w.doc)
            <6>1. {p, q} \subseteq busy /\ p # q
              BY <1>1, <3>2, <4>1, <5>2 DEF busy
            <6>2. IsFiniteSet(busy)
              BY FS_Subset, DocumentsAssumption DEF busy
            <6>3. Cardinality({p, q}) = 2
              <7>1. IsFiniteSet({p}) /\ Cardinality({p}) = 1
                BY FS_Singleton
              <7>2. Cardinality({p} \cup {q}) = Cardinality({p}) + 1
                BY <6>1, <7>1, FS_AddElement
              <7>3. {p, q} = {p} \cup {q}
                OBVIOUS
              <7> QED
                BY <7>1, <7>2, <7>3
            <6>4. Cardinality(busy) > 1
              <7>1. Cardinality({p, q}) <= Cardinality(busy) /\ Cardinality(busy) \in Nat
                BY <6>1, <6>2, FS_Subset, FS_CardinalityType
              <7> QED
                BY <6>3, <7>1
            <6> QED
              BY <4>1, <6>1, <6>4 DEF mixed
          <5>3. w.pc = "output" => r.crossed
            BY <1>8, <2>1, <5>1, <5>2
          <5>4. /\ r.of = docs[w.doc].of /\ r.chunks = docs[w.doc].chunks
                /\ r.status = docs[w.doc].status /\ r.direct = docs[w.doc].direct
                /\ r.job = docs[w.doc].job /\ (docs[w.doc].crossed => r.crossed)
            BY <1>8, <2>1, <5>1
          <5> QED
            BY <4>1, <5>3, <5>4 DEF PollFits, PollHolds, Busy, Untouched
        <4> QED
          BY <4>2, <4>3
      <3> QED
        BY <3>1, <3>2
    <2>3. PollFits(w, r)'
      BY <1>5, <1>12, <2>2
    <2> QED
      BY <2>1, <2>3 DEF PollFits, PollHolds, Busy, Untouched
  <1>15. PollsApart'
    <2>1. v.doc = d
      BY GoesFields
    <2>2. \A q \in Poller : pollers'[q].doc = pollers[q].doc /\ (Busy(pollers'[q]) => Busy(pollers[q]))
      BY <1>1, <1>7, <2>1
    <2> QED
      BY <1>2, <2>2 DEF PollsApart, Busy
  <1> QED
    BY <1>9, <1>11, <1>13, <1>14, <1>15 DEF DocInv

-----------------------------------------------------------------------------
(* Documents: the steps of the backend, and crashes *)

\* A step that adds a document or writes one, and leaves the polls.
LEMMA PollsRest ==
  ASSUME DocInv, UNCHANGED pollers, DocTyped', DocId \subseteq DocId',
         ingesting' \cap DocId \subseteq ingesting, output' \in {0, output},
         \A e \in DocId : docs'[e].text = docs[e].text,
         \A e \in DocId' : DocFits(e, docs[e])',
         \A q \in Poller : Busy(pollers[q]) => PollFits(pollers[q], docs'[pollers[q].doc])
  PROVE  DocInv'
  <1>1. /\ \A q \in Poller : PollFits(pollers[q], docs[pollers[q].doc])
        /\ PollsApart
    BY DEF DocInv
  <1>2. \A w, u : PollFits(w, u) => PollFits(w, u)'
    BY FitsStay
  <1>3. ASSUME NEW q \in Poller
        PROVE  PollFits(pollers[q], docs[pollers[q].doc])'
    <2>1. PICK w, u : w = pollers[q] /\ u = docs'[w.doc]
      OBVIOUS
    <2>2. PollFits(w, u)
      <3>1. CASE Busy(w)
        BY <2>1, <3>1
      <3>2. CASE ~Busy(w)
        BY <1>1, <2>1, <3>2 DEF PollFits, PollHolds, Busy
      <3> QED
        BY <3>1, <3>2
    <2>3. PollFits(w, u)' /\ w = pollers'[q]
      BY <1>2, <2>1, <2>2
    <2> QED
      BY <2>1, <2>3 DEF PollFits, PollHolds, Busy, Untouched
  <1>4. PollsApart'
    BY <1>1 DEF PollsApart, Busy
  <1> QED
    BY <1>3, <1>4 DEF DocInv

LEMMA CreateDocKeeps ==
  ASSUME DocInv, NEW direct \in BOOLEAN, NEW t \in DocText, NEW file \in Nat,
         CreateDoc(direct, t, file), files' \subseteq files \cup {Len(docs) + 1},
         UNCHANGED <<output, pollers, docFaults>>
  PROVE  DocInv'
  <1> DEFINE n == Len(docs) + 1
             r == [status |-> "processing", direct |-> direct, text |-> t, file |-> file,
                   chunks |-> 0, of |-> 0, crossed |-> FALSE, job |-> "none"]
  <1>1. /\ DocTyped /\ \A e \in DocId : DocFits(e, docs[e])
        /\ \A q \in Poller : PollFits(pollers[q], docs[pollers[q].doc])
    BY DEF DocInv
  <1>2. /\ Len(docs) < MaxDocs /\ docs' = Append(docs, r) /\ ingesting' = ingesting \cup {n}
    BY DEF CreateDoc
  <1>3. r \in DocRec
    BY DEF DocRec, DocStatus, JobStatus
  <1>4. /\ r.of = 0 /\ r.chunks = 0 /\ r.status = "processing" /\ r.job = "none"
    OBVIOUS
  <1> HIDE DEF r
  <1>5. DocId = 1 .. Len(docs) /\ Len(docs) \in Nat /\ MaxDocs \in Nat
    BY <1>1, Rows, DocumentsAssumption
  <1>6. /\ docs' \in Seq(DocRec) /\ Len(docs') = n /\ docs'[n] = r
        /\ \A e \in DocId : docs'[e] = docs[e]
        /\ DocId' = DocId \cup {n} /\ n \notin DocId /\ n # 0
    <2> DEFINE R == DocRec
    <2>1. docs \in Seq(R) /\ r \in R
      BY <1>1, <1>3 DEF DocTyped
    <2> HIDE DEF R
    <2>2. /\ docs' \in Seq(R) /\ Len(docs') = n /\ docs'[n] = r
          /\ \A e \in 1 .. Len(docs) : docs'[e] = docs[e]
          /\ DOMAIN docs' = 1 .. n
      BY <1>2, <1>5, <2>1
    <2>3. 1 .. n = 1 .. Len(docs) \cup {n} /\ n \notin 1 .. Len(docs) /\ n # 0
      BY <1>5
    <2> QED
      BY <1>5, <2>2, <2>3 DEF DocId, R
  <1>7. DocTyped'
    <2>1. Len(docs') <= MaxDocs
      BY <1>2, <1>5, <1>6
    <2> QED
      BY <1>1, <1>2, <1>6, <2>1 DEF DocTyped
  <1>8. \A e \in DocId : \A u : DocFits(e, u) => DocFits(e, u)'
    BY <1>2, <1>6, FitsStay
  <1>9. ASSUME NEW e \in DocId'
        PROVE  DocFits(e, docs[e])'
    <2>1. CASE e = n
      BY <1>4, <1>6, <2>1 DEF DocFits, Untouched
    <2>2. CASE e # n
      <3>1. PICK u : u = docs'[e]
        OBVIOUS
      <3>2. e \in DocId /\ DocFits(e, u)
        BY <1>1, <1>6, <2>2, <3>1
      <3>3. DocFits(e, u)'
        BY <1>8, <3>2
      <3> QED
        BY <3>1, <3>3 DEF DocFits, Untouched
    <2> QED
      BY <2>1, <2>2
  <1>10. ASSUME NEW q \in Poller, Busy(pollers[q])
         PROVE  PollFits(pollers[q], docs'[pollers[q].doc])
    <2>1. pollers[q].doc \in DocId
      BY <1>1, <1>10 DEF PollFits, PollHolds
    <2> QED
      BY <1>1, <1>6, <2>1
  <1> QED
    BY <1>2, <1>6, <1>7, <1>9, <1>10, PollsRest

LEMMA IngestKeeps ==
  ASSUME DocInv, NEW direct \in BOOLEAN, NEW t \in DocText, Ingest(direct, t)
  PROVE  DocInv'
  <1>1. Len(docs) + 1 \in Nat
    BY Rows DEF DocInv
  <1> QED
    BY <1>1, CreateDocKeeps DEF Ingest

LEMMA ReingestKeeps ==
  ASSUME DocInv, NEW d \in DocId, Reingest(d)
  PROVE  DocInv'
  <1>1. docs[d] \in DocRec
    BY Rows DEF DocInv
  <1>2. docs[d].direct \in BOOLEAN /\ docs[d].text \in DocText /\ docs[d].file \in Nat
    BY <1>1 DEF DocRec
  <1> QED
    BY <1>2, CreateDocKeeps DEF Reingest

LEMMA CreateJobKeeps ==
  ASSUME DocInv, NEW d \in DocId, CreateJob(d)
  PROVE  DocInv'
  <1> DEFINE r == [docs[d] EXCEPT !.job = "queued"]
  <1>1. /\ DocTyped /\ \A e \in DocId : DocFits(e, docs[e])
        /\ \A q \in Poller : PollFits(pollers[q], docs[pollers[q].doc])
    BY DEF DocInv
  <1>2. /\ d \in ingesting /\ ingesting' = ingesting \ {d} /\ UNCHANGED <<files, output, pollers>>
        /\ DocFault \/ docFaults' = docFaults
        /\ docs' = docs \/ docs' = [docs EXCEPT ![d] = r]
    BY DEF CreateJob
  <1>3. docFaults' \in 0 .. MaxDocFaults
    BY <1>2, FaultsStay
  <1>4. docs[d] \in DocRec
    BY <1>1, Rows
  <1>5. /\ r \in DocRec /\ r.text = docs[d].text /\ r.of = docs[d].of /\ r.job = "queued"
        /\ r.chunks = docs[d].chunks /\ r.status = docs[d].status
    BY <1>4 DEF DocRec, JobStatus
  <1>6. Untouched(docs[d]) /\ docs[d].of \in {0} \cup DocId
    BY <1>1, <1>2 DEF DocFits
  <1> HIDE DEF r
  <1>7. /\ docs' \in Seq(DocRec) /\ Len(docs') = Len(docs) /\ DocId' = DocId
        /\ \A e \in DocId : e # d => docs'[e] = docs[e]
        /\ docs'[d] \in {r, docs[d]}
    BY <1>1, <1>2, <1>5, Rows DEF DocTyped, DocId
  <1>8. DocTyped'
    BY <1>1, <1>2, <1>3, <1>7 DEF DocTyped
  <1>9. \A e \in DocId : docs'[e].text = docs[e].text
    BY <1>5, <1>7
  <1>10. \A e \in DocId : \A u : DocFits(e, u) => DocFits(e, u)'
    BY <1>2, <1>7, <1>9, FitsStay
  <1>11. ASSUME NEW e \in DocId'
         PROVE  DocFits(e, docs[e])'
    <2>1. CASE e = d
      <3>1. /\ docs'[d].of \in {0} \cup DocId /\ docs'[d].chunks = 0
            /\ docs'[d].status # "completed"
        BY <1>5, <1>6, <1>7 DEF Untouched
      <3> QED
        BY <1>2, <1>7, <2>1, <3>1 DEF DocFits, Untouched
    <2>2. CASE e # d
      <3>1. PICK u : u = docs'[e]
        OBVIOUS
      <3>2. e \in DocId /\ DocFits(e, u)
        BY <1>1, <1>7, <2>2, <3>1
      <3>3. DocFits(e, u)'
        BY <1>10, <3>2
      <3> QED
        BY <3>1, <3>3 DEF DocFits, Untouched
    <2> QED
      BY <2>1, <2>2
  <1>12. ASSUME NEW q \in Poller, Busy(pollers[q])
         PROVE  PollFits(pollers[q], docs'[pollers[q].doc])
    <2>1. pollers[q].doc \in DocId /\ pollers[q].doc # d
      BY <1>1, <1>2, <1>12 DEF PollFits, PollHolds
    <2> QED
      BY <1>1, <1>7, <2>1
  <1> QED
    BY <1>2, <1>7, <1>8, <1>9, <1>11, <1>12, PollsRest

LEMMA DeleteDocKeeps ==
  ASSUME DocInv, NEW d \in DocId, DeleteDoc(d)
  PROVE  DocInv'
  <1> DEFINE r == [docs[d] EXCEPT !.status = "deleted", !.job = "none", !.chunks = 0]
  <1>1. /\ DocTyped /\ \A e \in DocId : DocFits(e, docs[e])
        /\ \A q \in Poller : PollFits(pollers[q], docs[pollers[q].doc])
    BY DEF DocInv
  <1>2. /\ UNCHANGED <<ingesting, pollers, docFaults>> /\ output' \in {0, output}
        /\ files' \subseteq files /\ docs' = [docs EXCEPT ![d] = r]
    BY DEF DeleteDoc
  <1>3. docs[d] \in DocRec
    BY <1>1, Rows
  <1>4. /\ r \in DocRec /\ r.text = docs[d].text /\ r.of = docs[d].of /\ r.job = "none"
        /\ r.chunks = 0 /\ r.status = "deleted" /\ r.direct = docs[d].direct
        /\ r.crossed = docs[d].crossed
    BY <1>3 DEF DocRec, JobStatus, DocStatus
  <1> HIDE DEF r
  <1>5. /\ docs' \in Seq(DocRec) /\ Len(docs') = Len(docs) /\ DocId' = DocId
        /\ \A e \in DocId : docs'[e] = IF e = d THEN r ELSE docs[e]
    BY <1>1, <1>2, <1>4, Rows DEF DocId
  <1>6. DocTyped'
    BY <1>1, <1>2, <1>5 DEF DocTyped
  <1>7. \A e \in DocId : docs'[e].text = docs[e].text
    BY <1>4, <1>5
  <1>8. \A e \in DocId : \A u : DocFits(e, u) => DocFits(e, u)'
    BY <1>2, <1>5, <1>7, FitsStay
  <1>9. DocFits(d, r)
    BY <1>1, <1>4 DEF DocFits, Untouched
  <1>10. ASSUME NEW e \in DocId'
         PROVE  DocFits(e, docs[e])'
    <2>1. PICK u : u = docs'[e]
      OBVIOUS
    <2>2. e \in DocId /\ DocFits(e, u)
      BY <1>1, <1>5, <1>9, <2>1
    <2>3. DocFits(e, u)'
      BY <1>8, <2>2
    <2> QED
      BY <2>1, <2>3 DEF DocFits, Untouched
  <1>11. ASSUME NEW q \in Poller, Busy(pollers[q])
         PROVE  PollFits(pollers[q], docs'[pollers[q].doc])
    <2>1. pollers[q].doc \in DocId /\ PollFits(pollers[q], docs[pollers[q].doc])
      BY <1>1, <1>11 DEF PollFits, PollHolds
    <2>2. CASE pollers[q].doc # d
      BY <1>5, <2>1, <2>2
    <2>3. CASE pollers[q].doc = d
      <3>1. pollers[q].of \in DocId => Size(pollers[q].of) \in Nat
        <4> SUFFICES ASSUME pollers[q].of \in DocId
                     PROVE  Size(pollers[q].of) \in Nat
          OBVIOUS
        <4>1. docs[pollers[q].of] \in DocRec
          BY <1>1, Rows
        <4>2. docs[pollers[q].of].text \in Seq(Nat)
          BY <4>1, DocumentsAssumption DEF DocRec
        <4> QED
          BY <4>2, ChunksCover DEF Size
      <3>2. PollFits(pollers[q], r)
        BY <1>4, <2>1, <2>3, <3>1 DEF PollFits, PollHolds, Untouched, Busy
      <3> QED
        BY <1>5, <2>3, <3>2
    <2> QED
      BY <2>2, <2>3
  <1> QED
    BY <1>2, <1>5, <1>6, <1>7, <1>10, <1>11, PollsRest

LEMMA CrashesKeep ==
  ASSUME DocInv, BackendCrash \/ WorkerCrash
  PROVE  DocInv'
  <1>1. /\ DocTyped /\ \A e \in DocId : DocFits(e, docs[e])
        /\ \A q \in Poller : PollFits(pollers[q], docs[pollers[q].doc])
    BY DEF DocInv
  <1>2. docFaults' \in 0 .. MaxDocFaults /\ docs' = docs /\ output' = output /\ files' = files
    BY FaultsStay DEF BackendCrash, WorkerCrash, PollerRests
  <1>3. CASE BackendCrash
    <2>1. ingesting' = {} /\ pollers' = pollers
      BY <1>3 DEF BackendCrash
    <2>2. DocId' = DocId
      BY <1>2 DEF DocId
    <2>3. DocTyped'
      BY <1>1, <1>2, <2>1, <2>2 DEF DocTyped
    <2>4. \A e \in DocId : \A u : DocFits(e, u) => DocFits(e, u)'
      BY <1>2, <2>1, <2>2, FitsStay
    <2>5. ASSUME NEW e \in DocId'
          PROVE  DocFits(e, docs[e])'
      <3>1. PICK u : u = docs'[e]
        OBVIOUS
      <3>2. DocFits(e, u)'
        BY <1>1, <1>2, <2>2, <2>4, <3>1
      <3> QED
        BY <3>1, <3>2 DEF DocFits, Untouched
    <2>6. \A q \in Poller : Busy(pollers[q]) => PollFits(pollers[q], docs'[pollers[q].doc])
      BY <1>1, <1>2
    <2> QED
      BY <1>2, <2>1, <2>2, <2>3, <2>5, <2>6, PollsRest
  <1>4. CASE WorkerCrash
    <2> DEFINE v == [pc |-> "idle", queue |-> {}, doc |-> 0, of |-> 0]
    <2>1. v \in PollRec /\ v.pc = "idle" /\ v.doc = 0 /\ v.of = 0 /\ v.queue = {}
      BY DEF PollRec, PollPc
    <2>2. pollers' = [q \in Poller |-> v] /\ ingesting' = ingesting
      BY <1>4 DEF WorkerCrash, PollerRests
    <2> HIDE DEF v
    <2>3. pollers' \in [Poller -> PollRec] /\ \A q \in Poller : pollers'[q] = v
      BY <2>1, <2>2
    <2> QED
      BY <1>2, <2>1, <2>2, <2>3, OthersRest DEF Busy
  <1> QED
    BY <1>3, <1>4

-----------------------------------------------------------------------------
(* Documents: the theorems *)

\* The invariant of documents and polls holds at first and through every step: of a request,
\* of a poll, of a conversion, of a deletion and of a crash.
THEOREM DocInvariant == DocSpec => []DocInv
  <1>1. DocInit => DocInv
    <2> SUFFICES ASSUME DocInit
                 PROVE  DocInv
      OBVIOUS
    <2> DEFINE v == [pc |-> "idle", queue |-> {}, doc |-> 0, of |-> 0]
    <2>1. v \in PollRec /\ v.pc = "idle" /\ v.doc = 0 /\ v.of = 0 /\ v.queue = {}
      BY DEF PollRec, PollPc
    <2>2. pollers = [p \in Poller |-> v] /\ docs = <<>> /\ ingesting = {} /\ files = {}
          /\ output = 0 /\ docFaults = 0
      BY DEF DocInit
    <2> HIDE DEF v
    <2>3. pollers \in [Poller -> PollRec] /\ \A p \in Poller : pollers[p] = v
      BY <2>1, <2>2
    <2>4. DocId = {}
      BY <2>2 DEF DocId
    <2>5. DocTyped
      BY <2>2, <2>3, <2>4, DocumentsAssumption DEF DocTyped
    <2>6. \A p \in Poller : PollFits(pollers[p], docs[pollers[p].doc])
      BY <2>1, <2>3 DEF PollFits, PollHolds, Busy
    <2>7. PollsApart
      BY <2>1, <2>3 DEF PollsApart, Busy
    <2> QED
      BY <2>4, <2>5, <2>6, <2>7 DEF DocInv
  <1>2. DocInv /\ [DocNext]_docVars => DocInv'
    <2> SUFFICES ASSUME DocInv, [DocNext]_docVars
                 PROVE  DocInv'
      OBVIOUS
    <2>1. CASE UNCHANGED docVars
      <3>1. docFaults' \in 0 .. MaxDocFaults /\ pollers' \in [Poller -> PollRec]
        BY <2>1 DEF docVars, DocInv, DocTyped
      <3> QED
        BY <2>1, <3>1, OthersRest DEF docVars
    <2>2. CASE \E direct \in BOOLEAN, t \in DocText : Ingest(direct, t)
      BY <2>2, IngestKeeps
    <2>3. CASE \E d \in DocId : Reingest(d) \/ CreateJob(d) \/ DeleteDoc(d)
      BY <2>3, ReingestKeeps, CreateJobKeeps, DeleteDocKeeps
    <2>4. CASE \E p \in Poller :
                  \/ PollStarts(p) \/ Claim(p) \/ Load(p) \/ Lost(p) \/ ReadFile(p)
                  \/ Convert(p) \/ ConvertFails(p) \/ ReadOutput(p)
                  \/ StoreChunk(p) \/ CompleteConverted(p) \/ FinishDirect(p)
                  \/ FailJobDoc(p) \/ FailJobRow(p) \/ CaughtDoc(p) \/ CaughtRow(p)
      BY <2>4, PollStartsKeeps, ClaimKeeps, LoadKeeps, LostKeeps, ReadFileKeeps,
         ConvertKeeps, ConvertFailsKeeps, ReadOutputKeeps, StoreChunkKeeps,
         CompleteConvertedKeeps, FinishDirectKeeps, FailsKeep
    <2>5. CASE BackendCrash \/ WorkerCrash
      BY <2>5, CrashesKeep
    <2> QED
      BY <2>1, <2>2, <2>3, <2>4, <2>5 DEF DocNext
  <1> QED
    BY <1>1, <1>2, PTL DEF DocSpec

\* A document that is searched as completed has every position of its text in its chunks, and
\* the text is its own unless conversions ran at once, whatever failed and whoever died.
THEOREM CompletedDocumentsAreWhole == DocSpec => []CompletedMeansWhole
  <1>1. DocInv => CompletedMeansWhole
    <2> SUFFICES ASSUME DocInv, NEW d \in DocId, docs[d].status = "completed",
                        docs[d].direct \/ docs[d].job = "completed"
                 PROVE  /\ docs[d].crossed \/ docs[d].of = d
                        /\ Positions(docs[docs[d].of].text, docs[d].chunks)
                              = 1 .. Len(docs[docs[d].of].text)
      BY DEF CompletedMeansWhole
    <2> DEFINE t == docs[docs[d].of].text
    <2>1. /\ docs[d].of \in DocId /\ (docs[d].crossed \/ docs[d].of = d)
          /\ docs[d].chunks = Len(Chunks(t))
      BY DEF DocInv, DocFits, Size
    <2>2. t \in Seq(Nat)
      <3>1. docs[docs[d].of] \in DocRec
        BY <2>1, Rows DEF DocInv
      <3> QED
        BY <3>1, DocumentsAssumption DEF DocRec
    <2>3. Positions(t, Len(Chunks(t))) = 1 .. Len(t)
      BY <2>2, ChunksCover
    <2> QED
      BY <2>1, <2>3
  <1> QED
    BY <1>1, DocInvariant, PTL

\* The documents, the polls and the files are of their types.
THEOREM DocumentsTyped == DocSpec => []DocTypeOK
  <1>1. DocInv => DocTypeOK
    <2> SUFFICES ASSUME DocInv
                 PROVE  DocTypeOK
      OBVIOUS
    <2>1. /\ DocTyped /\ \A d \in DocId : DocFits(d, docs[d])
          /\ \A p \in Poller : PollFits(pollers[p], docs[pollers[p].doc])
      BY DEF DocInv
    <2>2. /\ DocId = 1 .. Len(docs) /\ Len(docs) \in Nat /\ Len(docs) <= MaxDocs /\ MaxDocs \in Nat
          /\ \A d \in DocId : docs[d] \in DocRec
          /\ \A p \in Poller : pollers[p] \in PollRec
      BY <2>1, Rows, DocumentsAssumption DEF DocTyped
    <2>3. {0} \cup DocId \subseteq 0 .. MaxDocs
      BY <2>2
    <2>4. ASSUME NEW d \in DocId
          PROVE  /\ docs[d].status \in DocStatus /\ docs[d].job \in JobStatus
                 /\ docs[d].text \in DocText /\ docs[d].of \in 0 .. MaxDocs
                 /\ docs[d].chunks \in Nat
      <3>1. docs[d] \in DocRec /\ docs[d].of \in {0} \cup DocId
        BY <2>1, <2>2 DEF DocFits
      <3> QED
        BY <2>3, <3>1 DEF DocRec
    <2>5. ASSUME NEW p \in Poller
          PROVE  pollers[p].queue \subseteq DocId /\ pollers[p].doc \in 0 .. MaxDocs
      <3>1. /\ pollers[p].queue \subseteq DocId
            /\ pollers[p].doc \in {0} \cup DocId
        BY <2>1 DEF PollFits, PollHolds
      <3> QED
        BY <2>3, <3>1
    <2> QED
      BY <2>1, <2>2, <2>3, <2>4, <2>5 DEF DocTypeOK, DocTyped
  <1> QED
    BY <1>1, DocInvariant, PTL
=============================================================================
