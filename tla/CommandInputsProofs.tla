------------------------ MODULE CommandInputsProofs ------------------------
(***************************************************************************)
(* Proofs about CommandInputs, for any canonical records, identifiers of   *)
(* rows and bounds.                                                        *)
(*                                                                         *)
(* The argument.  What has been collected of a script is always the lines  *)
(* since its last boundary, and the statements split what is before that   *)
(* (ScriptInv); flushing extends the split to the end, whether or not the  *)
(* script goes on (FlushFacts), because TrimSpace leaves the lines from    *)
(* the first text to the last (TrimFacts).  The pairs of a bulk file that  *)
(* have been accepted are canonical, and none twice, because the comparison*)
(* with a record leaves only its own source (BulkInv, SourceFacts).  Rows  *)
(* and environments are whatever their inputs are: what is shown of them   *)
(* is shown of all.                                                        *)
(***************************************************************************)
EXTENDS CommandInputs, WellFoundedInduction, TLAPS

\* The statements hold the text of the first n lines of the script as they should.
Split(lines, n, stmts) ==
    /\ stmts \in Seq(Seq(1 .. n))
    /\ \A m \in DOMAIN stmts :
          LET s == stmts[m] IN
          /\ s # << >> /\ lines[s[1]] = "text" /\ lines[s[Len(s)]] = "text"
          /\ \A k \in DOMAIN s : s[k] = s[1] + k - 1
    /\ \A l, m \in DOMAIN stmts : l < m => stmts[l][Len(stmts[l])] < stmts[m][1]
    /\ \A i, j \in 1 .. n : lines[i] = "text" /\ lines[j] = "text" /\ i <= j =>
          ((\E m \in DOMAIN stmts : i \in Range(stmts[m]) /\ j \in Range(stmts[m]))
           <=> \A k \in i .. j : lines[k] # "boundary")

\* How many lines come before those that have been collected.
Before == Len(script) - Len(current)

\* What has been collected is the lines since the last boundary.
ScriptInv ==
    /\ script \in Seq(ScriptLines)
    /\ current \in Seq(Nat) /\ Before \in Nat
    /\ \A k \in 1 .. Len(current) : current[k] = Before + k /\ script[Before + k] # "boundary"
    /\ Before > 0 => script[Before] = "boundary"
    /\ Split(script, Before, statements)

\* What has been read of the bulk file is canonical, record by record.
BulkInv ==
    /\ pending \in Seq(Actions)
    /\ seen \in Seq(Ids) /\ IsInjective(seen)
    /\ \A id \in Range(seen) : held[id] = CanonicalSource(id)

IInv ==
    /\ ScriptInv
    /\ BulkInv
    /\ left \in Seq(Rows) /\ right \in Seq(Rows)
    /\ service \in Services /\ environment \in Environments(service)

-----------------------------------------------------------------------------

\* A set of numbers up to n that is not empty has a least and a greatest one.
LEMMA MinMaxFacts ==
    ASSUME NEW n \in Nat, NEW T \in SUBSET (1 .. n), T # {}
    PROVE  /\ Min(T) \in T /\ \A y \in T : Min(T) <= y
           /\ Max(T) \in T /\ \A y \in T : Max(T) >= y
<1>1. ASSUME NEW U \in SUBSET Nat, U # {}
      PROVE  \E x \in U : \A y \in U : x <= y
    <2>1. PICK x \in U : \A y \in U : <<y, x>> \notin OpToRel(<, Nat)
        BY <1>1, WFMin, NatLessThanWellFounded
    <2>2. \A y \in U : ~(y < x)
        BY <2>1 DEF OpToRel
    <2> QED BY <2>2
<1>2. \E x \in T : \A y \in T : x <= y
    BY <1>1
<1>3. \E x \in T : \A y \in T : x >= y
    <2> DEFINE U == {n - x : x \in T}
    <2>0. \A x \in T : x \in Int /\ 1 <= x /\ x <= n
        OBVIOUS
    <2>1. U \in SUBSET Nat /\ U # {}
        <3>1. \A x \in T : n - x \in Nat
            BY <2>0
        <3>2. PICK x \in T : TRUE
            OBVIOUS
        <3>3. n - x \in U
            OBVIOUS
        <3> QED BY <3>1, <3>3
    <2>2. PICK u \in U : \A y \in U : u <= y
        BY <1>1, <2>1
    <2>3. PICK x \in T : u = n - x
        BY <2>2
    <2>4. \A y \in T : n - x <= n - y
        BY <2>2, <2>3
    <2>5. ASSUME NEW y \in T
          PROVE  x >= y
        BY <2>0, <2>4
    <2> QED BY <2>5
<1> QED BY <1>2, <1>3 DEF Min, Max

\* The last element of a sequence is one.
LEMMA LastIn ==
    ASSUME NEW S, NEW s \in Seq(S), s # << >>
    PROVE  s[Len(s)] \in S
<1>1. Len(s) \in 1 .. Len(s)
    OBVIOUS
<1> QED BY <1>1

\* Sequence a is the part of s between two of its positions.
Part(a, s, f, g) ==
    Len(a) = g - f + 1 /\ \A k \in 1 .. Len(a) : a[k] = s[f + k - 1]

\* SubSeq takes a part.
LEMMA PartFacts ==
    ASSUME NEW s \in Seq(Nat), NEW f \in 1 .. Len(s), NEW g \in 1 .. Len(s), f <= g
    PROVE  SubSeq(s, f, g) \in Seq(Nat) /\ Part(SubSeq(s, f, g), s, f, g)
BY DEF Part

\* A sequence is one of whatever its elements are.
LEMMA SequenceOf ==
    ASSUME NEW S, NEW T, NEW s \in Seq(S), \A k \in 1 .. Len(s) : s[k] \in T
    PROVE  s \in Seq(T)
OBVIOUS

\* Sequence a is s with one element more, x, in S.
Longer(a, s, x, S) ==
    /\ a \in Seq(S) /\ Len(s) \in Nat /\ Len(a) = Len(s) + 1
    /\ DOMAIN a = 1 .. (Len(s) + 1) /\ DOMAIN s = 1 .. Len(s)
    /\ a[Len(s) + 1] = x
    /\ \A m \in 1 .. Len(s) : a[m] = s[m]
    /\ \A m \in DOMAIN a :
          \/ m \in DOMAIN s /\ a[m] = s[m]
          \/ m = Len(s) + 1 /\ a[m] = x

\* Append makes a sequence longer.
LEMMA AppendFacts ==
    ASSUME NEW S, NEW s \in Seq(S), NEW x \in S
    PROVE  Longer(Append(s, x), s, x, S)
<1> DEFINE a == Append(s, x)
           n == Len(s)
<1>1. /\ a \in Seq(S) /\ n \in Nat /\ Len(a) = n + 1
      /\ DOMAIN a = 1 .. (n + 1) /\ DOMAIN s = 1 .. n
    OBVIOUS
<1>2. a[n + 1] = x /\ \A m \in 1 .. n : a[m] = s[m]
    OBVIOUS
<1> HIDE DEF a, n
<1>3. ASSUME NEW m \in DOMAIN a
      PROVE  \/ m \in DOMAIN s /\ a[m] = s[m]
             \/ m = n + 1 /\ a[m] = x
    <2>1. m \in 1 .. (n + 1) /\ n \in Nat
        BY <1>1
    <2>2. m \in 1 .. n \/ m = n + 1
        BY <2>1
    <2> QED BY <1>1, <1>2, <2>2
<1>4. Longer(a, s, x, S)
    BY <1>1, <1>2, <1>3 DEF Longer, n
<1> QED BY <1>4 DEF a

\* What is left of the lines collected in c, which come after b others.
Trimmed(t, lines, b, c) ==
    /\ t = << >> => \A k \in 1 .. Len(c) : lines[b + k] # "text"
    /\ t # << >> =>
          \E f, g \in 1 .. Len(c) :
              /\ f <= g
              /\ t \in Seq((b + 1) .. (b + Len(c))) /\ Len(t) = g - f + 1
              /\ \A k \in 1 .. Len(t) : t[k] = b + f + k - 1
              /\ lines[b + f] = "text" /\ lines[b + g] = "text"
              /\ \A k \in 1 .. Len(c) : lines[b + k] = "text" => k \in f .. g

\* Trimming lines that stand in a row leaves those from the first text to the last.
LEMMA TrimFacts ==
    ASSUME NEW lines, NEW b \in Nat, NEW c \in Seq(Nat),
           \A k \in 1 .. Len(c) : c[k] = b + k,
           NEW t, t = TrimSpace(lines, c)
    PROVE  Trimmed(t, lines, b, c)
<1> DEFINE texts == {i \in DOMAIN c : lines[c[i]] = "text"}
<1>1. texts = {k \in 1 .. Len(c) : lines[b + k] = "text"}
    OBVIOUS
<1>2. t = IF texts = {} THEN << >> ELSE SubSeq(c, Min(texts), Max(texts))
    BY DEF TrimSpace
<1> HIDE DEF texts
<1>3. CASE texts = {}
    BY <1>1, <1>2, <1>3 DEF Trimmed
<1>4. CASE texts # {}
    <2> DEFINE f == Min(texts)
               g == Max(texts)
    <2>1. texts \in SUBSET (1 .. Len(c)) /\ Len(c) \in Nat
        BY <1>1
    <2>2. /\ f \in texts /\ \A y \in texts : f <= y
          /\ g \in texts /\ \A y \in texts : g >= y
        BY <1>4, <2>1, MinMaxFacts
    <2>3. t = SubSeq(c, f, g)
        BY <1>2, <1>4
    <2> HIDE DEF f, g
    <2>4. f \in 1 .. Len(c) /\ g \in 1 .. Len(c) /\ f <= g
        BY <2>1, <2>2
    <2>5. t \in Seq(Nat) /\ Len(t) = g - f + 1 /\ \A k \in 1 .. Len(t) : t[k] = c[f + k - 1]
        <3>1. SubSeq(c, f, g) \in Seq(Nat) /\ Part(SubSeq(c, f, g), c, f, g)
            BY <2>4, PartFacts
        <3> QED BY <2>3, <3>1 DEF Part
    <2>6. \A k \in 1 .. Len(t) : t[k] = b + f + k - 1 /\ t[k] \in (b + 1) .. (b + Len(c))
        <3>1. ASSUME NEW k \in 1 .. Len(t)
              PROVE  /\ f + k - 1 \in 1 .. Len(c)
                     /\ b + (f + k - 1) = b + f + k - 1
            BY <2>1, <2>4, <2>5
        <3>2. ASSUME NEW k \in 1 .. Len(t)
              PROVE  t[k] = b + (f + k - 1)
            BY <2>5, <3>1
        <3>3. ASSUME NEW k \in 1 .. Len(t)
              PROVE  b + (f + k - 1) \in (b + 1) .. (b + Len(c))
            BY <2>1, <3>1
        <3> QED BY <3>1, <3>2, <3>3
    <2>7. t \in Seq((b + 1) .. (b + Len(c)))
        BY <2>5, <2>6, SequenceOf
    <2>8. lines[b + f] = "text" /\ lines[b + g] = "text"
        BY <1>1, <2>2
    <2>9. \A k \in 1 .. Len(c) : lines[b + k] = "text" => k \in f .. g
        <3>1. ASSUME NEW k \in 1 .. Len(c), lines[b + k] = "text"
              PROVE  k \in f .. g
            <4>1. k \in texts
                BY <1>1, <3>1
            <4>2. f <= k /\ k <= g
                BY <2>2, <4>1
            <4> QED BY <2>4, <4>2
        <3> QED BY <3>1
    <2>10. t # << >>
        BY <2>4, <2>5
    <2> QED BY <2>4, <2>5, <2>6, <2>7, <2>8, <2>9, <2>10 DEF Trimmed
<1> QED BY <1>3, <1>4

\* Flushing the lines collected since the last boundary splits what is before
\* the end of the script as it should be.
LEMMA FlushFacts ==
    ASSUME NEW lines, NEW b \in Nat, NEW c \in Seq(Nat),
           \A k \in 1 .. Len(c) : c[k] = b + k /\ lines[b + k] # "boundary",
           b > 0 => lines[b] = "boundary",
           NEW stmts, Split(lines, b, stmts)
    PROVE  Split(lines, b + Len(c), Flush(lines, stmts, c))
<1> DEFINE t == TrimSpace(lines, c)
           n == b + Len(c)
<1>0. /\ t = TrimSpace(lines, c)
      /\ Flush(lines, stmts, c) = IF t = << >> THEN stmts ELSE Append(stmts, t)
    BY DEF Flush
<1> HIDE DEF t
<1>1. /\ stmts \in Seq(Seq(1 .. b))
      /\ \A m \in DOMAIN stmts :
            /\ stmts[m] # << >>
            /\ lines[stmts[m][1]] = "text" /\ lines[stmts[m][Len(stmts[m])]] = "text"
            /\ \A k \in DOMAIN stmts[m] : stmts[m][k] = stmts[m][1] + k - 1
      /\ \A l, m \in DOMAIN stmts : l < m => stmts[l][Len(stmts[l])] < stmts[m][1]
      /\ \A i, j \in 1 .. b : lines[i] = "text" /\ lines[j] = "text" /\ i <= j =>
            ((\E m \in DOMAIN stmts : i \in Range(stmts[m]) /\ j \in Range(stmts[m]))
             <=> \A k \in i .. j : lines[k] # "boundary")
    BY DEF Split
<1>2. /\ Len(c) \in Nat /\ n \in Nat /\ b <= n
      /\ 1 .. b \subseteq 1 .. n /\ Seq(1 .. b) \subseteq Seq(1 .. n)
    OBVIOUS
<1>3. stmts \in Seq(Seq(1 .. n)) /\ \A m \in DOMAIN stmts : stmts[m] \in Seq(1 .. b)
    BY <1>1, <1>2
<1>4. /\ t = << >> => \A k \in 1 .. Len(c) : lines[b + k] # "text"
      /\ t # << >> =>
            \E f, g \in 1 .. Len(c) :
                /\ f <= g
                /\ t \in Seq((b + 1) .. (b + Len(c))) /\ Len(t) = g - f + 1
                /\ \A k \in 1 .. Len(t) : t[k] = b + f + k - 1
                /\ lines[b + f] = "text" /\ lines[b + g] = "text"
                /\ \A k \in 1 .. Len(c) : lines[b + k] = "text" => k \in f .. g
    <2>1. \A k \in 1 .. Len(c) : c[k] = b + k
        OBVIOUS
    <2>2. Trimmed(t, lines, b, c)
        BY <1>0, <2>1, TrimFacts
    <2> QED BY <2>2 DEF Trimmed
<1>6. ASSUME NEW i \in 1 .. n, i > b
      PROVE  i - b \in 1 .. Len(c) /\ i = b + (i - b)
    BY <1>2, <1>6
<1>7. ASSUME NEW i \in 1 .. n, NEW j \in 1 .. n, i <= b, j > b, lines[i] = "text"
      PROVE  /\ \E k \in i .. j : lines[k] = "boundary"
             /\ \A m \in DOMAIN stmts : j \notin Range(stmts[m])
    <2>1. b \in i .. j /\ lines[b] = "boundary"
        BY <1>7
    <2>2. ASSUME NEW m \in DOMAIN stmts
          PROVE  j \notin Range(stmts[m])
        <3>1. stmts[m] \in Seq(1 .. b)
            BY <1>3
        <3>2. \A x \in Range(stmts[m]) : x \in 1 .. b
            BY <3>1 DEF Range
        <3> QED BY <1>7, <3>2
    <2> QED BY <2>1, <2>2
<1>8. CASE t = << >>
    <2>1. ASSUME NEW i \in 1 .. n, lines[i] = "text"
          PROVE  i \in 1 .. b
        <3>1. CASE i > b
            <4>1. i - b \in 1 .. Len(c) /\ i = b + (i - b)
                BY <1>6, <3>1
            <4>2. lines[b + (i - b)] # "text"
                BY <1>4, <1>8, <4>1
            <4> QED BY <2>1, <4>1, <4>2
        <3>2. CASE i <= b
            BY <3>2
        <3> QED BY <1>2, <3>1, <3>2
    <2>2. Split(lines, n, stmts)
        BY <1>1, <1>3, <2>1 DEF Split
    <2> QED BY <1>0, <1>8, <2>2
<1>9. CASE t # << >>
    <2> DEFINE all == Append(stmts, t)
    <2> HIDE DEF all
    <2>1. PICK f, g \in 1 .. Len(c) :
              /\ f <= g
              /\ t \in Seq((b + 1) .. (b + Len(c))) /\ Len(t) = g - f + 1
              /\ \A k \in 1 .. Len(t) : t[k] = b + f + k - 1
              /\ lines[b + f] = "text" /\ lines[b + g] = "text"
              /\ \A k \in 1 .. Len(c) : lines[b + k] = "text" => k \in f .. g
        BY <1>4, <1>9
    <2>2. /\ f \in Nat /\ g \in Nat /\ 1 \in 1 .. Len(t) /\ Len(t) \in 1 .. Len(t)
          /\ t[1] = b + f /\ t[Len(t)] = b + g
        BY <1>2, <2>1
    <2>3. \A k \in 1 .. Len(t) : t[k] = t[1] + k - 1
        BY <2>1, <2>2
    <2>4. ASSUME NEW x \in Range(t)
          PROVE  x \in (b + f) .. (b + g)
        <3>1. PICK k \in 1 .. Len(t) : x = t[k]
            BY <2>1 DEF Range
        <3>2. x = b + f + k - 1
            BY <2>1, <3>1
        <3>3. k \in 1 .. (g - f + 1)
            BY <2>1
        <3> QED BY <1>2, <2>2, <3>2, <3>3
    <2>5. \A x \in (b + f) .. (b + g) : x \in Range(t)
        <3> SUFFICES ASSUME NEW x \in (b + f) .. (b + g)
                     PROVE  x \in Range(t)
            OBVIOUS
        <3>1. x - b - f + 1 \in 1 .. Len(t)
            BY <1>2, <2>1, <2>2
        <3>2. t[x - b - f + 1] = x
            <4>1. t[x - b - f + 1] = b + f + (x - b - f + 1) - 1
                BY <2>1, <3>1
            <4>2. x \in Int /\ b \in Int /\ f \in Int
                BY <1>2, <2>2
            <4> QED BY <4>1, <4>2
        <3>3. DOMAIN t = 1 .. Len(t)
            BY <2>1
        <3> QED BY <3>1, <3>2, <3>3 DEF Range
    <2>6. t \in Seq(1 .. n)
        <3>1. (b + 1) .. (b + Len(c)) \subseteq 1 .. n
            BY <1>2
        <3> QED BY <2>1, <3>1
    <2>7. /\ all \in Seq(Seq(1 .. n)) /\ Len(stmts) \in Nat /\ Len(all) = Len(stmts) + 1
          /\ DOMAIN all = 1 .. (Len(stmts) + 1) /\ DOMAIN stmts = 1 .. Len(stmts)
          /\ all[Len(stmts) + 1] = t
          /\ \A m \in 1 .. Len(stmts) : all[m] = stmts[m]
          /\ \A m \in DOMAIN all :
                \/ m \in DOMAIN stmts /\ all[m] = stmts[m]
                \/ m = Len(stmts) + 1 /\ all[m] = t
        <3> DEFINE T == Seq(1 .. n)
        <3>1. stmts \in Seq(T) /\ t \in T
            BY <1>3, <2>6
        <3> HIDE DEF T
        <3>2. Longer(Append(stmts, t), stmts, t, T)
            BY <3>1, AppendFacts
        <3> QED BY <3>2 DEF Longer, T, all
    <2>8. ASSUME NEW m \in DOMAIN all
          PROVE  \/ m \in DOMAIN stmts /\ all[m] = stmts[m]
                 \/ m = Len(stmts) + 1 /\ all[m] = t
        BY <2>7, Zenon
    <2>9. ASSUME NEW m \in DOMAIN all
          PROVE  /\ all[m] # << >>
                 /\ lines[all[m][1]] = "text" /\ lines[all[m][Len(all[m])]] = "text"
                 /\ \A k \in DOMAIN all[m] : all[m][k] = all[m][1] + k - 1
        <3>1. DOMAIN t = 1 .. Len(t)
            BY <2>1
        <3>2. CASE m \in DOMAIN stmts /\ all[m] = stmts[m]
            BY <1>1, <3>2
        <3>3. CASE all[m] = t
            BY <1>9, <2>1, <2>2, <2>3, <3>1, <3>3
        <3> QED BY <2>8, <3>2, <3>3
    <2>10. ASSUME NEW l \in DOMAIN all, NEW m \in DOMAIN all, l < m
           PROVE  all[l][Len(all[l])] < all[m][1]
        <3>1. l \in DOMAIN stmts /\ all[l] = stmts[l]
            <4>1. l \in 1 .. Len(stmts)
                <5>1. \A k \in DOMAIN all : k \in 1 .. (Len(stmts) + 1)
                    BY <2>7
                <5>2. l \in 1 .. (Len(stmts) + 1) /\ m \in 1 .. (Len(stmts) + 1)
                    BY <5>1
                <5> QED BY <2>7, <2>10, <5>2
            <4> QED BY <2>7, <4>1
        <3>2. stmts[l][Len(stmts[l])] \in 1 .. b
            <4>1. stmts[l] \in Seq(1 .. b) /\ stmts[l] # << >>
                BY <1>1, <1>3, <3>1
            <4> QED BY <4>1, LastIn
        <3>3. CASE m \in DOMAIN stmts /\ all[m] = stmts[m]
            BY <1>1, <2>10, <3>1, <3>3
        <3>4. CASE all[m] = t
            <4>1. all[l][Len(all[l])] \in 1 .. b
                BY <3>1, <3>2
            <4>2. all[m][1] = b + f /\ f >= 1 /\ f \in Nat
                BY <2>2, <3>4
            <4> QED BY <4>1, <4>2
        <3> QED BY <2>8, <3>3, <3>4
    <2>11. ASSUME NEW i \in 1 .. n, NEW j \in 1 .. n,
                  lines[i] = "text", lines[j] = "text", i <= j
           PROVE  (\E m \in DOMAIN all : i \in Range(all[m]) /\ j \in Range(all[m]))
                  <=> \A k \in i .. j : lines[k] # "boundary"
        <3>1. (\E m \in DOMAIN all : i \in Range(all[m]) /\ j \in Range(all[m]))
              <=> \/ \E m \in DOMAIN stmts : i \in Range(stmts[m]) /\ j \in Range(stmts[m])
                  \/ i \in Range(t) /\ j \in Range(t)
            <4>1. Len(stmts) + 1 \in DOMAIN all /\ all[Len(stmts) + 1] = t
                BY <2>7
            <4>2. ASSUME NEW m \in DOMAIN stmts
                  PROVE  m \in DOMAIN all /\ all[m] = stmts[m]
                <5>1. Len(stmts) \in Nat /\ m \in 1 .. Len(stmts)
                    BY <2>7
                <5>2. m \in 1 .. (Len(stmts) + 1)
                    BY <5>1
                <5>3. all[m] = stmts[m]
                    BY <2>7, <5>1
                <5>4. m \in DOMAIN all
                    BY <2>7, <5>2
                <5> QED BY <5>3, <5>4
            <4> QED BY <2>8, <4>1, <4>2
        <3>2. CASE j <= b
            <4>1. i \in 1 .. b /\ j \in 1 .. b
                BY <2>11, <3>2
            <4>2. i \notin Range(t)
                BY <1>2, <2>2, <2>4, <4>1
            <4> QED BY <1>1, <2>11, <3>1, <4>1, <4>2
        <3>3. CASE i <= b /\ j > b
            <4>1. i \notin Range(t)
                BY <1>2, <2>2, <2>4, <3>3
            <4> QED BY <1>7, <2>11, <3>1, <3>3, <4>1
        <3>4. CASE i > b
            <4>1. j > b
                BY <2>11, <3>4
            <4>2. i - b \in f .. g /\ j - b \in f .. g
                BY <1>6, <2>1, <2>11, <3>4, <4>1
            <4>3. i \in Range(t) /\ j \in Range(t)
                BY <1>2, <2>2, <2>5, <4>2
            <4>4. ASSUME NEW k \in i .. j
                  PROVE  lines[k] # "boundary"
                <5>1. k \in 1 .. n /\ k > b
                    BY <2>11, <3>4
                <5> QED BY <1>6, <5>1
            <4> QED BY <3>1, <4>3, <4>4
        <3> QED BY <3>2, <3>3, <3>4
    <2>12. Split(lines, n, all)
        BY <2>7, <2>9, <2>10, <2>11 DEF Split
    <2> QED BY <1>0, <1>9, <2>12 DEF all
<1> QED BY <1>8, <1>9

\* One turn of the loop keeps what has been collected apart from what is split.
LEMMA ScriptStep ==
    ASSUME ScriptInv, NEW line \in ScriptLines, ReadScriptLine(line)
    PROVE  ScriptInv'
<1>1. /\ script \in Seq(ScriptLines) /\ current \in Seq(Nat) /\ Before \in Nat
      /\ \A k \in 1 .. Len(current) : current[k] = Before + k /\ script[Before + k] # "boundary"
      /\ Before > 0 => script[Before] = "boundary"
      /\ Split(script, Before, statements)
      /\ Before = Len(script) - Len(current)
    BY DEF ScriptInv, Before
<1>2. script' = Append(script, line)
    BY DEF ReadScriptLine
<1>3. /\ script' \in Seq(ScriptLines) /\ Len(script') = Len(script) + 1
      /\ Len(script) \in Nat /\ Len(current) \in Nat
      /\ \A k \in 1 .. Len(script) : script'[k] = script[k]
      /\ script'[Len(script) + 1] = line
    BY <1>1, <1>2
<1>4. ASSUME NEW n \in 0 .. Len(script), NEW stmts, Split(script, n, stmts)
      PROVE  Split(script', n, stmts)
    <2>1. \A k \in 1 .. n : script'[k] = script[k]
        BY <1>3
    <2>2. /\ stmts \in Seq(Seq(1 .. n))
          /\ \A m \in DOMAIN stmts : stmts[m] # << >>
        BY <1>4 DEF Split
    <2>3. ASSUME NEW m \in DOMAIN stmts
          PROVE  stmts[m][1] \in 1 .. n /\ stmts[m][Len(stmts[m])] \in 1 .. n
        <3>1. stmts[m] \in Seq(1 .. n) /\ stmts[m] # << >>
            BY <2>2
        <3> QED BY <3>1
    <2>4. ASSUME NEW i \in 1 .. n, NEW j \in 1 .. n
          PROVE  \A k \in i .. j : script'[k] = script[k]
        BY <1>3, <2>1
    <2>5. \A m \in DOMAIN stmts :
              LET s == stmts[m] IN
              /\ s # << >> /\ script'[s[1]] = "text" /\ script'[s[Len(s)]] = "text"
              /\ \A k \in DOMAIN s : s[k] = s[1] + k - 1
        <3>1. \A m \in DOMAIN stmts :
                  LET s == stmts[m] IN
                  /\ s # << >> /\ script[s[1]] = "text" /\ script[s[Len(s)]] = "text"
                  /\ \A k \in DOMAIN s : s[k] = s[1] + k - 1
            BY <1>4 DEF Split
        <3> QED BY <2>1, <2>3, <3>1
    <2>6. \A i, j \in 1 .. n : script'[i] = "text" /\ script'[j] = "text" /\ i <= j =>
              ((\E m \in DOMAIN stmts : i \in Range(stmts[m]) /\ j \in Range(stmts[m]))
               <=> \A k \in i .. j : script'[k] # "boundary")
        <3>1. \A i, j \in 1 .. n : script[i] = "text" /\ script[j] = "text" /\ i <= j =>
                  ((\E m \in DOMAIN stmts : i \in Range(stmts[m]) /\ j \in Range(stmts[m]))
                   <=> \A k \in i .. j : script[k] # "boundary")
            BY <1>4 DEF Split
        <3>2. ASSUME NEW i \in 1 .. n, NEW j \in 1 .. n
              PROVE  (\A k \in i .. j : script'[k] # "boundary")
                     <=> \A k \in i .. j : script[k] # "boundary"
            BY <2>4
        <3>3. \A i \in 1 .. n : script'[i] = "text" <=> script[i] = "text"
            BY <2>1
        <3> QED BY <3>1, <3>2, <3>3
    <2> QED BY <1>4, <2>5, <2>6 DEF Split
<1>5. CASE line = "boundary"
    <2>1. current' = << >> /\ statements' = Flush(script, statements, current)
        BY <1>5 DEF ReadScriptLine
    <2>2. Split(script, Len(script), statements')
        <3>1. Before + Len(current) = Len(script)
            BY <1>1, <1>3
        <3>2. Split(script, Before + Len(current), statements')
            BY <1>1, <2>1, FlushFacts
        <3> QED BY <3>1, <3>2
    <2>3. Split(script', Len(script), statements')
        BY <1>3, <1>4, <2>2
    <2>4. Before' = Len(script) + 1 /\ Len(current') = 0
        BY <1>3, <2>1 DEF Before
    <2>5. Split(script', Len(script) + 1, statements')
        <3>1. \A i \in 1 .. (Len(script) + 1) : script'[i] = "text" => i \in 1 .. Len(script)
            BY <1>3, <1>5
        <3>2. /\ statements' \in Seq(Seq(1 .. Len(script)))
              /\ Seq(1 .. Len(script)) \subseteq Seq(1 .. (Len(script) + 1))
            BY <1>3, <2>3 DEF Split
        <3>3. statements' \in Seq(Seq(1 .. (Len(script) + 1)))
            BY <3>2
        <3> QED BY <2>3, <3>1, <3>3 DEF Split
    <2> QED BY <1>3, <1>5, <2>1, <2>4, <2>5 DEF ScriptInv
<1>6. CASE line # "boundary"
    <2>1. current' = Append(current, Len(script) + 1) /\ statements' = statements
        BY <1>6 DEF ReadScriptLine
    <2>2. /\ current' \in Seq(Nat) /\ Len(current') = Len(current) + 1
          /\ \A k \in 1 .. Len(current) : current'[k] = current[k]
          /\ current'[Len(current) + 1] = Len(script) + 1
        BY <1>1, <1>3, <2>1
    <2>3. Before' = Before
        BY <1>1, <1>3, <2>2 DEF Before
    <2>4. ASSUME NEW k \in 1 .. Len(current')
          PROVE  current'[k] = Before + k /\ script'[Before + k] # "boundary"
        <3>1. CASE k \in 1 .. Len(current)
            <4>1. Before + k \in 1 .. Len(script)
                BY <1>1, <1>3, <3>1
            <4> QED BY <1>1, <1>3, <2>2, <3>1, <4>1
        <3>2. CASE k = Len(current) + 1
            <4>1. Before + k = Len(script) + 1
                BY <1>1, <1>3, <3>2
            <4> QED BY <1>3, <1>6, <2>2, <3>2, <4>1
        <3> QED BY <1>3, <2>2, <3>1, <3>2
    <2>5. Before > 0 => script'[Before] = "boundary"
        <3>1. Before > 0 => Before \in 1 .. Len(script)
            BY <1>1, <1>3
        <3> QED BY <1>1, <1>3, <3>1
    <2>6. Split(script', Before, statements')
        <3>1. Before \in 0 .. Len(script)
            BY <1>1, <1>3
        <3> QED BY <1>1, <1>4, <2>1, <3>1
    <2> QED BY <1>1, <1>3, <2>2, <2>3, <2>4, <2>5, <2>6 DEF ScriptInv
<1> QED BY <1>5, <1>6

\* What the reader would return if the script ended here.
LEMMA ScriptSplit ==
    ASSUME ScriptInv
    PROVE  ScriptKept
<1>1. Split(script, Len(script), Statements)
    <2>1. /\ Before \in Nat /\ current \in Seq(Nat) /\ script \in Seq(ScriptLines)
          /\ \A k \in 1 .. Len(current) : current[k] = Before + k /\ script[Before + k] # "boundary"
          /\ Before > 0 => script[Before] = "boundary"
          /\ Split(script, Before, statements)
        BY DEF ScriptInv
    <2>2. Before + Len(current) = Len(script)
        BY <2>1 DEF Before
    <2>3. Split(script, Before + Len(current), Statements)
        BY <2>1, FlushFacts DEF Statements
    <2> QED BY <2>2, <2>3
<1>2. DOMAIN script = 1 .. Len(script)
    BY DEF ScriptInv
<1> DEFINE all == Statements
<1> HIDE DEF all
<1>3. /\ \A m \in DOMAIN all :
            LET s == all[m] IN
            /\ s # << >> /\ script[s[1]] = "text" /\ script[s[Len(s)]] = "text"
            /\ \A k \in DOMAIN s : s[k] = s[1] + k - 1
      /\ \A l, m \in DOMAIN all : l < m => all[l][Len(all[l])] < all[m][1]
    BY <1>1 DEF Split, all
<1>4. ASSUME NEW i \in 1 .. Len(script), NEW j \in 1 .. Len(script),
             script[i] = "text", script[j] = "text", i <= j
      PROVE  (\E m \in DOMAIN all : {i, j} \subseteq Range(all[m]))
             <=> \A k \in i .. j : script[k] # "boundary"
    <2>1. (\E m \in DOMAIN all : i \in Range(all[m]) /\ j \in Range(all[m]))
          <=> \A k \in i .. j : script[k] # "boundary"
        BY <1>1, <1>4 DEF Split, all
    <2> QED BY <2>1
<1> QED BY <1>2, <1>3, <1>4 DEF ScriptKept, TextAt, all

-----------------------------------------------------------------------------

\* The comparison with the canonical record leaves one source only.
LEMMA SourceFacts ==
    ASSUME NEW id \in Ids, NEW source \in Sources, CompareSource(id, source)
    PROVE  source = CanonicalSource(id)
<1>1. Canonical[id].number \in States /\ Canonical[id].text \in States
    BY CanonicalAssumption
<1>2. source = [of |-> source.of, number |-> source.number, text |-> source.text,
                marker |-> source.marker]
    BY DEF Sources
<1>3. source.marker \in States
    BY DEF Sources
<1>4. source.of = id /\ source.number = Canonical[id].number
    BY <1>1 DEF CompareSource, CompareNullableRaw, Present, NilPointer, States
<1>5. source.text = Canonical[id].text /\ source.marker = Canonical[id].text
    BY <1>1, <1>3 DEF CompareSource, CompareNullableRaw, Present, NilPointer, States
<1> QED BY <1>2, <1>4, <1>5 DEF CanonicalSource

\* A pair is accepted as the record it is, or refuses the file.
LEMMA BulkStep ==
    ASSUME BulkInv,
           \/ \E action \in Actions : ReadAction(action)
           \/ \E source \in Sources : ReadSource(source)
           \/ ReadJunk
    PROVE  BulkInv'
<1>1. CASE \E action \in Actions : ReadAction(action)
    <2>1. PICK action \in Actions : ReadAction(action)
        BY <1>1
    <2>2. pending' = <<action>> /\ seen' = seen /\ held' = held
        BY <2>1 DEF ReadAction
    <2>3. pending' \in Seq(Actions)
        BY <2>2
    <2> QED BY <2>2, <2>3 DEF BulkInv
<1>2. CASE \E source \in Sources : ReadSource(source)
    <2>1. PICK source \in Sources : ReadSource(source)
        BY <1>2
    <2>2. pending' = << >> /\ pending' \in Seq(Actions)
        BY <2>1 DEF ReadSource
    <2>3. CASE ~Acceptable(pending[1], source)
        BY <2>1, <2>2, <2>3 DEF ReadSource, BulkInv
    <2>4. CASE Acceptable(pending[1], source)
        <3> DEFINE id == pending[1].id
        <3>1. /\ seen' = Append(seen, id)
              /\ held' = [i \in Range(seen') |-> IF i = id THEN source ELSE held[i]]
            BY <2>1, <2>4 DEF ReadSource
        <3>2. id \in Ids /\ id \notin Range(seen) /\ source = CanonicalSource(id)
            BY <2>4, SourceFacts DEF Acceptable
        <3> HIDE DEF id
        <3>3. /\ seen \in Seq(Ids) /\ \A i, j \in 1 .. Len(seen) : seen[i] = seen[j] => i = j
              /\ \A i \in Range(seen) : held[i] = CanonicalSource(i)
            BY DEF BulkInv, IsInjective
        <3>4. /\ seen' \in Seq(Ids) /\ Len(seen') = Len(seen) + 1 /\ Len(seen) \in Nat
              /\ seen'[Len(seen) + 1] = id
              /\ \A i \in 1 .. Len(seen) : seen'[i] = seen[i] /\ seen[i] # id
            BY <3>1, <3>2, <3>3 DEF Range
        <3>5. \A i, j \in 1 .. (Len(seen) + 1) : seen'[i] = seen'[j] => i = j
            <4>1. \A i \in 1 .. (Len(seen) + 1) : i \in 1 .. Len(seen) \/ i = Len(seen) + 1
                BY <3>4
            <4> QED BY <3>3, <3>4, <4>1
        <3>6. IsInjective(seen')
            BY <3>4, <3>5 DEF IsInjective
        <3>7. Range(seen') = Range(seen) \union {id}
            <4>1. \A x \in Range(seen') : x \in Range(seen) \union {id}
                <5>1. \A i \in 1 .. (Len(seen) + 1) : i \in 1 .. Len(seen) \/ i = Len(seen) + 1
                    BY <3>4
                <5> QED BY <3>3, <3>4, <5>1 DEF Range
            <4>2. \A x \in Range(seen) \union {id} : x \in Range(seen')
                BY <3>3, <3>4 DEF Range
            <4> QED BY <4>1, <4>2
        <3>8. \A i \in Range(seen') : held'[i] = CanonicalSource(i)
            BY <3>1, <3>2, <3>3, <3>7
        <3> QED BY <2>2, <3>4, <3>6, <3>8 DEF BulkInv
    <2> QED BY <2>3, <2>4
<1>3. CASE ReadJunk
    BY <1>3 DEF ReadJunk, BulkInv
<1> QED BY <1>1, <1>2, <1>3

\* The configuration's environment stays one of the service's.
LEMMA EnvironmentStep ==
    ASSUME service \in Services, environment \in Environments(service),
           \/ \E s \in Services, text \in Texts \ {""} :
                 \E name \in Names(s) : SetName(name, text)
           \/ \E text \in PortTexts \ {""} : SetPort(text)
    PROVE  service' \in Services /\ environment' \in Environments(service')
<1>1. ASSUME NEW text \in Texts, NEW name, SetName(name, text)
      PROVE  service' \in Services /\ environment' \in Environments(service')
    <2>1. /\ service' = service /\ name \in Names(service)
          /\ environment' = [environment EXCEPT !.names[name] = text]
        BY <1>1 DEF SetName
    <2>2. environment.names \in [Names(service) -> Texts] /\ environment.port \in PortTexts
        BY DEF Environments
    <2>3. [environment.names EXCEPT ![name] = text] \in [Names(service) -> Texts]
        BY <2>1, <2>2
    <2> QED BY <2>1, <2>2, <2>3 DEF Environments
<1>2. ASSUME NEW text \in PortTexts, SetPort(text)
      PROVE  service' \in Services /\ environment' \in Environments(service')
    BY <1>2 DEF SetPort, Environments
<1> QED BY <1>1, <1>2

\* Each subject's part of the state is as its reader has left it.
THEOREM InvariantHolds == Spec => []IInv
<1>1. Init => IInv
    <2> SUFFICES ASSUME Init
                 PROVE  IInv
        OBVIOUS
    <2>1. ScriptInv
        BY DEF Init, ScriptInv, Before, Split
    <2>2. BulkInv
        BY DEF Init, BulkInv, IsInjective, Range
    <2>3. service \in Services
        BY DEF Init, Services
    <2>4. environment \in Environments(service)
        BY DEF Init, Unset, Environments, Texts, PortTexts
    <2> QED BY <2>1, <2>2, <2>3, <2>4 DEF Init, IInv
<1>2. IInv /\ [Next]_vars => IInv'
    <2> SUFFICES ASSUME IInv, [Next]_vars
                 PROVE  IInv'
        OBVIOUS
    <2>1. ASSUME NEW line \in ScriptLines, ReadScriptLine(line)
          PROVE  IInv'
        <3>1. ScriptInv'
            BY <2>1, ScriptStep DEF IInv
        <3> QED BY <2>1, <3>1 DEF ReadScriptLine, IInv, BulkInv, bulkVars, rowVars, configVars
    <2>2. CASE \/ \E action \in Actions : ReadAction(action)
               \/ \E source \in Sources : ReadSource(source)
               \/ ReadJunk
        <3>1. BulkInv'
            BY <2>2, BulkStep DEF IInv
        <3>2. UNCHANGED <<scriptVars, rowVars, configVars>>
            BY <2>2 DEF ReadAction, ReadSource, ReadJunk
        <3> QED BY <3>1, <3>2
                DEF IInv, ScriptInv, Before, scriptVars, rowVars, configVars
    <2>3. ASSUME NEW row \in Rows, AddRow(row)
          PROVE  IInv'
        <3>1. left' \in Seq(Rows) /\ right' \in Seq(Rows)
            <4>1. \A s \in Seq(Rows) : Append(s, row) \in Seq(Rows)
                OBVIOUS
            <4>2. left \in Seq(Rows) /\ right \in Seq(Rows)
                BY DEF IInv
            <4>3. \/ left' = Append(left, row) /\ right' = right
                  \/ right' = Append(right, row) /\ left' = left
                BY <2>3 DEF AddRow
            <4> QED BY <4>1, <4>2, <4>3
        <3> QED BY <2>3, <3>1
                DEF AddRow, IInv, ScriptInv, Before, BulkInv, scriptVars, bulkVars, configVars
    <2>4. CASE \/ \E s \in Services, text \in Texts \ {""} :
                     \E name \in Names(s) : SetName(name, text)
               \/ \E text \in PortTexts \ {""} : SetPort(text)
        <3>1. service' \in Services /\ environment' \in Environments(service')
            BY <2>4, EnvironmentStep DEF IInv
        <3>2. UNCHANGED <<scriptVars, bulkVars, rowVars>>
            BY <2>4 DEF SetName, SetPort
        <3> QED BY <3>1, <3>2
                DEF IInv, ScriptInv, Before, BulkInv, scriptVars, bulkVars, rowVars
    <2>5. CASE UNCHANGED vars
        BY <2>5 DEF vars, IInv, ScriptInv, Before, BulkInv, scriptVars, bulkVars, rowVars, configVars
    <2> QED BY <2>1, <2>2, <2>3, <2>4, <2>5 DEF Next
<1> QED BY <1>1, <1>2, PTL DEF Spec

-----------------------------------------------------------------------------

\* splitSQLStatements (internal/testenv/sql.go) loses nothing, and separates exactly
\* what boundaries separate, in scripts of any length.
THEOREM ScriptKeptHolds == Spec => []ScriptKept
<1>1. IInv => ScriptKept
    BY ScriptSplit DEF IInv
<1> QED BY <1>1, InvariantHolds, PTL

\* ValidateElasticsearchBulk (internal/fixture/elasticsearch.go) accepts exactly the
\* files that hold every canonical record once, for any canonical records.
THEOREM BulkFaithfulHolds == Spec => []BulkFaithful
<1>1. IInv => BulkFaithful
    BY CanonicalAssumption DEF IInv, BulkInv, BulkFaithful, BulkAccepted, CompareIDs
<1> QED BY <1>1, InvariantHolds, PTL

\* After an accepted bulk file, every backend holds the nullable fields in the
\* states that its harness declares (internal/fixture and internal/demoharness).
THEOREM StatesKeptHolds == Spec => []StatesKept
<1>1. ASSUME IInv, BulkAccepted
      PROVE  /\ \A backend \in DistinguishesMissing, id \in Ids :
                   HeldText(backend, id) = Canonical[id].text
             /\ \A backend \in {"ldap", "sql"}, i, j \in Ids :
                   (HeldText(backend, i) = HeldText(backend, j))
                   <=> ((Canonical[i].text = "value") <=> (Canonical[j].text = "value"))
    <2>1. \A id \in Ids : Canonical[id].text \in States /\ held[id].text = Canonical[id].text
        <3>1. \A id \in Ids : held[id] = CanonicalSource(id)
            BY <1>1 DEF IInv, BulkInv, BulkAccepted, CompareIDs
        <3>2. \A id \in Ids : Canonical[id].text \in States
            BY CanonicalAssumption
        <3>3. \A id \in Ids : CanonicalSource(id).text = Canonical[id].text
            BY DEF CanonicalSource
        <3> QED BY <3>1, <3>2, <3>3
    <2>2. ASSUME NEW id \in Ids
          PROVE  /\ HeldText("memory", id) = Canonical[id].text
                 /\ HeldText("mongo", id) = Canonical[id].text
                 /\ HeldText("elasticsearch", id) = Canonical[id].text
                 /\ HeldText("ldap", id) = IF Canonical[id].text = "value" THEN "value" ELSE "missing"
                 /\ HeldText("sql", id) = IF Canonical[id].text = "value" THEN "value" ELSE "null"
        BY <2>1 DEF HeldText, MemoryState, MongoState, LDAPState, SQLState, Present, NilPointer, States
    <2> QED BY <2>2 DEF DistinguishesMissing
<1>2. IInv => StatesKept
    BY <1>1 DEF StatesKept
<1> QED BY <1>2, InvariantHolds, PTL

\* CompareSQLRecords (internal/fixture/record.go) tells apart any two lists of rows
\* that are not the same set of rows, each with an identifier of its own.
THEOREM RecordsAgreeHolds == Spec => []RecordsAgree
<1>1. ASSUME NEW l \in Seq(Rows), NEW r \in Seq(Rows)
      PROVE  CompareSQLRecords(l, r) <=>
                 /\ IsInjective(IDs(l)) /\ IsInjective(IDs(r))
                 /\ Range(l) = Range(r)
                 /\ Blank \notin Range(IDs(l))
    <2>1. ASSUME NEW s \in Seq(Rows)
          PROVE  /\ Range(IDs(s)) = {row.id : row \in Range(s)}
                 /\ IsInjective(IDs(s)) => \A p, q \in Range(s) : p.id = q.id => p = q
                 /\ \A p \in Range(s) : p = [id |-> p.id, columns |-> p.columns]
        <3>1. /\ DOMAIN IDs(s) = DOMAIN s
              /\ \A i \in DOMAIN s : IDs(s)[i] = s[i].id /\ s[i] \in Rows
            BY DEF IDs
        <3>2. Range(IDs(s)) = {row.id : row \in Range(s)}
            BY <3>1 DEF Range
        <3>3. ASSUME IsInjective(IDs(s)), NEW p \in Range(s), NEW q \in Range(s), p.id = q.id
              PROVE  p = q
            <4>1. PICK i \in DOMAIN s, j \in DOMAIN s : p = s[i] /\ q = s[j]
                BY DEF Range
            <4>2. IDs(s)[i] = IDs(s)[j]
                BY <3>1, <3>3, <4>1
            <4> QED BY <3>1, <3>3, <4>1, <4>2 DEF IsInjective
        <3>4. \A p \in Range(s) : p \in Rows
            BY <3>1 DEF Range
        <3>5. \A p \in Rows : p = [id |-> p.id, columns |-> p.columns]
            BY DEF Rows
        <3> QED BY <3>2, <3>3, <3>4, <3>5
    <2>2. ASSUME IsInjective(IDs(r)), NEW row \in Range(l), row.id \in Range(IDs(r))
          PROVE  Other(row, r) \in Range(r) /\ Other(row, r).id = row.id
        BY <2>1, <2>2 DEF Other
    <2>3. ASSUME CompareSQLRecords(l, r)
          PROVE  /\ IsInjective(IDs(l)) /\ IsInjective(IDs(r))
                 /\ Range(l) = Range(r)
                 /\ Blank \notin Range(IDs(l))
        <3>1. /\ IsInjective(IDs(l)) /\ IsInjective(IDs(r))
              /\ Blank \notin Range(IDs(l)) /\ Range(IDs(l)) = Range(IDs(r))
              /\ \A row \in Range(l) : row.columns = Other(row, r).columns
            BY <2>3 DEF CompareSQLRecords, CompareIDs
        <3>2. ASSUME NEW row \in Range(l)
              PROVE  row \in Range(r) /\ row = Other(row, r)
            <4>1. row.id \in Range(IDs(r))
                BY <2>1, <3>1
            <4>2. Other(row, r) \in Range(r) /\ Other(row, r).id = row.id
                BY <2>2, <3>1, <4>1
            <4>3. row = Other(row, r)
                BY <2>1, <3>1, <4>2
            <4> QED BY <4>2, <4>3
        <3>3. ASSUME NEW row \in Range(r)
              PROVE  row \in Range(l)
            <4>1. PICK p \in Range(l) : p.id = row.id
                <5>1. row.id \in Range(IDs(r))
                    BY <2>1
                <5>2. row.id \in {p.id : p \in Range(l)}
                    BY <2>1, <3>1, <5>1
                <5> QED BY <5>2
            <4> QED BY <2>1, <3>1, <3>2, <4>1
        <3> QED BY <3>1, <3>2, <3>3
    <2>4. ASSUME IsInjective(IDs(l)), IsInjective(IDs(r)), Range(l) = Range(r),
                 Blank \notin Range(IDs(l))
          PROVE  CompareSQLRecords(l, r)
        <3>1. Range(IDs(l)) = Range(IDs(r))
            BY <2>1, <2>4
        <3>2. ASSUME NEW row \in Range(l)
              PROVE  row.columns = Other(row, r).columns
            <4>1. row \in Range(r) /\ row.id \in Range(IDs(r))
                BY <2>1, <2>4
            <4> QED BY <2>1, <2>2, <2>4, <4>1
        <3> QED BY <2>4, <3>1, <3>2 DEF CompareSQLRecords, CompareIDs
    <2> QED BY <2>3, <2>4
<1>2. IInv => RecordsAgree
    BY <1>1 DEF IInv, RecordsAgree
<1> QED BY <1>2, InvariantHolds, PTL

\* The ports that environmentPort reads from the texts.
LEMMA PortFacts ==
    ASSUME NEW text \in PortTexts
    PROVE  /\ text = "" => EnvironmentPort(text) = {DefaultPort}
           /\ text \in {"1", "65535"} =>
                 EnvironmentPort(text) = {Numeral[text]} /\ Numeral[text] # 0
           /\ text \in {"port", "0", "65536", "65537"} => EnvironmentPort(text) = {}
           /\ text \in {"", "1", "65535", "port", "0", "65536", "65537"}
<1>1. DOMAIN Numeral = {"0", "1", "65535", "65536", "65537"}
    BY DEF Numeral
<1>2. /\ Numeral["0"] = 0 /\ Numeral["1"] = 1 /\ Numeral["65535"] = 65535
      /\ Numeral["65536"] = 65536 /\ Numeral["65537"] = 65537
    BY DEF Numeral
<1>3. text \in {"", "1", "65535", "port", "0", "65536", "65537"}
    BY <1>1 DEF PortTexts
<1>4. CASE text = ""
    BY <1>4 DEF EnvironmentPort
<1>5. CASE text = "1" \/ text = "65535"
    <2>1. text \in DOMAIN Numeral /\ text # ""
        BY <1>1, <1>5
    <2>2. Numeral[text] = 1 \/ Numeral[text] = 65535
        BY <1>2, <1>5
    <2>3. \A k : k = 1 \/ k = 65535 => k < 65536 /\ k % 65536 = k /\ k # 0
        OBVIOUS
    <2>4. Numeral[text] < Limit /\ Numeral[text] % Limit = Numeral[text] /\ Numeral[text] # 0
        BY <2>2, <2>3 DEF Limit
    <2>5. ParseUint(text) = {Numeral[text]}
        BY <2>1, <2>4 DEF ParseUint
    <2> QED BY <1>5, <2>1, <2>4, <2>5 DEF EnvironmentPort
<1>6. CASE text \in {"port", "0", "65536", "65537"}
    <2>1. CASE text = "port"
        <3>1. text \notin DOMAIN Numeral
            BY <1>1, <2>1
        <3>2. ParseUint(text) = {}
            BY <3>1 DEF ParseUint
        <3> QED BY <2>1, <3>2 DEF EnvironmentPort
    <2>2. CASE text = "0"
        <3>1. ParseUint(text) \subseteq {0}
            BY <1>2, <2>2 DEF ParseUint
        <3> QED BY <2>2, <3>1 DEF EnvironmentPort
    <2>3. CASE text = "65536" \/ text = "65537"
        <3>1. ~(Numeral[text] < Limit)
            BY <1>2, <2>3 DEF Limit
        <3>2. ParseUint(text) = {}
            BY <3>1 DEF ParseUint
        <3> QED BY <2>3, <3>2 DEF EnvironmentPort
    <2> QED BY <1>6, <2>1, <2>2, <2>3
<1> QED BY <1>3, <1>4, <1>5, <1>6

\* The Load functions (internal/testenv) obey every environment of every service,
\* or refuse it for the reasons stated.
THEOREM EnvironmentObeyedHolds == Spec => []EnvironmentObeyed
<1>1. ASSUME NEW s \in Services, NEW env \in Environments(s)
      PROVE  Obeyed(s, env)
    <2> DEFINE text(name) == env.names[name]
               names == [name \in Names(s) |-> Field(env, name)]
               config(port) == [names |-> names, port |-> port]
               Refused == \/ \E name \in Names(s) : text(name) = "  "
                          \/ s = "ldap" /\ text("BASE_DN") \notin {"", "default"}
                          \/ s = "elasticsearch" /\ text("INDEX") = "Other"
    <2>1. env.port \in PortTexts
        BY DEF Environments
    <2>2. /\ "AUTH_SOURCE" \in Names(s) <=> s = "mongo"
          /\ s = "mongo" => "DATABASE" \in Names(s)
          /\ s = "ldap" => "BASE_DN" \in Names(s)
          /\ s = "elasticsearch" => "INDEX" \in Names(s)
        BY DEF Names, Services
    <2>3. ASSUME NEW name \in Names(s)
          PROVE  /\ names[name] = Field(env, name)
                 /\ text(name) # "" => Field(env, name) = text(name)
                 /\ text(name) = "" /\ name # "AUTH_SOURCE" => Field(env, name) = "default"
                 /\ text(name) = "" /\ name = "AUTH_SOURCE" =>
                       Field(env, name) = IF text("DATABASE") = "" THEN "default" ELSE text("DATABASE")
                 /\ Field(env, name) # ""
        BY DEF Field, EnvironmentValue
    <2>4. s = "mongo" /\ text("AUTH_SOURCE") = "" => names["AUTH_SOURCE"] = names["DATABASE"]
        BY <2>2, <2>3
    <2>5. (\A name \in Names(s) : names[name] \notin {"", "  "})
          <=> ~\E name \in Names(s) : text(name) = "  "
        BY <2>2, <2>3
    <2>6. s = "ldap" => (names["BASE_DN"] = "default" <=> text("BASE_DN") \in {"", "default"})
        BY <2>2, <2>3
    <2>7. s = "elasticsearch" => (names["INDEX"] = "Other" <=> text("INDEX") = "Other")
        BY <2>2, <2>3
    <2> HIDE DEF names
    <2>8. ASSUME NEW port, port # 0
          PROVE  Validate(s, config(port)) <=> ~Refused
        BY <2>2, <2>5, <2>6, <2>7, <2>8 DEF Validate, Complete, ValidIndex
    <2>9. Load(s, env) = {c \in {config(port) : port \in EnvironmentPort(env.port)} : Validate(s, c)}
        BY DEF Load, names
    <2>10. ASSUME NEW port, Load(s, env) = {config(port)}, ~Refused,
                  env.port = "" => port = DefaultPort,
                  env.port # "" => port = Numeral[env.port],
                  env.port \notin {"port", "0", "65536", "65537"}
           PROVE  Obeyed(s, env)
        <3>1. ASSUME NEW c \in Load(s, env)
              PROVE  /\ \A name \in Names(s) : text(name) # "" => c.names[name] = text(name)
                     /\ env.port = "" => c.port = DefaultPort
                     /\ env.port # "" => c.port = Numeral[env.port]
                     /\ s = "mongo" /\ text("AUTH_SOURCE") = ""
                        => c.names["AUTH_SOURCE"] = c.names["DATABASE"]
            <4>1. c.names = names /\ c.port = port
                <5>1. c \in {config(port)}
                    BY <2>10
                <5>2. c = config(port)
                    BY <5>1
                <5> QED BY <5>2
            <4>2. \A name \in Names(s) : text(name) # "" => names[name] = text(name)
                BY <2>3
            <4> QED BY <2>4, <2>10, <4>1, <4>2
        <3>2. Load(s, env) # {}
            BY <2>10
        <3>3. ~(\/ \E name \in Names(s) : text(name) = "  "
                \/ env.port \in {"port", "0", "65536", "65537"}
                \/ s = "ldap" /\ text("BASE_DN") \notin {"", "default"}
                \/ s = "elasticsearch" /\ text("INDEX") = "Other")
            BY <2>10
        <3> QED BY <3>1, <3>2, <3>3 DEF Obeyed
    <2>11. CASE env.port = ""
        <3>1. {config(port) : port \in EnvironmentPort(env.port)} = {config(DefaultPort)}
            BY <2>1, <2>11, PortFacts
        <3>2. DefaultPort # 0
            BY DEF DefaultPort
        <3>3. Load(s, env) = IF Refused THEN {} ELSE {config(DefaultPort)}
            BY <2>8, <2>9, <3>1, <3>2
        <3>4. CASE Refused
            BY <2>11, <3>4, <3>3 DEF Obeyed
        <3>5. CASE ~Refused
            <4>1. Load(s, env) = {config(DefaultPort)}
                BY <3>5, <3>3
            <4>2. env.port \notin {"port", "0", "65536", "65537"}
                BY <2>11
            <4> QED BY <2>11, <2>10, <3>5, <4>1, <4>2
        <3> QED BY <3>4, <3>5
    <2>12. CASE env.port \in {"1", "65535"}
        <3>1. /\ {config(port) : port \in EnvironmentPort(env.port)} = {config(Numeral[env.port])}
              /\ Numeral[env.port] # 0
            <4>1. EnvironmentPort(env.port) = {Numeral[env.port]} /\ Numeral[env.port] # 0
                BY <2>1, <2>12, PortFacts
            <4> QED BY <4>1
        <3>2. Load(s, env) = IF Refused THEN {} ELSE {config(Numeral[env.port])}
            BY <2>8, <2>9, <3>1
        <3>4. CASE Refused
            BY <2>12, <3>4, <3>2 DEF Obeyed
        <3>5. CASE ~Refused
            <4>1. Load(s, env) = {config(Numeral[env.port])}
                BY <3>5, <3>2
            <4>2. env.port \notin {"port", "0", "65536", "65537"} /\ env.port # ""
                BY <2>12
            <4> QED BY <2>12, <2>10, <3>5, <4>1, <4>2
        <3> QED BY <3>4, <3>5
    <2>13. CASE env.port \in {"port", "0", "65536", "65537"}
        <3>1. Load(s, env) = {}
            BY <2>1, <2>9, <2>13, PortFacts
        <3> QED BY <2>13, <3>1 DEF Obeyed
    <2> QED BY <2>1, <2>11, <2>12, <2>13, PortFacts
<1>2. IInv => EnvironmentObeyed
    BY <1>1 DEF IInv, EnvironmentObeyed
<1> QED BY <1>2, InvariantHolds, PTL

=============================================================================
