------------------------- MODULE ConfigReader_proofs -------------------------
(***************************************************************************)
(* Proofs about the configuration reader, for every file: what it keeps    *)
(* line by line is what the file says as a whole.                          *)
(*                                                                         *)
(* Each local of ini_parse_stream() is shown to stand for a part of the    *)
(* file read so far: the section for the last header that counts, the      *)
(* previous name for the last pair that is still open, the error for the   *)
(* first bad line, and a string of the map for the texts of its key.       *)
(***************************************************************************)
EXTENDS ConfigReader, SequenceTheorems, FiniteSetTheorems, NaturalsInduction, TLAPS

ReaderTypes ==
  /\ file \in Files
  /\ \A key \in DOMAIN _values : _values[key] \in Seq(Texts)

(* What the parser makes of the file: the names it remembers are cut, so   *)
(* that a continuation line of a long name goes to the key it is cut to.   *)
KeptSectionOf(f, i) ==
  IF Headers(f, i) = {} THEN EmptyName ELSE strncpy0(f[Max(Headers(f, i))].name)

KeptKeyOf(f, i) ==
  MakeKey(KeptSectionOf(f, i),
          IF IsPair(f, i) THEN f[i].name ELSE strncpy0(f[Max(Pairs(f, i))].name))

KeptLinesFor(f, key, n) == {i \in 1 .. n : Says(f, i) /\ KeptKeyOf(f, i) = key}

KeptTextsFor(f, key, n) ==
  LET said == {i \in KeptLinesFor(f, key, n) :
                 \E j \in KeptLinesFor(f, key, n) : j <= i /\ TextOf(f, j) # EmptyText}
  IN  [m \in 1 .. Cardinality(said) |-> TextOf(f, Nth(said, m))]

EntriesKept ==
  /\ \A i \in 1 .. lineno : Says(file, i) => KeptKeyOf(file, i) \in DOMAIN _values
  /\ \A key \in DOMAIN _values :
       /\ KeptLinesFor(file, key, lineno) # {}
       /\ _values[key] = KeptTextsFor(file, key, lineno)

(* How far main() is, and what it has taken over.                          *)
Phase ==
  /\ state = "open" => lineno = 0 /\ error = 0
  /\ state = "parse" => error # -1
  /\ state \in {"parsed", "rejected", "loaded", "serving", "thrown"} =>
       error = -1 \/ lineno = Len(file)
  /\ error = -1 => lineno = 0
  /\ state \notin {"loaded", "serving", "thrown"} => conf = Defaults
  /\ state = "rejected" => error # 0
  /\ state \in {"loaded", "serving", "thrown"} => error = 0

NameIsOpen ==
  /\ prev_name # EmptyName <=> IsOpenAt(file, lineno + 1)
  /\ prev_name # EmptyName =>
       /\ Pairs(file, lineno + 1) # {}
       /\ prev_name = strncpy0(file[Max(Pairs(file, lineno + 1))].name)

SectionIsLast == section = KeptSectionOf(file, lineno + 1)

FirstError ==
  LET bad == {i \in 1 .. lineno : IsBad(file, i)}
  IN  error # -1 => error = IF bad = {} THEN 0 ELSE Min(bad)

(* What main() has copied, once it has.                                    *)
Copied ==
  state \in {"loaded", "serving", "thrown"} =>
    conf =
      [ source_address      |-> Get(Key("source", "address"), Defaults.source_address),
        source_port         |-> Narrowed(GetInteger(Key("source", "port"), Defaults.source_port)),
        destination_address |-> Get(Key("destination", "address"), Defaults.destination_address),
        destination_port    |-> Narrowed(GetInteger(Key("destination", "port"),
                                                    Defaults.destination_port)),
        packet_address      |-> Narrowed(GetInteger(Key("packet", "address"),
                                                    Defaults.packet_address)) ]

Judged ==
  /\ state = "serving" => Parses(conf.destination_address) /\ Parses(conf.source_address)
  /\ state = "thrown" => ~(Parses(conf.destination_address) /\ Parses(conf.source_address))

Inv ==
  /\ TypeOK
  /\ ReaderTypes
  /\ Phase
  /\ NameIsOpen
  /\ SectionIsLast
  /\ FirstError
  /\ EntriesKept
  /\ Copied
  /\ Judged

-----------------------------------------------------------------------------
(* Sets of lines.                                                          *)

LEMMA LeastIs ==
  ASSUME NEW S \in SUBSET Nat, S # {}
  PROVE  Min(S) \in S /\ \A y \in S : Min(S) <= y
<1>1. \E x \in S : \A y \in S : x <= y
  <2>1. S \in SUBSET Nat /\ S # {}
    OBVIOUS
  <2>2. PICK x \in S : \A y \in S : ~(<<y, x>> \in OpToRel(<, Nat))
    BY <2>1, NatLessThanWellFounded, WFMin
  <2>3. \A y \in S : ~(y < x)
    BY <2>2 DEF OpToRel
  <2> QED BY <2>3
<1> QED BY <1>1 DEF Min

(* ... and a greatest one.                                                 *)
LEMMA GreatestIs ==
  ASSUME NEW n \in Nat, NEW S \in SUBSET (1 .. n - 1), S # {}
  PROVE  Max(S) \in S /\ \A y \in S : Max(S) >= y
<1> DEFINE R == {n - x : x \in S}
<1>1. R \in SUBSET Nat /\ R # {}
  <2>1. \A x \in S : n - x \in Nat /\ n - x \in R
    OBVIOUS
  <2>2. \A r \in R : \E x \in S : r = n - x
    OBVIOUS
  <2> HIDE DEF R
  <2> QED BY <2>1, <2>2
<1>2. Min(R) \in R /\ \A y \in R : Min(R) <= y
  BY <1>1, LeastIs
<1>3. PICK x \in S : Min(R) = n - x
  BY <1>2
<1>4. \A y \in S : n - x <= n - y
  BY <1>2, <1>3
<1>5. \A y \in S : x >= y
  BY <1>4
<1> QED BY <1>5 DEF Max

(* A later line is no new minimum, and is the maximum.                     *)
LEMMA LaterLine ==
  ASSUME NEW n \in Nat, NEW S \in SUBSET (1 .. n - 1)
  PROVE  /\ Max(S \cup {n}) = n
         /\ Min(S \cup {n}) = IF S = {} THEN n ELSE Min(S)
         /\ n \notin S
<1> DEFINE T == S \cup {n}
<1>1. n \in T /\ (\A x \in T : x \in Int /\ x <= n) /\ n \notin S
  OBVIOUS
<1>2. T \in SUBSET Nat /\ T # {} /\ S \in SUBSET Nat /\ \A x \in T : x # n => x \in S
  OBVIOUS
<1>3. \A x \in S : x \in T /\ x < n
  OBVIOUS
<1> HIDE DEF T
<1>4. Max(T) \in T /\ \A y \in T : Max(T) >= y
  BY <1>1 DEF Max
<1>5. Max(T) \in Int /\ Max(T) <= n /\ Max(T) >= n
  BY <1>1, <1>4
<1>6. Max(T) = n
  BY <1>5
<1>7. Min(T) \in T /\ \A y \in T : Min(T) <= y
  BY <1>2, LeastIs
<1>8. Min(T) = IF S = {} THEN n ELSE Min(S)
  <2>1. CASE S = {}
    BY <1>2, <1>7, <2>1
  <2>2. CASE S # {}
    <3>1. Min(S) \in S /\ \A y \in S : Min(S) <= y
      BY <1>2, <2>2, LeastIs
    <3>2. Min(S) \in T /\ Min(S) < n
      BY <1>3, <3>1
    <3>3. Min(T) <= Min(S) /\ Min(S) \in Nat /\ Min(T) \in Nat
      BY <1>2, <1>7, <3>1, <3>2
    <3>4. Min(T) \in S
      BY <1>2, <1>7, <3>2, <3>3
    <3>5. Min(S) <= Min(T)
      BY <3>1, <3>4
    <3>6. Min(T) = Min(S)
      BY <3>3, <3>5
    <3> QED BY <2>2, <3>6, Zenon
  <2> QED BY <2>1, <2>2
<1> QED BY <1>1, <1>6, <1>8 DEF T

(* One line more in a set of earlier lines.                                *)
LEMMA CountLater ==
  ASSUME NEW n \in Nat, NEW S \in SUBSET (1 .. n - 1)
  PROVE  /\ IsFiniteSet(S) /\ Cardinality(S) \in Nat
         /\ Cardinality(S \cup {n}) = Cardinality(S) + 1
<1>1. IsFiniteSet(1 .. n - 1)
  BY FS_Interval
<1>2. IsFiniteSet(S)
  BY <1>1, FS_Subset
<1>3. n \notin S
  OBVIOUS
<1> QED BY <1>2, <1>3, FS_CardinalityType, FS_AddElement

(* The lines of a set keep their places when a later one joins them.       *)
LEMMA PlacesStay ==
  ASSUME NEW n \in Nat, NEW S \in SUBSET (1 .. n - 1)
  PROVE  /\ \A m \in 1 .. Cardinality(S) : Nth(S \cup {n}, m) = Nth(S, m)
         /\ Nth(S \cup {n}, Cardinality(S) + 1) = n
<1> DEFINE T == S \cup {n}
           c == Cardinality(S)
           upS(i) == {j \in S : j <= i}
           upT(i) == {j \in T : j <= i}
<1>1. c \in Nat /\ IsFiniteSet(S) /\ Cardinality(T) = c + 1
  BY CountLater
<1>2. \A i \in S : upT(i) = upS(i)
  OBVIOUS
<1>3. upT(n) = T
  <2>1. \A j \in T : j <= n
    OBVIOUS
  <2> QED BY <2>1
<1>4. \A i \in S : Cardinality(upS(i)) \in Nat /\ Cardinality(upS(i)) <= c
  <2> SUFFICES ASSUME NEW i \in S
               PROVE  Cardinality(upS(i)) \in Nat /\ Cardinality(upS(i)) <= c
    OBVIOUS
  <2>1. upS(i) \subseteq S
    OBVIOUS
  <2> QED BY <2>1, <1>1, FS_Subset, FS_CardinalityType
<1>5. ASSUME NEW m \in 1 .. c
      PROVE  Nth(T, m) = Nth(S, m)
  <2>1. {i \in T : Cardinality(upT(i)) = m} = {i \in S : Cardinality(upS(i)) = m}
    <3>1. m # c + 1
      BY <1>1
    <3> HIDE DEF upS, upT, c
    <3> QED BY <3>1, <1>1, <1>2, <1>3
  <2> QED BY <2>1, Zenon DEF Nth
<1>6. Nth(T, c + 1) = n
  <2>1. {i \in T : Cardinality(upT(i)) = c + 1} = {n}
    <3>1. \A i \in S : Cardinality(upT(i)) # c + 1
      <4> HIDE DEF upS, upT, c
      <4> QED BY <1>1, <1>2, <1>4
    <3> HIDE DEF upS, upT, c
    <3> QED BY <3>1, <1>1, <1>3
  <2>2. Min({n}) = n
    BY LeastIs
  <2> QED BY <2>1, <2>2, Zenon DEF Nth
<1> QED BY <1>5, <1>6

-----------------------------------------------------------------------------
(* What the file says up to a line, from what it says up to the one before *)
LEMMA FileIs ==
  ASSUME NEW f \in Files
  PROVE  /\ f \in Seq(Lines) /\ Len(f) \in Nat
         /\ \A i \in 1 .. Len(f) :
              /\ f[i] \in Lines /\ f[i].name \in Names
              /\ f[i].value \in Texts /\ f[i].text \in Texts
              /\ f[i].name.word = "" => f[i].name = EmptyName
<1>1. f \in Seq(Lines) /\ \A i \in DOMAIN f : f[i].name.word = "" => f[i].name = EmptyName
  BY FilesAssumption
<1>2. f \in Seq(Lines)
  BY <1>1
<1>3. DOMAIN f = 1 .. Len(f) /\ Len(f) \in Nat
  BY <1>2
<1>4. \A i \in 1 .. Len(f) : f[i] \in Lines
  BY <1>2
<1>5. \A line \in Lines : line.name \in Names /\ line.value \in Texts /\ line.text \in Texts
  BY DEF Lines
<1> QED BY <1>1, <1>2, <1>3, <1>4, <1>5

Opens(line)  == line.kind = "pair" /\ line.name # EmptyName

Closes(line) ==
  /\ ~line.indent
  /\ line.kind = "header" \/ (line.kind = "pair" /\ line.name = EmptyName)

(* Whether a name is open before the next line depends on this line.       *)
LEMMA OpenStep ==
  ASSUME NEW f, NEW n \in Nat \ {0}
  PROVE  IsOpenAt(f, n + 1) <=> Opens(f[n]) \/ (IsOpenAt(f, n) /\ ~Closes(f[n]))
<1> DEFINE Since(j, m) == Opens(f[j]) /\ \A k \in j + 1 .. m - 1 : ~Closes(f[k])
<1>1. \A m \in Nat : IsOpenAt(f, m) <=> \E j \in 1 .. m - 1 : Since(j, m)
  BY DEF IsOpenAt, Opens, Closes
<1>2. \A j \in 1 .. n - 1 : Since(j, n + 1) <=> Since(j, n) /\ ~Closes(f[n])
  <2> SUFFICES ASSUME NEW j \in 1 .. n - 1
               PROVE  Since(j, n + 1) <=> Since(j, n) /\ ~Closes(f[n])
    OBVIOUS
  <2>1. j + 1 .. (n + 1) - 1 = (j + 1 .. n - 1) \cup {n}
    OBVIOUS
  <2> HIDE DEF Opens, Closes
  <2> QED BY <2>1
<1>3. Since(n, n + 1) <=> Opens(f[n])
  OBVIOUS
<1>4. 1 .. (n + 1) - 1 = (1 .. n - 1) \cup {n} /\ n + 1 \in Nat
  OBVIOUS
<1> HIDE DEF Since
<1> QED BY <1>1, <1>2, <1>3, <1>4

(* One more line adds to the headers if it is one and continues nothing.   *)
LEMMA HeadersStep ==
  ASSUME NEW f, NEW n \in Nat \ {0}
  PROVE  /\ Headers(f, n) \in SUBSET (1 .. n - 1)
         /\ Headers(f, n + 1) =
              IF f[n].kind = "header" /\ ~IsContinuation(f, n)
              THEN Headers(f, n) \cup {n} ELSE Headers(f, n)
<1>1. 1 .. (n + 1) - 1 = (1 .. n - 1) \cup {n}
  OBVIOUS
<1> QED BY <1>1 DEF Headers

(* One more line adds to the pairs if it is one.                           *)
LEMMA PairsStep ==
  ASSUME NEW f, NEW n \in Nat \ {0}
  PROVE  /\ Pairs(f, n) \in SUBSET (1 .. n - 1)
         /\ Pairs(f, n + 1) = IF IsPair(f, n) THEN Pairs(f, n) \cup {n} ELSE Pairs(f, n)
<1>1. 1 .. (n + 1) - 1 = (1 .. n - 1) \cup {n}
  OBVIOUS
<1> QED BY <1>1 DEF Pairs

(* One more line adds to the lines of the key it says something about.     *)
LEMMA KeptLinesStep ==
  ASSUME NEW f, NEW key, NEW n \in Nat \ {0}
  PROVE  /\ KeptLinesFor(f, key, n - 1) \in SUBSET (1 .. n - 1)
         /\ KeptLinesFor(f, key, n) =
              IF Says(f, n) /\ KeptKeyOf(f, n) = key
              THEN KeptLinesFor(f, key, n - 1) \cup {n} ELSE KeptLinesFor(f, key, n - 1)
<1>1. 1 .. n = (1 .. n - 1) \cup {n}
  OBVIOUS
<1> QED BY <1>1 DEF KeptLinesFor

(* The set of lines whose texts a string holds.                            *)
SaidFor(f, key, n) ==
  {i \in KeptLinesFor(f, key, n) :
     \E j \in KeptLinesFor(f, key, n) : j <= i /\ TextOf(f, j) # EmptyText}

(* The texts of a key are those of the lines that count for it, in order.  *)
LEMMA TextsAre ==
  ASSUME NEW f, NEW key, NEW n
  PROVE  KeptTextsFor(f, key, n) =
           [m \in 1 .. Cardinality(SaidFor(f, key, n)) |-> TextOf(f, Nth(SaidFor(f, key, n), m))]
BY Zenon DEF KeptTextsFor, SaidFor

(* A line counts for its key unless it adds an empty text to nothing.      *)
LEMMA SaidStep ==
  ASSUME NEW f, NEW key, NEW n \in Nat \ {0}
  PROVE  /\ SaidFor(f, key, n - 1) \in SUBSET (1 .. n - 1)
         /\ SaidFor(f, key, n) =
              IF /\ Says(f, n) /\ KeptKeyOf(f, n) = key
                 /\ SaidFor(f, key, n - 1) # {} \/ TextOf(f, n) # EmptyText
              THEN SaidFor(f, key, n - 1) \cup {n} ELSE SaidFor(f, key, n - 1)
<1> DEFINE L == KeptLinesFor(f, key, n - 1)
           says == Says(f, n) /\ KeptKeyOf(f, n) = key
<1>1. L \in SUBSET (1 .. n - 1) /\ KeptLinesFor(f, key, n) = IF says THEN L \cup {n} ELSE L
  BY KeptLinesStep
<1>2. \A i \in L : i <= n /\ ~(n <= i) /\ i # n
  BY <1>1
<1>3. n <= n
  OBVIOUS
<1> HIDE DEF L, says
<1>4. SaidFor(f, key, n - 1) = {i \in L : \E j \in L : j <= i /\ TextOf(f, j) # EmptyText}
  BY Zenon DEF SaidFor, L
<1>5. SaidFor(f, key, n - 1) # {} <=> \E j \in L : TextOf(f, j) # EmptyText
  <2>1. \A j \in L : j <= j
    BY <1>1
  <2> QED BY <1>4, <2>1
<1>6. CASE ~says
  BY <1>1, <1>4, <1>6 DEF SaidFor, says
<1>7. CASE says
  <2>1. SaidFor(f, key, n) =
          {i \in L \cup {n} : \E j \in L \cup {n} : j <= i /\ TextOf(f, j) # EmptyText}
    BY <1>1, <1>7, Zenon DEF SaidFor
  <2>2. \A i \in L : i \in SaidFor(f, key, n) <=> i \in SaidFor(f, key, n - 1)
    BY <1>2, <1>4, <2>1
  <2>3. n \in SaidFor(f, key, n) <=> SaidFor(f, key, n - 1) # {} \/ TextOf(f, n) # EmptyText
    BY <1>2, <1>3, <1>5, <2>1
  <2>4. SaidFor(f, key, n) \subseteq L \cup {n} /\ SaidFor(f, key, n - 1) \subseteq L /\ n \notin L
    BY <1>2, <1>4, <2>1
  <2> HIDE DEF SaidFor
  <2> QED BY <1>1, <1>7, <2>2, <2>3, <2>4 DEF says
<1> QED BY <1>6, <1>7

(* A line adds its text to the string of its key, and to no other.         *)
LEMMA TextsStep ==
  ASSUME NEW f, NEW key, NEW n \in Nat \ {0},
         KeptTextsFor(f, key, n - 1) \in Seq(Texts), TextOf(f, n) \in Texts
  PROVE  KeptTextsFor(f, key, n) =
           IF Says(f, n) /\ KeptKeyOf(f, n) = key
           THEN Joined(KeptTextsFor(f, key, n - 1), TextOf(f, n)) ELSE KeptTextsFor(f, key, n - 1)
<1> DEFINE S == SaidFor(f, key, n - 1)
           T == SaidFor(f, key, n)
           c == Cardinality(S)
           old == KeptTextsFor(f, key, n - 1)
           new == KeptTextsFor(f, key, n)
           more == S # {} \/ TextOf(f, n) # EmptyText
           says == Says(f, n) /\ KeptKeyOf(f, n) = key
<1>1. S \in SUBSET (1 .. n - 1) /\ T = IF says /\ more THEN S \cup {n} ELSE S
  BY SaidStep
<1>2. /\ old = [m \in 1 .. c |-> TextOf(f, Nth(S, m))]
      /\ new = [m \in 1 .. Cardinality(T) |-> TextOf(f, Nth(T, m))]
  BY TextsAre
<1>3. IsFiniteSet(S) /\ c \in Nat /\ Cardinality(S \cup {n}) = c + 1
  BY <1>1, CountLater
<1>4. \A m \in 1 .. c : Nth(S \cup {n}, m) = Nth(S, m)
  BY <1>1, PlacesStay
<1>5. Nth(S \cup {n}, c + 1) = n
  BY <1>1, PlacesStay
<1>6. S = {} <=> c = 0
  BY <1>3, FS_EmptySet
<1> HIDE DEF S, T, c, old, new
<1>7. Len(old) = c /\ (S = {} <=> old = <<>>)
  BY <1>2, <1>3, <1>6 DEF old
<1>8. CASE says /\ more
  <2>1. T = S \cup {n} /\ Cardinality(T) = c + 1
    BY <1>1, <1>3, <1>8
  <2>2. new = [m \in 1 .. c + 1 |-> TextOf(f, Nth(S \cup {n}, m))]
    BY <1>2, <2>1
  <2>3. Joined(old, TextOf(f, n)) = Append(old, TextOf(f, n))
    BY <1>7, <1>8, Zenon DEF Joined
  <2>4. \A m \in 1 .. c : new[m] = old[m]
    <3> SUFFICES ASSUME NEW m \in 1 .. c
                 PROVE  new[m] = old[m]
      OBVIOUS
    <3>1. m \in 1 .. c + 1
      BY <1>3
    <3>2. new[m] = TextOf(f, Nth(S \cup {n}, m))
      BY <2>2, <3>1
    <3> QED BY <1>2, <1>4, <3>2
  <2>5. new[c + 1] = TextOf(f, n)
    BY <1>3, <1>5, <2>2
  <2>6. old \in Seq(Texts)
    BY DEF old
  <2>7. new = Append(old, TextOf(f, n))
    <3> DEFINE t == TextOf(f, n)
    <3>1. t \in Texts
      OBVIOUS
    <3>2. DOMAIN new = 1 .. c + 1 /\ new = [m \in 1 .. c + 1 |-> new[m]]
      BY <2>2
    <3>3. new[c + 1] = t
      BY <2>5
    <3> HIDE DEF t
    <3>4. /\ Append(old, t) \in Seq(Texts) /\ Len(Append(old, t)) = c + 1
          /\ \A m \in 1 .. c : Append(old, t)[m] = old[m]
          /\ Append(old, t)[c + 1] = t
      BY <1>7, <2>6, <3>1, AppendProperties
    <3>5. \A m \in 1 .. c + 1 : m \in 1 .. c \/ m = c + 1
      BY <1>3
    <3>6. \A m \in 1 .. c + 1 : new[m] = Append(old, t)[m] /\ new[m] \in Texts
      <4>1. \A m \in 1 .. c : old[m] \in Texts
        BY <1>7, <2>6
      <4> QED BY <2>4, <3>1, <3>3, <3>4, <3>5, <4>1
    <3>7. new \in Seq(Texts) /\ Len(new) = c + 1
      <4>1. c + 1 \in Nat
        BY <1>3
      <4>2. new \in [1 .. c + 1 -> Texts]
        BY <3>2, <3>6
      <4>3. new \in Seq(Texts)
        BY <4>1, <4>2
      <4>4. Len(new) = c + 1
        BY <3>2, <4>1, <4>3
      <4> QED BY <4>3, <4>4
    <3>8. new = Append(old, t)
      <4> DEFINE longer == Append(old, t)
      <4>1. longer \in Seq(Texts) /\ Len(longer) = Len(new) /\ \A m \in 1 .. Len(new) : new[m] = longer[m]
        BY <3>4, <3>6, <3>7
      <4> HIDE DEF longer
      <4>2. new = longer
        BY <3>7, <4>1, SeqEqual
      <4> QED BY <4>2 DEF longer
    <3> QED BY <3>8 DEF t
  <2> QED BY <1>8, <2>3, <2>7, Zenon DEF old, new
<1>9. CASE ~says
  BY <1>1, <1>2, <1>9 DEF old, new, c
<1>10. CASE says /\ ~more
  <2>1. new = old
    BY <1>1, <1>2, <1>10 DEF c
  <2>2. old = <<>> /\ TextOf(f, n) = EmptyText
    BY <1>7, <1>10
  <2>3. Joined(old, TextOf(f, n)) = <<>>
    BY <2>2, Zenon DEF Joined
  <2> QED BY <1>10, <2>1, <2>2, <2>3, Zenon DEF old, new
<1> QED BY <1>8, <1>9, <1>10

(* A key no line is about has no texts.                                    *)
LEMMA NoLinesNoTexts ==
  ASSUME NEW f, NEW key, NEW n, KeptLinesFor(f, key, n) = {}
  PROVE  KeptTextsFor(f, key, n) = <<>>
<1>1. SaidFor(f, key, n) = {}
  BY DEF SaidFor
<1>2. Cardinality(SaidFor(f, key, n)) = 0
  BY <1>1, FS_EmptySet
<1> QED BY <1>2, TextsAre

-----------------------------------------------------------------------------
(* What the reader keeps stands for the lines it has read.                 *)
LEMMA ValueIs ==
  ASSUME Inv, NEW key
  PROVE  /\ ValueAt(key) = KeptTextsFor(file, key, lineno)
         /\ ValueAt(key) \in Seq(Texts)
         /\ key \in DOMAIN _values <=> KeptLinesFor(file, key, lineno) # {}
<1>1. EntriesKept /\ \A k \in DOMAIN _values : _values[k] \in Seq(Texts)
  BY DEF Inv, ReaderTypes
<1>2. CASE key \in DOMAIN _values
  BY <1>1, <1>2 DEF EntriesKept, ValueAt
<1>3. CASE key \notin DOMAIN _values
  <2>1. KeptLinesFor(file, key, lineno) = {}
    BY <1>1, <1>3 DEF EntriesKept, KeptLinesFor
  <2>2. KeptTextsFor(file, key, lineno) = <<>>
    BY <2>1, NoLinesNoTexts
  <2>3. ValueAt(key) = <<>>
    BY <1>3 DEF ValueAt
  <2>4. <<>> \in Seq(Texts)
    BY EmptySeq
  <2> QED BY <1>3, <2>1, <2>2, <2>3, <2>4
<1> QED BY <1>2, <1>3

(* What a line says is a text.                                             *)
LEMMA TextIs ==
  ASSUME NEW f \in Files, NEW n \in 1 .. Len(f)
  PROVE  TextOf(f, n) \in Texts
BY FileIs DEF TextOf

(* Joining a text to a string of texts makes one.                          *)
LEMMA JoinedIs ==
  ASSUME NEW string \in Seq(Texts), NEW text \in Texts
  PROVE  Joined(string, text) \in Seq(Texts)
BY EmptySeq, AppendProperties DEF Joined

(* What every branch of the loop finds when it has read a line.            *)
LEMMA ReadsLine ==
  ASSUME Inv, Read
  PROVE  /\ file \in Files /\ file' = file /\ state' = "parse" /\ conf' = conf
         /\ lineno' \in Nat \ {0} /\ lineno' \in 1 .. Len(file) /\ lineno' - 1 = lineno
         /\ Line = file[lineno'] /\ Line \in Lines /\ Line.name \in Names
         /\ Line.name.word = "" => Line.name = EmptyName
         /\ Continues(Line) <=> IsContinuation(file, lineno')
         /\ error # -1
         /\ KeptSectionOf(file, lineno') = section
         /\ prev_name # EmptyName <=> IsOpenAt(file, lineno')
         /\ prev_name # EmptyName =>
              /\ Pairs(file, lineno') # {}
              /\ prev_name = strncpy0(file[Max(Pairs(file, lineno'))].name)
<1>1. file \in Files /\ lineno \in 0 .. Len(file) /\ state = "parse" /\ error # -1
  <2>1. TypeOK /\ ReaderTypes /\ Phase
    BY DEF Inv
  <2>2. file \in Files /\ lineno \in 0 .. Len(file)
    <3>1. lineno \in 0 .. Len(file)
      BY <2>1 DEF TypeOK
    <3>2. file \in Files
      BY <2>1 DEF ReaderTypes
    <3> QED BY <3>1, <3>2
  <2>3. state = "parse" /\ error # -1
    BY <2>1 DEF Phase, Read
  <2> QED BY <2>2, <2>3
<1>2. Len(file) \in Nat /\ lineno' = lineno + 1 /\ lineno < Len(file)
  BY <1>1, FileIs DEF Read
<1>3. lineno' \in Nat \ {0} /\ lineno' \in 1 .. Len(file) /\ lineno' - 1 = lineno
  BY <1>1, <1>2
<1>4. Line = file[lineno'] /\ Line \in Lines /\ Line.name \in Names
      /\ (Line.name.word = "" => Line.name = EmptyName)
  BY <1>1, <1>3, FileIs DEF Line
<1>5. /\ prev_name # EmptyName <=> IsOpenAt(file, lineno')
      /\ prev_name # EmptyName =>
           /\ Pairs(file, lineno') # {}
           /\ prev_name = strncpy0(file[Max(Pairs(file, lineno'))].name)
      /\ section = KeptSectionOf(file, lineno')
  BY <1>2, Zenon DEF Inv, NameIsOpen, SectionIsLast
<1>6. Continues(Line) <=> IsContinuation(file, lineno')
  BY <1>4, <1>5, Zenon DEF Continues, IsContinuation
<1> QED BY <1>1, <1>3, <1>4, <1>5, <1>6 DEF Read

(* A line that says nothing leaves the entries as they are.                *)
LEMMA KeepsEntries ==
  ASSUME Inv, Read, _values' = _values, ~Says(file, lineno')
  PROVE  EntriesKept' /\ \A key \in DOMAIN _values' : _values'[key] \in Seq(Texts)
<1> DEFINE n == lineno'
<1>1. file \in Files /\ file' = file /\ n \in Nat \ {0} /\ n \in 1 .. Len(file) /\ n - 1 = lineno
  BY ReadsLine
<1>2. EntriesKept /\ \A key \in DOMAIN _values : _values[key] \in Seq(Texts)
  BY DEF Inv, ReaderTypes
<1>3. \A key : KeptLinesFor(file, key, n) = KeptLinesFor(file, key, lineno)
  BY <1>1, KeptLinesStep
<1>4. \A key : KeptTextsFor(file, key, n) = KeptTextsFor(file, key, lineno)
  <2> SUFFICES ASSUME NEW key
               PROVE  KeptTextsFor(file, key, n) = KeptTextsFor(file, key, lineno)
    OBVIOUS
  <2>1. KeptTextsFor(file, key, n - 1) \in Seq(Texts) /\ TextOf(file, n) \in Texts
    BY <1>1, ValueIs, TextIs
  <2> HIDE DEF n
  <2> QED BY <1>1, <2>1, TextsStep DEF n
<1>5. \A i \in 1 .. n : i = n \/ i \in 1 .. lineno
  BY <1>1
<1>6. \A i \in 1 .. n : Says(file, i) => KeptKeyOf(file, i) \in DOMAIN _values
  BY <1>2, <1>5 DEF EntriesKept
<1>7. \A key \in DOMAIN _values :
        KeptLinesFor(file, key, n) # {} /\ _values[key] = KeptTextsFor(file, key, n)
  BY <1>2, <1>3, <1>4, Zenon DEF EntriesKept
<1>8. EntriesKept'
  BY <1>1, <1>6, <1>7, Zenon DEF EntriesKept
<1> QED BY <1>2, <1>8

(* A line that says something adds its text to the entry of its key.       *)
LEMMA AddsEntry ==
  ASSUME Inv, Read, Says(file, lineno'), NEW name,
         MakeKey(section, name) = KeptKeyOf(file, lineno'),
         ValueHandler(name, TextOf(file, lineno'))
  PROVE  EntriesKept' /\ \A key \in DOMAIN _values' : _values'[key] \in Seq(Texts)
<1> DEFINE n == lineno'
           k == KeptKeyOf(file, n)
           t == TextOf(file, n)
<1>1. file \in Files /\ file' = file /\ n \in Nat \ {0} /\ n \in 1 .. Len(file) /\ n - 1 = lineno
  BY ReadsLine
<1>2. EntriesKept /\ \A key \in DOMAIN _values : _values[key] \in Seq(Texts)
  BY DEF Inv, ReaderTypes
<1>3. _values' = [key \in DOMAIN _values \cup {k} |->
                    IF key = k THEN Joined(ValueAt(key), t) ELSE _values[key]]
  BY DEF ValueHandler
<1>4. \A key : KeptLinesFor(file, key, n) =
                 IF key = k THEN KeptLinesFor(file, key, lineno) \cup {n} ELSE KeptLinesFor(file, key, lineno)
  BY <1>1, KeptLinesStep
<1>5. t \in Texts
  BY <1>1, TextIs
<1>6. \A key : ValueAt(key) \in Seq(Texts) /\ ValueAt(key) = KeptTextsFor(file, key, lineno)
  BY ValueIs
<1>7. \A key : KeptTextsFor(file, key, n) =
                 IF key = k THEN Joined(ValueAt(key), t) ELSE KeptTextsFor(file, key, lineno)
  <2> SUFFICES ASSUME NEW key
               PROVE  KeptTextsFor(file, key, n) =
                        IF key = k THEN Joined(ValueAt(key), t) ELSE KeptTextsFor(file, key, lineno)
    OBVIOUS
  <2>1. KeptTextsFor(file, key, n - 1) \in Seq(Texts) /\ ValueAt(key) = KeptTextsFor(file, key, n - 1)
    BY <1>1, <1>6
  <2> HIDE DEF n
  <2> QED BY <1>1, <1>5, <2>1, TextsStep DEF n
<1>8. \A i \in 1 .. n : i = n \/ i \in 1 .. lineno
  BY <1>1
<1>9. DOMAIN _values' = DOMAIN _values \cup {k}
  BY <1>3
<1>10. \A i \in 1 .. n : Says(file, i) => KeptKeyOf(file, i) \in DOMAIN _values'
  BY <1>2, <1>8, <1>9 DEF EntriesKept
<1>11. \A key \in DOMAIN _values' :
         /\ KeptLinesFor(file, key, n) # {} /\ _values'[key] = KeptTextsFor(file, key, n)
         /\ _values'[key] \in Seq(Texts)
  <2> SUFFICES ASSUME NEW key \in DOMAIN _values'
               PROVE  /\ KeptLinesFor(file, key, n) # {} /\ _values'[key] = KeptTextsFor(file, key, n)
                      /\ _values'[key] \in Seq(Texts)
    OBVIOUS
  <2> HIDE DEF n, k, t
  <2>1. CASE key = k
    BY <1>3, <1>4, <1>5, <1>6, <1>7, <1>9, <2>1, JoinedIs
  <2>2. CASE key # k
    <3>1. key \in DOMAIN _values /\ _values'[key] = _values[key]
      BY <1>3, <1>9, <2>2
    <3> QED BY <1>2, <1>4, <1>7, <2>2, <3>1 DEF EntriesKept
  <2> QED BY <2>1, <2>2
<1>12. EntriesKept'
  BY <1>1, <1>10, <1>11, Zenon DEF EntriesKept
<1> QED BY <1>11, <1>12

(* A line that is not bad leaves the error, and every line leaves it when  *)
(* there was one before.                                                   *)
LEMMA NotesError ==
  ASSUME Inv, Read,
         error' = IF IsBad(file, lineno') /\ error = 0 THEN lineno' ELSE error
  PROVE  FirstError' /\ error' # -1 /\ error' \in -1 .. Len(file)
<1> DEFINE n == lineno'
           bad == {i \in 1 .. lineno : IsBad(file, i)}
           bad1 == {i \in 1 .. n : IsBad(file, i)}
<1>1. file \in Files /\ file' = file /\ n \in Nat \ {0} /\ n \in 1 .. Len(file) /\ n - 1 = lineno
      /\ error # -1
  BY ReadsLine
<1>2. error = IF bad = {} THEN 0 ELSE Min(bad)
  BY <1>1 DEF Inv, FirstError
<1>3. bad \in SUBSET (1 .. n - 1)
  BY <1>1
<1>4. bad1 = IF IsBad(file, n) THEN bad \cup {n} ELSE bad
  <2>1. 1 .. n = (1 .. lineno) \cup {n}
    BY <1>1
  <2> QED BY <2>1
<1>5. Min(bad \cup {n}) = IF bad = {} THEN n ELSE Min(bad)
  <2>1. n \in Nat
    BY <1>1
  <2> HIDE DEF bad, n
  <2> QED BY <1>3, <2>1, LaterLine
<1>6. bad # {} => Min(bad) \in bad
  <2>1. bad \in SUBSET Nat
    OBVIOUS
  <2> QED BY <2>1, LeastIs
<1>7. bad # {} => error \in 1 .. n /\ error = Min(bad) /\ error # 0
  BY <1>2, <1>3, <1>6, <1>1
<1>8. error \in -1 .. Len(file)
  <2>1. TypeOK
    BY DEF Inv
  <2> QED BY <2>1 DEF TypeOK
<1>9. error' = IF bad1 = {} THEN 0 ELSE Min(bad1)
  <2> HIDE DEF bad, bad1
  <2>1. CASE IsBad(file, n)
    BY <1>1, <1>2, <1>4, <1>5, <1>7, <2>1
  <2>2. CASE ~IsBad(file, n)
    BY <1>2, <1>4, <2>2
  <2> QED BY <2>1, <2>2
<1>10. FirstError'
  BY <1>1, <1>9 DEF FirstError
<1> QED BY <1>1, <1>8, <1>10
-----------------------------------------------------------------------------
(* One lemma per turn of the loop.                                         *)

LEMMA NoTailKept ==
  ASSUME NEW W, NEW name \in [word : W, upper : BOOLEAN, tail : BOOLEAN], name.tail = FALSE
  PROVE  strncpy0(name) = name
BY DEF strncpy0

(* The empty name is not cut.                                              *)
LEMMA EmptyNameKept ==
  ~EmptyName.tail /\ EmptyName.word = "" /\ strncpy0(EmptyName) = EmptyName
<1> DEFINE w == ""
           W == {w}
<1>1. w \in W /\ EmptyName = NameOf(w)
  BY Zenon DEF EmptyName
<1> HIDE DEF w, W
<1>2. NameOf(w) \in [word : W, upper : BOOLEAN, tail : BOOLEAN]
  BY <1>1 DEF NameOf
<1>3. ~NameOf(w).tail /\ NameOf(w).word = w
  BY DEF NameOf
<1>4. NameOf(w).tail = FALSE
  BY <1>2, <1>3
<1>5. strncpy0(NameOf(w)) = NameOf(w)
  BY <1>2, <1>4, NoTailKept
<1> QED BY <1>1, <1>3, <1>5 DEF w

(* A name that is cut is empty only if it was.                             *)
LEMMA NameKept ==
  ASSUME NEW name \in Names, name.word = "" => name = EmptyName
  PROVE  /\ ~strncpy0(name).tail
         /\ strncpy0(name) = EmptyName <=> name = EmptyName
<1>1. ~strncpy0(name).tail /\ strncpy0(name).word = name.word
  BY DEF strncpy0, Names
<1>2. EmptyName.word = "" /\ strncpy0(EmptyName) = EmptyName
  BY EmptyNameKept
<1> QED BY <1>1, <1>2

(* What every turn leaves alone.                                           *)
LEMMA TurnKeeps ==
  ASSUME Inv, Read, error' # -1, error' \in -1 .. Len(file),
         ~section'.tail, ~prev_name'.tail,
         \A key \in DOMAIN _values' : _values'[key] \in Seq(Texts)
  PROVE  TypeOK' /\ ReaderTypes' /\ Phase' /\ Copied' /\ Judged'
<1>1. file \in Files /\ file' = file /\ state' = "parse" /\ conf' = conf /\ lineno' \in 1 .. Len(file)
  BY ReadsLine
<1>2. TypeOK /\ Phase /\ state = "parse"
  BY DEF Inv, Read
<1>3. TypeOK'
  <2>1. lineno' \in 0 .. Len(file)
    <3>1. Len(file) \in Nat
      BY <1>1, FileIs
    <3> QED BY <1>1, <3>1
  <2> QED BY <1>1, <1>2, <2>1 DEF TypeOK
<1>4. ReaderTypes'
  BY <1>1 DEF ReaderTypes
<1>5. Phase'
  BY <1>1, <1>2 DEF Phase
<1>6. Copied' /\ Judged'
  BY <1>1 DEF Copied, Judged
<1> QED BY <1>3, <1>4, <1>5, <1>6

(* A line that opens and closes no name, and is no header, leaves both.    *)
LEMMA NamesStay ==
  ASSUME Inv, Read, UNCHANGED <<section, prev_name>>,
         ~IsPair(file, lineno'),
         Line.kind = "header" => IsContinuation(file, lineno'),
         Opens(Line) => prev_name # EmptyName,
         Closes(Line) => prev_name = EmptyName
  PROVE  NameIsOpen' /\ SectionIsLast'
<1> DEFINE n == lineno'
<1>1. /\ file' = file /\ n \in Nat \ {0} /\ Line = file[n]
      /\ KeptSectionOf(file, n) = section
      /\ prev_name # EmptyName <=> IsOpenAt(file, n)
      /\ prev_name # EmptyName =>
           /\ Pairs(file, n) # {} /\ prev_name = strncpy0(file[Max(Pairs(file, n))].name)
  BY ReadsLine
<1>2. Pairs(file, n + 1) = Pairs(file, n)
  BY <1>1, PairsStep
<1>3. Headers(file, n + 1) = Headers(file, n)
  BY <1>1, HeadersStep
<1>4. IsOpenAt(file, n + 1) <=> prev_name # EmptyName
  BY <1>1, OpenStep
<1>5. NameIsOpen'
  BY <1>1, <1>2, <1>4, Zenon DEF NameIsOpen
<1>6. SectionIsLast'
  BY <1>1, <1>3, Zenon DEF SectionIsLast, KeptSectionOf
<1> QED BY <1>5, <1>6

(* The remembered names have been cut.                                     *)
LEMMA NamesTyped ==
  ASSUME Inv
  PROVE  ~section.tail /\ ~prev_name.tail
<1>1. TypeOK
  BY DEF Inv
<1> QED BY <1>1 DEF TypeOK

(* A blank line or a comment changes nothing.                              *)
LEMMA SkipLineKeeps ==
  ASSUME Inv, SkipLine
  PROVE  Inv'
<1>1. Read /\ Line.kind \in {"blank", "comment"} /\ _values' = _values /\ error' = error
      /\ UNCHANGED <<section, prev_name>>
  BY DEF SkipLine
<1>2. Line = file[lineno']
  BY DEF Line
<1>3. ~IsContinuation(file, lineno') /\ ~IsPair(file, lineno') /\ ~IsBad(file, lineno')
      /\ ~Says(file, lineno')
  BY <1>1, <1>2 DEF IsContinuation, IsPair, IsBad, Says
<1>4. ~Opens(Line) /\ ~Closes(Line)
  BY <1>1 DEF Opens, Closes
<1>5. EntriesKept' /\ \A key \in DOMAIN _values' : _values'[key] \in Seq(Texts)
  BY <1>1, <1>3, KeepsEntries
<1>6. FirstError' /\ error' # -1 /\ error' \in -1 .. Len(file)
  BY <1>1, <1>3, NotesError
<1>7. NameIsOpen' /\ SectionIsLast'
  BY <1>1, <1>3, <1>4, NamesStay
<1>8. TypeOK' /\ ReaderTypes' /\ Phase' /\ Copied' /\ Judged'
  BY <1>1, <1>5, <1>6, NamesTyped, TurnKeeps
<1> QED BY <1>5, <1>6, <1>7, <1>8 DEF Inv

(* An indented line goes to the key of the open name.                      *)
LEMMA ContinueValueKeeps ==
  ASSUME Inv, ContinueValue
  PROVE  Inv'
<1> DEFINE n == lineno'
<1>1. Read /\ Continues(Line) /\ ValueHandler(prev_name, Line.text) /\ error' = error
      /\ UNCHANGED <<section, prev_name>>
  BY DEF ContinueValue
<1>2. /\ Line = file[n] /\ IsContinuation(file, n) /\ KeptSectionOf(file, n) = section
      /\ prev_name # EmptyName
      /\ prev_name = strncpy0(file[Max(Pairs(file, n))].name)
  BY <1>1, ReadsLine DEF Continues
<1>3. ~IsPair(file, n) /\ ~IsBad(file, n) /\ Says(file, n)
  BY <1>2 DEF IsPair, IsBad, Says
<1>4. ~Closes(Line)
  BY <1>1 DEF Continues, Closes
<1>5. MakeKey(section, prev_name) = KeptKeyOf(file, n) /\ TextOf(file, n) = Line.text
  BY <1>2, <1>3 DEF KeptKeyOf, TextOf
<1>6. EntriesKept' /\ \A key \in DOMAIN _values' : _values'[key] \in Seq(Texts)
  BY <1>1, <1>3, <1>5, AddsEntry
<1>7. FirstError' /\ error' # -1 /\ error' \in -1 .. Len(file)
  BY <1>1, <1>3, NotesError
<1>8. NameIsOpen' /\ SectionIsLast'
  BY <1>1, <1>2, <1>3, <1>4, NamesStay
<1>9. TypeOK' /\ ReaderTypes' /\ Phase' /\ Copied' /\ Judged'
  BY <1>1, <1>6, <1>7, NamesTyped, TurnKeeps
<1> QED BY <1>6, <1>7, <1>8, <1>9 DEF Inv

(* The first bad line is remembered; the entries stay.                     *)
LEMMA BadLineKeeps ==
  ASSUME Inv, BadLine
  PROVE  Inv'
<1> DEFINE n == lineno'
<1>1. Read /\ ~Continues(Line) /\ Line.kind \in {"unclosed", "bare"} /\ _values' = _values
      /\ UNCHANGED <<section, prev_name>> /\ error' = IF error = 0 THEN n ELSE error
  BY DEF BadLine
<1>2. Line = file[n] /\ ~IsContinuation(file, n)
  BY <1>1, ReadsLine
<1>3. IsBad(file, n) /\ ~IsPair(file, n) /\ ~Says(file, n)
  BY <1>1, <1>2 DEF IsPair, IsBad, Says
<1>4. ~Opens(Line) /\ ~Closes(Line)
  BY <1>1 DEF Opens, Closes
<1>5. EntriesKept' /\ \A key \in DOMAIN _values' : _values'[key] \in Seq(Texts)
  BY <1>1, <1>3, KeepsEntries
<1>6. FirstError' /\ error' # -1 /\ error' \in -1 .. Len(file)
  BY <1>1, <1>3, NotesError
<1>7. NameIsOpen' /\ SectionIsLast'
  BY <1>1, <1>3, <1>4, NamesStay
<1>8. TypeOK' /\ ReaderTypes' /\ Phase' /\ Copied' /\ Judged'
  BY <1>1, <1>5, <1>6, NamesTyped, TurnKeeps
<1> QED BY <1>5, <1>6, <1>7, <1>8 DEF Inv

(* A header becomes the section and closes the name.                       *)
LEMMA EnterSectionKeeps ==
  ASSUME Inv, EnterSection
  PROVE  Inv'
<1> DEFINE n == lineno'
<1>1. Read /\ ~Continues(Line) /\ Line.kind = "header" /\ _values' = _values
      /\ section' = strncpy0(Line.name) /\ prev_name' = EmptyName /\ error' = error
  BY DEF EnterSection
<1>2. /\ file' = file /\ n \in Nat \ {0} /\ Line = file[n] /\ Line.name \in Names
      /\ Line.name.word = "" => Line.name = EmptyName
      /\ ~IsContinuation(file, n)
      /\ prev_name # EmptyName <=> IsOpenAt(file, n)
  BY <1>1, ReadsLine
<1>3. ~IsBad(file, n) /\ ~IsPair(file, n) /\ ~Says(file, n)
  BY <1>1, <1>2 DEF IsPair, IsBad, Says
<1>4. ~Opens(Line) /\ (IsOpenAt(file, n) => Closes(Line))
  BY <1>1, <1>2 DEF Opens, Closes, Continues
<1>5. EntriesKept' /\ \A key \in DOMAIN _values' : _values'[key] \in Seq(Texts)
  BY <1>1, <1>3, KeepsEntries
<1>6. FirstError' /\ error' # -1 /\ error' \in -1 .. Len(file)
  BY <1>1, <1>3, NotesError
<1>7. NameIsOpen'
  <2>1. ~IsOpenAt(file, n + 1)
    BY <1>2, <1>4, OpenStep
  <2> QED BY <1>1, <1>2, <2>1, Zenon DEF NameIsOpen
<1>8. SectionIsLast'
  <2>1. Headers(file, n + 1) = Headers(file, n) \cup {n} /\ Headers(file, n) \in SUBSET (1 .. n - 1)
    BY <1>1, <1>2, HeadersStep
  <2>2. Max(Headers(file, n + 1)) = n /\ Headers(file, n + 1) # {}
    <3> DEFINE old == Headers(file, n)
    <3>1. n \in Nat /\ old \in SUBSET (1 .. n - 1) /\ Headers(file, n + 1) = old \cup {n}
      BY <1>2, <2>1
    <3> HIDE DEF n, old
    <3>2. Max(old \cup {n}) = n
      BY <3>1, LaterLine
    <3> QED BY <3>1, <3>2 DEF n
  <2> QED BY <1>1, <1>2, <2>2, Zenon DEF SectionIsLast, KeptSectionOf
<1>9. ~section'.tail /\ ~prev_name'.tail
  BY <1>1, <1>2, NameKept, EmptyNameKept
<1>10. TypeOK' /\ ReaderTypes' /\ Phase' /\ Copied' /\ Judged'
  BY <1>1, <1>5, <1>6, <1>9, TurnKeeps
<1> QED BY <1>5, <1>6, <1>7, <1>8, <1>10 DEF Inv

(* A pair adds to its key and opens its name.                              *)
LEMMA AddPairKeeps ==
  ASSUME Inv, AddPair
  PROVE  Inv'
<1> DEFINE n == lineno'
<1>1. Read /\ ~Continues(Line) /\ Line.kind = "pair" /\ ValueHandler(Line.name, Line.value)
      /\ prev_name' = strncpy0(Line.name) /\ section' = section /\ error' = error
  BY DEF AddPair
<1>2. /\ file' = file /\ n \in Nat \ {0} /\ Line = file[n] /\ Line.name \in Names
      /\ Line.name.word = "" => Line.name = EmptyName
      /\ ~IsContinuation(file, n)
      /\ KeptSectionOf(file, n) = section
      /\ prev_name # EmptyName <=> IsOpenAt(file, n)
  BY <1>1, ReadsLine
<1>3. ~IsBad(file, n) /\ IsPair(file, n) /\ Says(file, n)
  BY <1>1, <1>2 DEF IsPair, IsBad, Says
<1>4. /\ Opens(Line) <=> Line.name # EmptyName
      /\ IsOpenAt(file, n) => (Closes(Line) <=> Line.name = EmptyName)
  BY <1>1, <1>2 DEF Opens, Closes, Continues
<1>5. MakeKey(section, Line.name) = KeptKeyOf(file, n) /\ TextOf(file, n) = Line.value
  BY <1>2, <1>3 DEF KeptKeyOf, TextOf
<1>6. EntriesKept' /\ \A key \in DOMAIN _values' : _values'[key] \in Seq(Texts)
  BY <1>1, <1>3, <1>5, AddsEntry
<1>7. FirstError' /\ error' # -1 /\ error' \in -1 .. Len(file)
  BY <1>1, <1>3, NotesError
<1>8. NameIsOpen'
  <2>1. IsOpenAt(file, n + 1) <=> Line.name # EmptyName
    BY <1>2, <1>4, OpenStep
  <2>2. Pairs(file, n + 1) = Pairs(file, n) \cup {n} /\ Pairs(file, n) \in SUBSET (1 .. n - 1)
    BY <1>2, <1>3, PairsStep
  <2>3. Max(Pairs(file, n + 1)) = n /\ Pairs(file, n + 1) # {}
    <3> DEFINE old == Pairs(file, n)
    <3>1. n \in Nat /\ old \in SUBSET (1 .. n - 1) /\ Pairs(file, n + 1) = old \cup {n}
      BY <1>2, <2>2
    <3> HIDE DEF n, old
    <3>2. Max(old \cup {n}) = n
      BY <3>1, LaterLine
    <3> QED BY <3>1, <3>2 DEF n
  <2>4. prev_name' # EmptyName <=> Line.name # EmptyName
    BY <1>1, <1>2, NameKept
  <2> QED BY <1>1, <1>2, <2>1, <2>3, <2>4, Zenon DEF NameIsOpen
<1>9. SectionIsLast'
  <2>1. Headers(file, n + 1) = Headers(file, n)
    BY <1>1, <1>2, HeadersStep
  <2> QED BY <1>1, <1>2, <2>1, Zenon DEF SectionIsLast, KeptSectionOf
<1>10. ~section'.tail /\ ~prev_name'.tail
  BY <1>1, <1>2, NameKept, NamesTyped
<1>11. TypeOK' /\ ReaderTypes' /\ Phase' /\ Copied' /\ Judged'
  BY <1>1, <1>6, <1>7, <1>10, TurnKeeps
<1> QED BY <1>6, <1>7, <1>8, <1>9, <1>11 DEF Inv
-----------------------------------------------------------------------------
(* The steps of main(), which leave what was read alone.                   *)

LEMMA ReaderStays ==
  ASSUME Inv, UNCHANGED <<file, lineno, section, prev_name, _values>>,
         error' = error \/ error' = -1
  PROVE  ReaderTypes' /\ NameIsOpen' /\ SectionIsLast' /\ FirstError' /\ EntriesKept'
<1>1. ReaderTypes /\ NameIsOpen /\ SectionIsLast /\ FirstError /\ EntriesKept
  BY DEF Inv
<1>2. ReaderTypes'
  BY <1>1 DEF ReaderTypes
<1>3. NameIsOpen'
  BY <1>1, Zenon DEF NameIsOpen
<1>4. SectionIsLast'
  BY <1>1, Zenon DEF SectionIsLast
<1>5. FirstError'
  BY <1>1 DEF FirstError
<1>6. EntriesKept'
  BY <1>1, Zenon DEF EntriesKept
<1> QED BY <1>2, <1>3, <1>4, <1>5, <1>6

(* The whole file has been read.                                           *)
LEMMA EndOfFileKeeps ==
  ASSUME Inv, EndOfFile
  PROVE  Inv'
<1>1. TypeOK /\ Phase /\ state = "parse" /\ state' = "parsed" /\ lineno = Len(file)
      /\ UNCHANGED <<file, lineno, section, prev_name, error, _values, conf>>
  BY DEF Inv, EndOfFile, reader
<1>2. ReaderTypes' /\ NameIsOpen' /\ SectionIsLast' /\ FirstError' /\ EntriesKept'
  BY <1>1, ReaderStays
<1>3. TypeOK' /\ Phase' /\ Copied' /\ Judged'
  BY <1>1 DEF TypeOK, Phase, Copied, Judged
<1> QED BY <1>2, <1>3 DEF Inv

(* The parser starts before the first line.                                *)
LEMMA OpenKeeps ==
  ASSUME Inv, Open
  PROVE  Inv'
<1>1. TypeOK /\ Phase /\ state = "open" /\ state' = "parse"
      /\ UNCHANGED <<file, lineno, section, prev_name, error, _values, conf>>
  BY DEF Inv, Open, reader
<1>2. ReaderTypes' /\ NameIsOpen' /\ SectionIsLast' /\ FirstError' /\ EntriesKept'
  BY <1>1, ReaderStays
<1>3. TypeOK' /\ Phase' /\ Copied' /\ Judged'
  BY <1>1 DEF TypeOK, Phase, Copied, Judged
<1> QED BY <1>2, <1>3 DEF Inv

(* A file that cannot be opened has the error -1 and no entries.           *)
LEMMA OpenFailsKeeps ==
  ASSUME Inv, OpenFails
  PROVE  Inv'
<1>1. TypeOK /\ Phase /\ state = "open" /\ state' = "parsed" /\ error' = -1
      /\ UNCHANGED <<file, lineno, section, prev_name, _values, conf>>
  BY DEF Inv, OpenFails
<1>2. ReaderTypes' /\ NameIsOpen' /\ SectionIsLast' /\ FirstError' /\ EntriesKept'
  BY <1>1, ReaderStays
<1>3. Len(file) \in Nat
  BY FileIs DEF Inv, ReaderTypes
<1>4. TypeOK' /\ Phase' /\ Copied' /\ Judged'
  BY <1>1, <1>3 DEF TypeOK, Phase, Copied, Judged
<1> QED BY <1>2, <1>4 DEF Inv

(* An error ends the program before anything is taken over.                *)
LEMMA RejectKeeps ==
  ASSUME Inv, Reject
  PROVE  Inv'
<1>1. TypeOK /\ Phase /\ state = "parsed" /\ state' = "rejected" /\ error # 0
      /\ UNCHANGED <<file, lineno, section, prev_name, error, _values, conf>>
  BY DEF Inv, Reject, reader
<1>2. ReaderTypes' /\ NameIsOpen' /\ SectionIsLast' /\ FirstError' /\ EntriesKept'
  BY <1>1, ReaderStays
<1>3. TypeOK' /\ Phase' /\ Copied' /\ Judged'
  BY <1>1 DEF TypeOK, Phase, Copied, Judged
<1> QED BY <1>2, <1>3 DEF Inv

(* The first datagram decides on the addresses that were loaded.           *)
LEMMA ServeKeeps ==
  ASSUME Inv, Serve \/ AddressThrows
  PROVE  Inv'
<1>1. TypeOK /\ Phase /\ Copied /\ state = "loaded"
      /\ UNCHANGED <<file, lineno, section, prev_name, error, _values, conf>>
  BY DEF Inv, Serve, AddressThrows, reader
<1>2. ReaderTypes' /\ NameIsOpen' /\ SectionIsLast' /\ FirstError' /\ EntriesKept'
  BY <1>1, ReaderStays
<1>3. state' \in {"serving", "thrown"}
  BY DEF Serve, AddressThrows
<1>4. TypeOK' /\ Phase'
  BY <1>1, <1>3 DEF TypeOK, Phase
<1>5. Judged'
  BY <1>1 DEF Judged, Serve, AddressThrows
<1>6. Copied'
  BY <1>1, <1>3 DEF Copied, Get, GetInteger
<1> QED BY <1>2, <1>4, <1>5, <1>6 DEF Inv

(* GetInteger() reads the number of the first text of the key, if any.     *)
LEMMA NumberIs ==
  ASSUME Inv, NEW key, NEW default_value \in Int
  PROVE  LET texts == KeptTextsFor(file, key, lineno)
         IN  /\ GetInteger(key, default_value) =
                  IF texts # <<>> /\ texts[1].number # NoNumber
                  THEN texts[1].number ELSE default_value
             /\ GetInteger(key, default_value) \in Int
<1> DEFINE texts == KeptTextsFor(file, key, lineno)
<1>1. Get(key, <<>>) = ValueAt(key)
  BY Zenon DEF Get, ValueAt
<1>2. Get(key, <<>>) = texts /\ texts \in Seq(Texts)
  BY <1>1, ValueIs
<1>3. GetInteger(key, default_value) =
        IF texts # <<>> /\ texts[1].number # NoNumber THEN texts[1].number ELSE default_value
  <2> HIDE DEF texts
  <2> QED BY <1>2, Zenon DEF GetInteger
<1>4. texts # <<>> => texts[1] \in Texts
  BY <1>2
<1>5. texts # <<>> /\ texts[1].number # NoNumber => texts[1].number \in Int
  BY <1>4 DEF Texts
<1> HIDE DEF texts
<1>6. GetInteger(key, default_value) \in Int
  BY <1>3, <1>5
<1> QED BY <1>3, <1>6 DEF texts

(* Narrowing fits 16 bits and keeps what fits.                             *)
LEMMA NarrowedFits ==
  ASSUME NEW n \in Int
  PROVE  Narrowed(n) \in uint16_t /\ (n \in uint16_t => Narrowed(n) = n)
<1> DEFINE m == 2 ^ 16
<1>1. m \in Nat /\ m > 0
  OBVIOUS
<1>2. Narrowed(n) = n % m /\ uint16_t = 0 .. m - 1
  BY Zenon DEF Narrowed, uint16_t
<1> HIDE DEF m
<1>3. n % m \in 0 .. m - 1
  BY <1>1
<1>4. n \in 0 .. m - 1 => n % m = n
  BY <1>1
<1> QED BY <1>2, <1>3, <1>4, Zenon

(* Setting tells the three numbers apart.                                  *)
LEMMA SettingIs ==
  ASSUME NEW c
  PROVE  /\ Setting(c, Key("source", "port")) = c.source_port
         /\ Setting(c, Key("destination", "port")) = c.destination_port
         /\ Setting(c, Key("packet", "address")) = c.packet_address
<1>1. \A s, n : Key(s, n)[1].word = s
  BY DEF Key, NameOf
<1>2. /\ Key("destination", "port") # Key("source", "port")
      /\ Key("packet", "address") # Key("source", "port")
      /\ Key("packet", "address") # Key("destination", "port")
  BY <1>1
<1> QED BY <1>2, Zenon DEF Setting

(* The numbers of configuration_t fit 16 bits.                             *)
LEMMA DefaultsFit ==
  /\ Defaults.source_port \in uint16_t /\ Defaults.destination_port \in uint16_t
  /\ Defaults.packet_address \in uint16_t
  /\ \A n \in uint16_t : n \in Int
<1>1. \A n \in uint16_t : n \in Int
  BY DEF uint16_t
<1> QED BY <1>1, DefaultsAssumption

(* The settings are read from the entries of the whole file.               *)
LEMMA LoadKeeps ==
  ASSUME Inv, Load
  PROVE  Inv'
<1>1. TypeOK /\ Phase /\ state = "parsed" /\ state' = "loaded" /\ error = 0 /\ conf = Defaults
      /\ UNCHANGED <<file, lineno, section, prev_name, error, _values>>
  BY DEF Inv, Phase, Load, reader
<1>2. ReaderTypes' /\ NameIsOpen' /\ SectionIsLast' /\ FirstError' /\ EntriesKept'
  BY <1>1, ReaderStays
<1>3. conf' =
      [ source_address      |-> Get(Key("source", "address"), Defaults.source_address),
        source_port         |-> Narrowed(GetInteger(Key("source", "port"), Defaults.source_port)),
        destination_address |-> Get(Key("destination", "address"), Defaults.destination_address),
        destination_port    |-> Narrowed(GetInteger(Key("destination", "port"),
                                                    Defaults.destination_port)),
        packet_address      |-> Narrowed(GetInteger(Key("packet", "address"),
                                                    Defaults.packet_address)) ]
  BY <1>1, Zenon DEF Load
<1>4. conf'.source_port \in uint16_t /\ conf'.destination_port \in uint16_t
      /\ conf'.packet_address \in uint16_t
  <2>1. /\ GetInteger(Key("source", "port"), Defaults.source_port) \in Int
        /\ GetInteger(Key("destination", "port"), Defaults.destination_port) \in Int
        /\ GetInteger(Key("packet", "address"), Defaults.packet_address) \in Int
    BY DefaultsFit, NumberIs
  <2> QED BY <1>3, <2>1, NarrowedFits
<1>5. TypeOK'
  <2>1. \A key \in Settings : Setting(conf', key) \in uint16_t
    BY <1>4, SettingIs DEF Settings
  <2> QED BY <1>1, <2>1 DEF TypeOK
<1>6. Phase'
  BY <1>1 DEF Phase
<1>7. Copied'
  BY <1>1, <1>3 DEF Copied, Get, GetInteger
<1>8. Judged'
  BY <1>1 DEF Judged
<1> QED BY <1>2, <1>5, <1>6, <1>7, <1>8 DEF Inv

(* The invariant holds before the file is opened.                          *)
LEMMA InitHolds ==
  ASSUME Init
  PROVE  Inv
<1>1. file \in Files /\ state = "open" /\ lineno = 0 /\ section = EmptyName /\ prev_name = EmptyName
      /\ error = 0 /\ _values = <<>> /\ conf = Defaults /\ Len(file) \in Nat
  BY FileIs DEF Init
<1>2. TypeOK
  <2>1. \A key \in Settings : Setting(conf, key) \in uint16_t
    BY <1>1, DefaultsFit, SettingIs, Zenon DEF Settings
  <2>2. ~section.tail /\ ~prev_name.tail
    BY <1>1, EmptyNameKept, Zenon
  <2>3. lineno \in 0 .. Len(file) /\ error \in -1 .. Len(file)
    BY <1>1
  <2> QED BY <1>1, <2>1, <2>2, <2>3, Zenon DEF TypeOK
<1>3. 1 .. lineno = {} /\ 1 .. (lineno + 1) - 1 = {} /\ DOMAIN _values = {}
  BY <1>1
<1>4. ReaderTypes
  BY <1>1, <1>3 DEF ReaderTypes
<1>5. Phase /\ Copied /\ Judged
  BY <1>1 DEF Phase, Copied, Judged
<1>6. NameIsOpen
  BY <1>1, <1>3 DEF NameIsOpen, IsOpenAt
<1>7. SectionIsLast
  BY <1>1, <1>3 DEF SectionIsLast, KeptSectionOf, Headers
<1>8. FirstError
  BY <1>1, <1>3 DEF FirstError
<1>9. EntriesKept
  BY <1>3 DEF EntriesKept
<1> QED BY <1>2, <1>4, <1>5, <1>6, <1>7, <1>8, <1>9 DEF Inv

(* A step that changes nothing keeps the invariant.                        *)
LEMMA Stutters ==
  ASSUME Inv, UNCHANGED vars
  PROVE  Inv'
<1>1. TypeOK /\ Phase /\ Copied /\ Judged
      /\ UNCHANGED <<file, state, lineno, section, prev_name, error, _values, conf>>
  BY DEF Inv, vars, reader
<1>2. ReaderTypes' /\ NameIsOpen' /\ SectionIsLast' /\ FirstError' /\ EntriesKept'
  BY <1>1, ReaderStays
<1>3. TypeOK' /\ Phase' /\ Judged'
  BY <1>1 DEF TypeOK, Phase, Judged
<1>4. Copied'
  BY <1>1 DEF Copied, Get, GetInteger
<1> QED BY <1>2, <1>3, <1>4 DEF Inv

(* The invariant holds of every state: each turn of the loop and each step *)
(* of main() keeps it.                                                     *)
THEOREM Invariance == Spec => []Inv
<1>1. Init => Inv
  BY InitHolds
<1>2. Inv /\ [Next]_vars => Inv'
  <2> SUFFICES ASSUME Inv, [Next]_vars
               PROVE  Inv'
    OBVIOUS
  <2>1. CASE Open
    BY <2>1, OpenKeeps
  <2>2. CASE OpenFails
    BY <2>2, OpenFailsKeeps
  <2>3. CASE SkipLine
    BY <2>3, SkipLineKeeps
  <2>4. CASE ContinueValue
    BY <2>4, ContinueValueKeeps
  <2>5. CASE EnterSection
    BY <2>5, EnterSectionKeeps
  <2>6. CASE AddPair
    BY <2>6, AddPairKeeps
  <2>7. CASE BadLine
    BY <2>7, BadLineKeeps
  <2>8. CASE EndOfFile
    BY <2>8, EndOfFileKeeps
  <2>9. CASE Reject
    BY <2>9, RejectKeeps
  <2>10. CASE Load
    BY <2>10, LoadKeeps
  <2>11. CASE Serve \/ AddressThrows
    BY <2>11, ServeKeeps
  <2>12. CASE UNCHANGED vars
    BY <2>12, Stutters
  <2> QED BY <2>1, <2>2, <2>3, <2>4, <2>5, <2>6, <2>7, <2>8, <2>9, <2>10, <2>11, <2>12 DEF Next
<1> QED BY <1>1, <1>2, PTL DEF Spec

(* TypeOK holds: the line number and the error stay within the file and    *)
(* every setting fits the std::uint16_t it is narrowed to.                 *)
THEOREM TypeCorrect == Spec => []TypeOK
<1>1. Inv => TypeOK
  BY DEF Inv
<1> QED BY <1>1, Invariance, PTL

-----------------------------------------------------------------------------
(* What the parser keeps and what the file says of a key that no longer    *)
(* name is cut to.                                                         *)

(* The first pair of a file continues nothing, so that there is one before *)
(* every line that finds a name open.                                      *)
LEMMA OpenHasPair ==
  ASSUME NEW f, NEW n \in Nat, IsOpenAt(f, n)
  PROVE  Pairs(f, n) \in SUBSET Nat /\ Pairs(f, n) # {} /\ Max(Pairs(f, n)) \in 1 .. n - 1
<1> DEFINE P == {j \in 1 .. n - 1 : f[j].kind = "pair"}
           first == Min(P)
<1>1. P # {} /\ P \in SUBSET Nat
  BY DEF IsOpenAt
<1>2. first \in P /\ \A j \in P : first <= j
  BY <1>1, LeastIs
<1>3. ~IsOpenAt(f, first)
  <2> SUFFICES ASSUME NEW j \in 1 .. first - 1, f[j].kind = "pair"
               PROVE  FALSE
    BY DEF IsOpenAt
  <2>1. first \in 1 .. n - 1
    BY <1>2
  <2> HIDE DEF first
  <2>2. j \in 1 .. n - 1 /\ ~(first <= j)
    BY <2>1
  <2> QED BY <1>2, <2>2
<1>4. IsPair(f, first)
  BY <1>2, <1>3 DEF IsPair, IsContinuation
<1>5. first \in Pairs(f, n)
  BY <1>2, <1>4 DEF Pairs
<1>6. Pairs(f, n) \in SUBSET (1 .. n - 1)
  BY DEF Pairs
<1> DEFINE S == Pairs(f, n)
<1>7. S # {} /\ S \in SUBSET (1 .. n - 1)
  BY <1>5, <1>6
<1> HIDE DEF S
<1>8. Max(S) \in S
  BY <1>7, GreatestIs
<1> QED BY <1>7, <1>8 DEF S

(* Cutting a name changes no name that could be told from a cut one.       *)
LEMMA CutTells ==
  ASSUME NEW f \in Files, NEW i \in 1 .. Len(f)
  PROVE  /\ strncpy0(f[i].name).word = f[i].name.word
         /\ f[i].name.word \notin CutWords(f) => strncpy0(f[i].name) = f[i].name
<1>1. f \in Seq(Lines) /\ DOMAIN f = 1 .. Len(f) /\ f[i].name \in Names
  <2>1. f \in Seq(Lines) /\ f[i].name \in Names
    BY FileIs
  <2> QED BY <2>1
<1>2. strncpy0(f[i].name).word = f[i].name.word
  BY <1>1 DEF strncpy0, Names
<1>3. f[i].name.word \notin CutWords(f) => f[i].name.tail = FALSE
  BY <1>1 DEF CutWords, Names
<1>4. f[i].name.tail = FALSE => strncpy0(f[i].name) = f[i].name
  BY <1>1, NoTailKept DEF Names
<1> QED BY <1>2, <1>3, <1>4

(* What a section or a name may be, the empty one included.                *)
AnyNames == [word : STRING \cup {""}, upper : BOOLEAN, tail : BOOLEAN]

LEMMA AreNames ==
  EmptyName \in AnyNames /\ \A name \in Names : name \in AnyNames /\ strncpy0(name) \in AnyNames
<1> DEFINE w == ""
           W == STRING \cup {w}
<1>1. EmptyName = NameOf(w) /\ AnyNames = [word : W, upper : BOOLEAN, tail : BOOLEAN]
  BY Zenon DEF EmptyName, AnyNames
<1>2. w \in W /\ STRING \subseteq W
  OBVIOUS
<1> HIDE DEF w, W
<1>3. NameOf(w) \in [word : W, upper : BOOLEAN, tail : BOOLEAN]
  BY <1>2 DEF NameOf
<1>4. \A name \in Names : name \in [word : W, upper : BOOLEAN, tail : BOOLEAN]
  BY <1>2 DEF Names
<1>5. \A name \in Names : strncpy0(name) \in [word : W, upper : BOOLEAN, tail : BOOLEAN]
  BY <1>2 DEF Names, strncpy0
<1> QED BY <1>1, <1>3, <1>4, <1>5

(* A key and the names it is made of have the same words.                  *)
LEMMA KeyWords ==
  ASSUME NEW s \in AnyNames, NEW name \in AnyNames
  PROVE  MakeKey(s, name)[1].word = s.word /\ MakeKey(s, name)[2].word = name.word
BY DEF MakeKey, AnyNames

(* The key a line's text goes to is the line's, when either is uncut.      *)
LEMMA KeysAgree ==
  ASSUME NEW f \in Files, NEW i \in 1 .. Len(f), Says(f, i), NEW key, IsUncut(f, key)
  PROVE  KeptKeyOf(f, i) = key <=> KeyOf(f, i) = key
<1> DEFINE s == SectionOf(f, i)
           t == KeptSectionOf(f, i)
           p == IF IsPair(f, i) THEN i ELSE Max(Pairs(f, i))
           name == f[p].name
           kept == IF IsPair(f, i) THEN name ELSE strncpy0(name)
<1>1. i \in Nat /\ Len(f) \in Nat
  <2>1. Len(f) \in Nat
    BY FileIs
  <2> QED BY <2>1
<1>2. p \in 1 .. Len(f)
  <2>1. CASE IsPair(f, i)
    BY <2>1
  <2>2. CASE ~IsPair(f, i)
    <3>1. IsOpenAt(f, i)
      BY <2>2 DEF Says, IsContinuation
    <3>2. Max(Pairs(f, i)) \in 1 .. i - 1
      BY <1>1, <3>1, OpenHasPair
    <3> QED BY <1>1, <2>2, <3>2
  <2> QED BY <2>1, <2>2
<1>3. name \in AnyNames /\ kept \in AnyNames /\ kept.word = name.word
      /\ (name.word \notin CutWords(f) => kept = name)
  <2>1. name \in Names
    BY <1>2, FileIs
  <2>2. strncpy0(name).word = name.word /\ (name.word \notin CutWords(f) => strncpy0(name) = name)
    BY <1>2, CutTells
  <2>3. name \in AnyNames /\ strncpy0(name) \in AnyNames
    BY <2>1, AreNames
  <2> HIDE DEF name
  <2> QED BY <2>1, <2>2, <2>3
<1>4. s \in AnyNames /\ t \in AnyNames /\ t.word = s.word /\ (s.word \notin CutWords(f) => t = s)
  <2>1. CASE Headers(f, i) = {}
    <3>1. s = EmptyName /\ t = EmptyName
      BY <2>1 DEF SectionOf, KeptSectionOf
    <3> QED BY <3>1, AreNames
  <2>2. CASE Headers(f, i) # {}
    <3> DEFINE h == Max(Headers(f, i))
               header == f[h].name
    <3>1. s = header /\ t = strncpy0(header)
      BY <2>2 DEF SectionOf, KeptSectionOf
    <3>2. h \in 1 .. Len(f)
      <4> DEFINE S == Headers(f, i)
      <4>1. S # {} /\ S \in SUBSET (1 .. i - 1)
        BY <2>2 DEF Headers
      <4> HIDE DEF S
      <4>2. Max(S) \in S
        BY <1>1, <4>1, GreatestIs
      <4>3. Max(S) \in 1 .. i - 1
        BY <4>1, <4>2
      <4> QED BY <1>1, <4>3 DEF S
    <3>3. header \in Names
      BY <3>2, FileIs
    <3>4. strncpy0(header).word = header.word
          /\ (header.word \notin CutWords(f) => strncpy0(header) = header)
      BY <3>2, CutTells
    <3>5. header \in AnyNames /\ strncpy0(header) \in AnyNames
      BY <3>3, AreNames
    <3> HIDE DEF header
    <3> QED BY <3>1, <3>3, <3>4, <3>5
  <2> QED BY <2>1, <2>2
<1>5. KeyOf(f, i) = MakeKey(s, name) /\ KeptKeyOf(f, i) = MakeKey(t, kept)
  <2>1. KeyOf(f, i) = MakeKey(s, IF IsPair(f, i) THEN f[i].name ELSE f[Max(Pairs(f, i))].name)
    BY DEF KeyOf
  <2>2. KeptKeyOf(f, i) =
          MakeKey(t, IF IsPair(f, i) THEN f[i].name ELSE strncpy0(f[Max(Pairs(f, i))].name))
    BY DEF KeptKeyOf
  <2> HIDE DEF s, t
  <2>3. CASE IsPair(f, i)
    BY <2>1, <2>2, <2>3
  <2>4. CASE ~IsPair(f, i)
    BY <2>1, <2>2, <2>4
  <2> QED BY <2>3, <2>4
<1>6. key[1].word \notin CutWords(f) /\ key[2].word \notin CutWords(f)
  BY DEF IsUncut
<1> HIDE DEF s, t, name, kept
<1>7. /\ MakeKey(s, name)[1].word = s.word /\ MakeKey(s, name)[2].word = name.word
      /\ MakeKey(t, kept)[1].word = s.word /\ MakeKey(t, kept)[2].word = name.word
  BY <1>3, <1>4, KeyWords
<1>8. CASE s.word \notin CutWords(f) /\ name.word \notin CutWords(f)
  BY <1>3, <1>4, <1>5, <1>8
<1>9. CASE s.word \in CutWords(f) \/ name.word \in CutWords(f)
  <2>1. MakeKey(s, name) # key /\ MakeKey(t, kept) # key
    BY <1>6, <1>7, <1>9
  <2> QED BY <1>5, <2>1
<1> QED BY <1>8, <1>9

(* An uncut key has the texts the file gives it.                           *)
LEMMA TextsAgree ==
  ASSUME NEW f \in Files, NEW n \in 0 .. Len(f), NEW key, IsUncut(f, key)
  PROVE  /\ KeptLinesFor(f, key, n) = LinesFor(f, key, n)
         /\ KeptTextsFor(f, key, n) = TextsFor(f, key, n)
<1>1. Len(f) \in Nat
  BY FileIs
<1>2. \A i \in 1 .. n : i \in 1 .. Len(f)
  BY <1>1
<1>3. \A i \in 1 .. n : Says(f, i) => (KeptKeyOf(f, i) = key <=> KeyOf(f, i) = key)
  BY <1>2, KeysAgree
<1>4. KeptLinesFor(f, key, n) = LinesFor(f, key, n)
  BY <1>3 DEF KeptLinesFor, LinesFor
<1>5. KeptTextsFor(f, key, n) = TextsFor(f, key, n)
  BY <1>4, Zenon DEF KeptTextsFor, TextsFor
<1> QED BY <1>4, <1>5

(* The keys main() asks for are uncut.                                     *)
LEMMA SettingsUncut ==
  ASSUME NEW f \in Files, NEW s \in SettingWords, NEW name \in SettingWords
  PROVE  IsUncut(f, Key(s, name))
<1>1. Key(s, name)[1].word = s /\ Key(s, name)[2].word = name
  BY DEF Key, NameOf
<1>2. SettingWords \cap CutWords(f) = {}
  <2>1. \A j \in DOMAIN f : f[j].name.tail => f[j].name.word \notin SettingWords
    BY FilesAssumption
  <2> HIDE DEF SettingWords
  <2> QED BY <2>1 DEF CutWords
<1> QED BY <1>1, <1>2 DEF IsUncut

(* EntriesFollowFile holds: each string of the values map is what the      *)
(* whole of the file read so far says of its key, sections, continuation   *)
(* lines, case and repetitions included, unless the key is one that a      *)
(* longer name of the file is cut to.                                      *)
THEOREM EntriesAsWritten == Spec => []EntriesFollowFile
<1>1. ASSUME Inv
      PROVE  EntriesFollowFile
  <2>1. EntriesKept /\ file \in Files /\ lineno \in 0 .. Len(file)
    BY <1>1 DEF Inv, ReaderTypes, TypeOK
  <2>2. \A i \in 1 .. lineno : i \in 1 .. Len(file)
    <3>1. Len(file) \in Nat
      BY <2>1, FileIs
    <3> QED BY <2>1, <3>1
  <2>3. ASSUME NEW i \in 1 .. lineno, Says(file, i), IsUncut(file, KeyOf(file, i))
        PROVE  KeyOf(file, i) \in DOMAIN _values
    <3>1. KeptKeyOf(file, i) = KeyOf(file, i)
      BY <2>1, <2>2, <2>3, KeysAgree
    <3> QED BY <2>1, <2>3, <3>1 DEF EntriesKept
  <2>4. ASSUME NEW key \in DOMAIN _values, IsUncut(file, key)
        PROVE  /\ LinesFor(file, key, lineno) # {}
               /\ _values[key] = TextsFor(file, key, lineno)
    <3>1. /\ KeptLinesFor(file, key, lineno) = LinesFor(file, key, lineno)
          /\ KeptTextsFor(file, key, lineno) = TextsFor(file, key, lineno)
      BY <2>1, <2>4, TextsAgree
    <3> QED BY <2>1, <2>4, <3>1 DEF EntriesKept
  <2> QED BY <2>3, <2>4 DEF EntriesFollowFile
<1> QED BY <1>1, Invariance, PTL

(* ErrorIsFirstBadLine holds: parsing does not stop at a bad line, main()  *)
(* is told the first, and it takes nothing over from such a file.          *)
THEOREM FirstBadLineIsReported == Spec => []ErrorIsFirstBadLine
<1>1. ASSUME Inv
      PROVE  ErrorIsFirstBadLine
  <2> DEFINE bad == {i \in 1 .. lineno : IsBad(file, i)}
  <2>1. Phase /\ (error # -1 => error = IF bad = {} THEN 0 ELSE Min(bad))
    BY <1>1 DEF Inv, FirstError
  <2>2. bad # {} => Min(bad) \in bad
    <3>1. bad \in SUBSET Nat
      OBVIOUS
    <3> QED BY <3>1, LeastIs
  <2>3. bad # {} => Min(bad) # 0
    BY <2>2
  <2> HIDE DEF bad
  <2>4. state \in {"loaded", "serving", "thrown"} => lineno = Len(file) /\ bad = {}
    BY <2>1, <2>3 DEF Phase
  <2>5. state = "rejected" => conf = Defaults /\ (bad # {} \/ error = -1)
    BY <2>1 DEF Phase
  <2> QED BY <2>1, <2>4, <2>5, Zenon DEF ErrorIsFirstBadLine, bad
<1> QED BY <1>1, Invariance, PTL

(* SettingsAsWritten holds: a port or a packet address the file gives once *)
(* as an integer of 16 bits is that integer, and one it does not give, or  *)
(* not as a number, is the default.                                        *)
THEOREM SettingsFollowFile == Spec => []SettingsAsWritten
<1>1. ASSUME Inv
      PROVE  SettingsAsWritten
  <2> SUFFICES ASSUME state \in {"loaded", "serving", "thrown"}
               PROVE  SettingsAsWritten
    BY Zenon DEF SettingsAsWritten
  <2>1. lineno = Len(file) /\ Copied /\ file \in Files /\ lineno \in 0 .. Len(file)
    BY <1>1 DEF Inv, Phase, ReaderTypes, TypeOK
  <2> DEFINE texts(key) == TextsFor(file, key, Len(file))
             n(key, d) == GetInteger(key, d)
             given(key) == texts(key) # <<>> /\ texts(key)[1].number # NoNumber
             right(key) ==
               /\ IsInteger(texts(key)) /\ texts(key)[1].number \in uint16_t =>
                    Setting(conf, key) = texts(key)[1].number
               /\ texts(key) = <<>> \/ texts(key)[1].number = NoNumber =>
                    Setting(conf, key) = Setting(Defaults, key)
  <2>2. \A key : IsUncut(file, key) => \A d \in Int :
          /\ n(key, d) = IF given(key) THEN texts(key)[1].number ELSE d
          /\ n(key, d) \in Int
    <3> SUFFICES ASSUME NEW key, IsUncut(file, key), NEW d \in Int
                 PROVE  /\ n(key, d) = IF given(key) THEN texts(key)[1].number ELSE d
                        /\ n(key, d) \in Int
      OBVIOUS
    <3>1. KeptTextsFor(file, key, lineno) = texts(key)
      BY <2>1, TextsAgree
    <3>2. LET kept == KeptTextsFor(file, key, lineno)
          IN  /\ n(key, d) = IF kept # <<>> /\ kept[1].number # NoNumber
                             THEN kept[1].number ELSE d
              /\ n(key, d) \in Int
      BY <1>1, NumberIs
    <3> QED BY <3>1, <3>2
  <2>3. /\ conf.source_port = Narrowed(n(Key("source", "port"), Defaults.source_port))
        /\ conf.destination_port =
             Narrowed(n(Key("destination", "port"), Defaults.destination_port))
        /\ conf.packet_address = Narrowed(n(Key("packet", "address"), Defaults.packet_address))
    BY <2>1 DEF Copied
  <2>4. \A key \in Settings : IsUncut(file, key)
    BY <2>1, SettingsUncut DEF Settings, SettingWords
  <2>5. ASSUME NEW key \in Settings, NEW d \in uint16_t, Setting(Defaults, key) = d,
               Setting(conf, key) = Narrowed(n(key, d))
        PROVE  right(key)
    <3>1. d \in Int /\ Narrowed(d) = d
      BY DefaultsFit, NarrowedFits
    <3>2. n(key, d) = IF given(key) THEN texts(key)[1].number ELSE d
      BY <2>2, <2>4, <3>1
    <3>3. n(key, d) \in Int
      BY <2>2, <2>4, <3>1
    <3>4. n(key, d) \in uint16_t => Narrowed(n(key, d)) = n(key, d)
      BY <3>3, NarrowedFits
    <3>5. IsInteger(texts(key)) => given(key)
      <4>1. IsInteger(texts(key)) => Len(texts(key)) = 1 /\ texts(key)[1].number # NoNumber
        BY DEF IsInteger
      <4>2. Len(<<>>) = 0
        OBVIOUS
      <4> HIDE DEF texts
      <4> QED BY <4>1, <4>2
    <3> HIDE DEF n, texts
    <3> QED BY <2>5, <3>1, <3>2, <3>4, <3>5
  <2> HIDE DEF n, right
  <2>6. \A key \in Settings : right(key)
    BY <2>3, <2>5, DefaultsFit, SettingIs, Zenon DEF Settings
  <2> QED BY <2>6, Zenon DEF SettingsAsWritten, right
<1> QED BY <1>1, Invariance, PTL

(* ServesOnlyCleanAddresses holds: the first datagram is built exactly     *)
(* when neither address is given twice or otherwise than in dotted form.   *)
THEOREM OnlyCleanAddressesServe == Spec => []ServesOnlyCleanAddresses
<1>1. ASSUME Inv
      PROVE  ServesOnlyCleanAddresses
  <2> DEFINE clean(key) == \/ LinesFor(file, key, Len(file)) = {}
                           \/ /\ Len(TextsFor(file, key, Len(file))) = 1
                              /\ TextsFor(file, key, Len(file))[1].quad
             source == Key("source", "address")
             destination == Key("destination", "address")
  <2>1. state \in {"serving", "thrown"} =>
          /\ lineno = Len(file)
          /\ conf.source_address = Get(source, Defaults.source_address)
          /\ conf.destination_address = Get(destination, Defaults.destination_address)
    BY <1>1 DEF Inv, Phase, Copied
  <2>2. ASSUME lineno = Len(file), NEW key, IsUncut(file, key), NEW address, Parses(address)
        PROVE  Parses(Get(key, address)) <=> clean(key)
    <3>0. /\ KeptLinesFor(file, key, lineno) = LinesFor(file, key, Len(file))
          /\ KeptTextsFor(file, key, lineno) = TextsFor(file, key, Len(file))
      <4>1. file \in Files /\ lineno \in 0 .. Len(file)
        BY <1>1 DEF Inv, ReaderTypes, TypeOK
      <4> QED BY <2>2, <4>1, TextsAgree
    <3>1. CASE key \in DOMAIN _values
      <4>1. Get(key, address) = TextsFor(file, key, Len(file))
        BY <1>1, <3>0, <3>1, ValueIs, Zenon DEF Get, ValueAt
      <4>2. LinesFor(file, key, Len(file)) # {}
        BY <1>1, <3>0, <3>1, ValueIs
      <4> QED BY <4>1, <4>2, Zenon DEF Parses
    <3>2. CASE key \notin DOMAIN _values
      <4>1. Get(key, address) = address
        BY <3>2 DEF Get
      <4>2. LinesFor(file, key, Len(file)) = {}
        BY <1>1, <3>0, <3>2, ValueIs
      <4> QED BY <2>2, <4>1, <4>2
    <3> QED BY <3>1, <3>2
  <2>3. Judged /\ Parses(Defaults.source_address) /\ Parses(Defaults.destination_address)
    BY <1>1, DefaultsAssumption DEF Inv
  <2>6. IsUncut(file, source) /\ IsUncut(file, destination)
    <3>1. file \in Files
      BY <1>1 DEF Inv, ReaderTypes
    <3> QED BY <3>1, SettingsUncut DEF SettingWords
  <2> HIDE DEF source, destination, clean
  <2>4. state \in {"serving", "thrown"} =>
          /\ Parses(conf.source_address) <=> clean(source)
          /\ Parses(conf.destination_address) <=> clean(destination)
    BY <2>1, <2>2, <2>3, <2>6
  <2>5. /\ state = "serving" => clean(source) /\ clean(destination)
        /\ state = "thrown" => ~(clean(source) /\ clean(destination))
    BY <2>3, <2>4 DEF Judged
  <2> QED BY <2>5, Zenon DEF ServesOnlyCleanAddresses, clean, source, destination
<1> QED BY <1>1, Invariance, PTL
=============================================================================
