--------------------------- MODULE EventLogProofs ---------------------------
(***************************************************************************)
(* Proofs about EventLog, for any number of writers, of reviews and of     *)
(* months, and any size at which the active file is rotated: how much      *)
(* overlapping reviews can spoil, that reviews one after the other lose    *)
(* nothing, and that they are read back in the order in which they were    *)
(* logged.                                                                 *)
(***************************************************************************)
EXTENDS EventLog, Induction, SequenceTheorems

Tokens == Events \cup {Newline}
Contents == Seq(Tokens)

\* The places of the events that cannot be read, and the events that can.
Spoilt(content) == {i \in DOMAIN content : content[i] # Newline /\ ~Parsable(content, i)}
Lines(content) == {content[i] : i \in {j \in DOMAIN content : Parsable(content, j)}}

OnDisk == Lines(active) \cup UNION {Lines(rotated[m]) : m \in Months}
Logged == {logged[i] : i \in DOMAIN logged}

-----------------------------------------------------------------------------
(* The invariant. *)

\* TypeOK in parts, with the shape of what a writer has at hand.
FilesType ==
    /\ active \in Contents /\ rotated \in [Months -> Contents]
    /\ active # <<>> => inode # 0
CountType ==
    /\ created \in Nat /\ inode \in Nat /\ inode <= created
    /\ month \in Months
    /\ started \in Nat /\ started <= MaxEvents
LogType == logged \in Seq(Events) /\ failed \subseteq Events
FlagType == killed \in BOOLEAN /\ overlapped \in BOOLEAN

Locals == [event : Events \cup {0}, stamp : Months, data : Contents, sep : {<<>>, <<Newline>>}, file : Nat]
LocalType ==
    /\ pc \in [Writers -> {"idle", "read", "openRotated", "writeRotated", "unlink", "open", "write"}]
    /\ local \in [Writers -> Locals]
    /\ \A w \in Writers :
          /\ pc[w] # "idle" => local[w].event \in Events
          /\ pc[w] = "write" => local[w].file # 0 /\ local[w].file <= created

TypeInv == FilesType /\ CountType /\ LogType /\ FlagType /\ LocalType

\* The writers that opened the active file while it was empty, and will write
\* into it without a separator.
Late == {w \in Writers : pc[w] = "write" /\ local[w].file = inode /\ local[w].sep = <<>>}

\* One of them was the first to write; each other may still spoil its own event
\* and the one before it.
SpoiltInv ==
    active # <<>> => Cardinality(Spoilt(active)) + 2 * Cardinality(Late) <= 2 * (Cardinality(Writers) - 1)

\* What is in a file, or on its way from one file to the other, was logged.
LoggedContents == Seq(Logged \cup {Newline})
OnlyLogged ==
    /\ active \in LoggedContents
    /\ \A m \in Months : rotated[m] \in LoggedContents
    /\ \A w \in Writers : local[w].data \in LoggedContents

\* The writer that no other overlaps finds the files as it left them.
OneAtATime == ~overlapped => \A v, w \in Writers : pc[v] # "idle" /\ pc[w] # "idle" => v = w

Halfway(w) ==
    /\ pc[w] \in {"openRotated", "writeRotated"} => local[w].data = active
    /\ pc[w] = "writeRotated" => local[w].sep = Separator(rotated[local[w].stamp])
    /\ pc[w] = "unlink" => Lines(active) \subseteq Lines(rotated[local[w].stamp])
    /\ pc[w] = "write" => local[w].file = inode /\ local[w].sep = Separator(active)
Serial == ~overlapped => \A w \in Writers : Halfway(w)

Kept == ~overlapped => Logged \subseteq OnDisk

IInv == TypeInv /\ SpoiltInv /\ OnlyLogged /\ OneAtATime /\ Serial /\ Kept

\* Reviews one after the other, killed or not, in a rotation or not: the events
\* that can be read, from either file, are the events that were logged.
SerialLogIsKept == ~overlapped => OnDisk = Logged

-----------------------------------------------------------------------------
(* What joining two contents does to their lines. *)

LEMMA TokensOfContent ==
    ASSUME NEW s \in Contents
    PROVE  /\ Len(s) \in Nat /\ DOMAIN s = 1..Len(s)
           /\ \A i \in 1..Len(s) : s[i] \in Tokens
           /\ s # <<>> => Len(s) > 0
           /\ s = <<>> => Len(s) = 0
  BY LenProperties, EmptySeq, ElementOfSeq DEF Contents

LEMMA Separated ==
    ASSUME NEW s \in Contents, NEW t \in Contents
    PROVE  LET u == s \o <<Newline>> \o t
           IN  /\ u \in Contents
               /\ Len(u) = Len(s) + 1 + Len(t)
               /\ \A i \in 1..Len(s) : u[i] = s[i]
               /\ u[Len(s) + 1] = Newline
               /\ \A i \in 1..Len(t) : u[Len(s) + 1 + i] = t[i]
  <1> DEFINE n == <<Newline>>
             r == s \o n
             u == r \o t
  <1>1. n \in Contents /\ Len(n) = 1 /\ n[1] = Newline
    BY DEF Contents, Tokens
  <1>2. /\ r \in Contents /\ Len(r) = Len(s) + 1
        /\ \A i \in 1..Len(s) : r[i] = s[i]
        /\ r[Len(s) + 1] = Newline
    <2>1. /\ r \in Contents /\ Len(r) = Len(s) + Len(n)
          /\ \A i \in 1..(Len(s) + Len(n)) : r[i] = IF i <= Len(s) THEN s[i] ELSE n[i - Len(s)]
      BY <1>1, ConcatProperties DEF Contents
    <2> HIDE DEF n, r
    <2>2. QED
      BY <1>1, <2>1, TokensOfContent
  <1>3. /\ u \in Contents /\ Len(u) = Len(r) + Len(t)
        /\ \A i \in 1..(Len(r) + Len(t)) : u[i] = IF i <= Len(r) THEN r[i] ELSE t[i - Len(r)]
    BY <1>2, ConcatProperties DEF Contents
  <1>4. u = s \o <<Newline>> \o t
    OBVIOUS
  <1> HIDE DEF n, r, u
  <1>5. Len(s) \in Nat /\ Len(t) \in Nat
    BY TokensOfContent
  <1>6. /\ Len(u) = Len(s) + 1 + Len(t)
        /\ \A i \in 1..Len(s) : u[i] = s[i]
        /\ u[Len(s) + 1] = Newline
    BY <1>2, <1>3, <1>5
  <1>7. \A i \in 1..Len(t) : u[Len(s) + 1 + i] = t[i]
    BY <1>2, <1>3, <1>5
  <1>8. QED
    BY <1>3, <1>4, <1>6, <1>7

\* The separator that _append_file chose for this content keeps the lines of
\* both.
LEMMA SeparatedLines ==
    ASSUME NEW s \in Contents, NEW t \in Contents
    PROVE  /\ s \o Separator(s) \o t \in Contents
           /\ Lines(s) \cup Lines(t) \subseteq Lines(s \o Separator(s) \o t)
  <1>1. CASE s = <<>>
    <2>1. s \o Separator(s) \o t = t
      BY <1>1, ConcatEmptySeq DEF Separator, Contents
    <2>2. Lines(s) = {}
      BY <1>1 DEF Lines
    <2>3. QED
      BY <2>1, <2>2
  <1>2. CASE s # <<>>
    <2> DEFINE u == s \o <<Newline>> \o t
    <2>1. s \o Separator(s) \o t = u
      BY <1>2 DEF Separator
    <2>2. /\ u \in Contents /\ DOMAIN u = 1..Len(u)
          /\ Len(u) = Len(s) + 1 + Len(t)
          /\ \A i \in 1..Len(s) : u[i] = s[i]
          /\ u[Len(s) + 1] = Newline
          /\ \A i \in 1..Len(t) : u[Len(s) + 1 + i] = t[i]
      BY Separated, TokensOfContent
    <2>3. /\ Len(s) \in Nat /\ DOMAIN s = 1..Len(s)
          /\ Len(t) \in Nat /\ DOMAIN t = 1..Len(t)
      BY TokensOfContent
    <2> HIDE DEF u
    <2>4. \A i \in DOMAIN s : Parsable(s, i) => i \in DOMAIN u /\ Parsable(u, i) /\ u[i] = s[i]
      BY <2>2, <2>3 DEF Parsable
    <2>5. \A i \in DOMAIN t : Parsable(t, i) =>
             LET k == Len(s) + 1 + i IN k \in DOMAIN u /\ Parsable(u, k) /\ u[k] = t[i]
      <3> SUFFICES ASSUME NEW i \in DOMAIN t, Parsable(t, i)
                   PROVE  LET k == Len(s) + 1 + i IN k \in DOMAIN u /\ Parsable(u, k) /\ u[k] = t[i]
        OBVIOUS
      <3> DEFINE k == Len(s) + 1 + i
      <3>0. /\ i \in 1..Len(t) /\ t[i] # Newline
            /\ i > 1 => t[i - 1] = Newline
            /\ i < Len(t) => t[i + 1] = Newline
        BY <2>3 DEF Parsable
      <3>1. k \in DOMAIN u /\ u[k] = t[i] /\ t[i] # Newline
        <4>1. k \in 1..Len(u)
          BY <3>0, <2>2, <2>3
        <4>2. QED
          BY <3>0, <4>1, <2>2
      <3>2. k > 1 => u[k - 1] = Newline
        <4>1. CASE i = 1
          BY <4>1, <2>2, <2>3
        <4>2. CASE i > 1
          <5>1. i - 1 \in 1..Len(t) /\ t[i - 1] = Newline /\ k - 1 = Len(s) + 1 + (i - 1)
            BY <4>2, <3>0, <2>3
          <5>2. QED
            BY <5>1, <2>2
        <4>3. QED
          BY <4>1, <4>2, <3>0, <2>3
      <3>3. k < Len(u) => u[k + 1] = Newline
        <4>1. SUFFICES ASSUME k < Len(u) PROVE u[k + 1] = Newline
          OBVIOUS
        <4>2. i + 1 \in 1..Len(t) /\ t[i + 1] = Newline /\ k + 1 = Len(s) + 1 + (i + 1)
          BY <4>1, <3>0, <2>2, <2>3
        <4>3. QED
          BY <4>2, <2>2
      <3>4. QED
        BY <3>1, <3>2, <3>3 DEF Parsable
    <2>6. Lines(s) \subseteq Lines(u)
      BY <2>4 DEF Lines
    <2>7. Lines(t) \subseteq Lines(u)
      BY <2>5 DEF Lines
    <2>8. QED
      BY <2>1, <2>2, <2>6, <2>7
  <1>3. QED
    BY <1>1, <1>2

\* An event on its own is a line.
LEMMA OneLine ==
    ASSUME NEW e \in Events
    PROVE  <<e>> \in Contents /\ Len(<<e>>) = 1 /\ <<e>>[1] = e /\ Lines(<<e>>) = {e} /\ e # Newline
  <1>1. <<e>> \in Contents /\ Len(<<e>>) = 1 /\ <<e>>[1] = e /\ e # Newline /\ DOMAIN <<e>> = {1}
    BY EventLogAssumption DEF Contents, Tokens, Events, Newline
  <1>2. \A i : i \in DOMAIN <<e>> => i = 1 /\ Parsable(<<e>>, i)
    BY <1>1 DEF Parsable
  <1>3. QED
    BY <1>1, <1>2 DEF Lines

-----------------------------------------------------------------------------
(* What joining spoils. *)

LEMMA SpoiltFinite ==
    ASSUME NEW s \in Contents
    PROVE  IsFiniteSet(Spoilt(s)) /\ Cardinality(Spoilt(s)) \in Nat
  <1>1. Len(s) \in Int /\ Spoilt(s) \in SUBSET (1..Len(s))
    BY TokensOfContent DEF Spoilt
  <1>2. IsFiniteSet(1..Len(s))
    BY <1>1, FS_Interval
  <1>3. IsFiniteSet(Spoilt(s))
    BY <1>1, <1>2, FS_Subset
  <1>4. QED
    BY <1>3, FS_CardinalityType

LEMMA SpoiltSeparated ==
    ASSUME NEW s \in Contents, NEW e \in Events
    PROVE  Cardinality(Spoilt(s \o <<Newline>> \o <<e>>)) <= Cardinality(Spoilt(s))
  <1> DEFINE u == s \o <<Newline>> \o <<e>>
  <1>1. /\ u \in Contents /\ DOMAIN u = 1..Len(u)
        /\ Len(u) = Len(s) + 2
        /\ \A i \in 1..Len(s) : u[i] = s[i]
        /\ u[Len(s) + 1] = Newline
        /\ u[Len(s) + 2] = e
    <2>1. /\ u \in Contents /\ DOMAIN u = 1..Len(u)
          /\ Len(u) = Len(s) + 1 + Len(<<e>>)
          /\ \A i \in 1..Len(s) : u[i] = s[i]
          /\ u[Len(s) + 1] = Newline
          /\ \A i \in 1..Len(<<e>>) : u[Len(s) + 1 + i] = <<e>>[i]
      BY OneLine, Separated, TokensOfContent
    <2> HIDE DEF u
    <2>2. Len(s) + 1 + 1 = Len(s) + 2 /\ 1 \in 1..Len(<<e>>)
      BY TokensOfContent, OneLine
    <2>3. QED
      BY <2>1, <2>2, OneLine
  <1>2. Len(s) \in Nat /\ DOMAIN s = 1..Len(s)
    BY TokensOfContent
  <1> HIDE DEF u
  <1>3. Spoilt(u) \in SUBSET Spoilt(s)
    <2> SUFFICES ASSUME NEW i \in 1..Len(u), u[i] # Newline, ~Parsable(u, i)
                 PROVE  i \in Spoilt(s)
      BY <1>1 DEF Spoilt
    <2>1. i # Len(s) + 1
      BY <1>1
    <2>2. i # Len(s) + 2
      <3>1. Parsable(u, Len(s) + 2) <=> e # Newline
        BY <1>1, <1>2 DEF Parsable
      <3>2. QED
        BY <3>1, OneLine
    <2>3. i \in 1..Len(s)
      BY <1>1, <1>2, <2>1, <2>2
    <2>4. Parsable(s, i) => Parsable(u, i)
      BY <1>1, <1>2, <2>3 DEF Parsable
    <2>5. QED
      BY <1>1, <1>2, <2>3, <2>4 DEF Spoilt
  <1>4. QED
    BY <1>3, SpoiltFinite, FS_Subset DEF u

LEMMA TwoMore ==
    ASSUME NEW S, IsFiniteSet(S), NEW x, NEW y
    PROVE  /\ IsFiniteSet((S \cup {x}) \cup {y})
           /\ Cardinality((S \cup {x}) \cup {y}) <= Cardinality(S) + 2
  <1> DEFINE T == S \cup {x}
  <1>1. Cardinality(S) \in Nat
    BY FS_CardinalityType
  <1>2. IsFiniteSet(T) /\ Cardinality(T) = IF x \in S THEN Cardinality(S) ELSE Cardinality(S) + 1
    BY FS_AddElement
  <1> HIDE DEF T
  <1>3. IsFiniteSet(T \cup {y}) /\ Cardinality(T \cup {y}) = IF y \in T THEN Cardinality(T) ELSE Cardinality(T) + 1
    BY <1>2, FS_AddElement
  <1>4. Cardinality(T \cup {y}) <= Cardinality(S) + 2
    BY <1>1, <1>2, <1>3
  <1>5. QED
    BY <1>3, <1>4 DEF T

LEMMA Between ==
    ASSUME NEW n \in Nat, NEW i \in 1..(n + 1), i # n, i # n + 1
    PROVE  i \in 1..n /\ i < n /\ (i > 1 => i - 1 \in 1..n) /\ i + 1 \in 1..n
  OBVIOUS

LEMMA SpoiltJoined ==
    ASSUME NEW s \in Contents, NEW e \in Events
    PROVE  Cardinality(Spoilt(s \o <<>> \o <<e>>)) <= Cardinality(Spoilt(s)) + 2
  <1> DEFINE u == s \o <<e>>
  <1>1. s \o <<>> \o <<e>> = u
    BY ConcatEmptySeq DEF Contents
  <1>2. Len(s) \in Nat /\ DOMAIN s = 1..Len(s)
    BY TokensOfContent
  <1>3. /\ u \in Contents /\ DOMAIN u = 1..Len(u)
        /\ Len(u) = Len(s) + 1
        /\ \A i \in 1..Len(s) : u[i] = s[i]
    <2>1. <<e>> \in Contents /\ Len(<<e>>) = 1
      BY OneLine
    <2>2. /\ u \in Contents /\ Len(u) = Len(s) + Len(<<e>>)
          /\ \A i \in 1..(Len(s) + Len(<<e>>)) : u[i] = IF i <= Len(s) THEN s[i] ELSE <<e>>[i - Len(s)]
      BY <2>1, ConcatProperties DEF Contents
    <2> HIDE DEF u
    <2>3. QED
      BY <2>1, <2>2, <1>2, TokensOfContent
  <1> HIDE DEF u
  <1>4. Spoilt(u) \in SUBSET ((Spoilt(s) \cup {Len(s)}) \cup {Len(s) + 1})
    <2> SUFFICES ASSUME NEW i \in Spoilt(u), i # Len(s), i # Len(s) + 1
                 PROVE  i \in Spoilt(s)
      OBVIOUS
    <2>1. i \in 1..(Len(s) + 1) /\ u[i] # Newline /\ ~Parsable(u, i)
      BY <1>3 DEF Spoilt
    <2>2. i \in 1..Len(s) /\ i < Len(s) /\ (i > 1 => i - 1 \in 1..Len(s)) /\ i + 1 \in 1..Len(s)
      BY <1>2, <2>1, Between
    <2>3. u[i] = s[i] /\ (i > 1 => u[i - 1] = s[i - 1]) /\ u[i + 1] = s[i + 1]
      BY <1>3, <2>2
    <2>4. Parsable(s, i) => Parsable(u, i)
      BY <1>2, <1>3, <2>2, <2>3 DEF Parsable
    <2>5. QED
      BY <1>2, <2>1, <2>2, <2>3, <2>4 DEF Spoilt
  <1>5. /\ IsFiniteSet((Spoilt(s) \cup {Len(s)}) \cup {Len(s) + 1})
        /\ Cardinality((Spoilt(s) \cup {Len(s)}) \cup {Len(s) + 1}) <= Cardinality(Spoilt(s)) + 2
    BY SpoiltFinite, TwoMore
  <1>6. Cardinality(Spoilt(u)) <= Cardinality((Spoilt(s) \cup {Len(s)}) \cup {Len(s) + 1})
    BY <1>4, <1>5, FS_Subset
  <1>7. /\ Cardinality(Spoilt(s)) \in Int /\ Cardinality(Spoilt(u)) \in Int
        /\ Cardinality((Spoilt(s) \cup {Len(s)}) \cup {Len(s) + 1}) \in Int
    BY <1>3, <1>5, SpoiltFinite, FS_CardinalityType
  <1> DEFINE a == Cardinality(Spoilt(u))
             b == Cardinality((Spoilt(s) \cup {Len(s)}) \cup {Len(s) + 1})
             c == Cardinality(Spoilt(s))
  <1>8. a \in Int /\ b \in Int /\ c \in Int /\ a <= b /\ b <= c + 2
    BY <1>5, <1>6, <1>7
  <1> HIDE DEF a, b, c
  <1>9. a <= c + 2
    BY <1>8
  <1>10. QED
    BY <1>1, <1>9 DEF a, c

LEMMA SpoiltFirst ==
    ASSUME NEW e \in Events, NEW sep \in {<<>>, <<Newline>>}
    PROVE  Spoilt(<<>> \o sep \o <<e>>) = {}
  <1>1. \A s \in Contents : Cardinality(Spoilt(s)) <= 0 => Spoilt(s) = {}
    BY SpoiltFinite, FS_EmptySet
  <1>2. CASE sep = <<>>
    <2>1. <<>> \o sep \o <<e>> = <<e>>
      <3>1. <<>> \o <<>> = <<>>
        BY EmptySeq, ConcatEmptySeq
      <3>2. <<>> \o <<e>> = <<e>>
        BY OneLine, ConcatEmptySeq DEF Contents
      <3>3. QED
        BY <1>2, <3>1, <3>2
    <2>2. DOMAIN <<e>> = {1}
      OBVIOUS
    <2>3. Parsable(<<e>>, 1)
      <3>1. Len(<<e>>) = 1 /\ <<e>>[1] # Newline
        BY OneLine
      <3>2. QED
        BY <3>1 DEF Parsable
    <2>4. Spoilt(<<e>>) = {}
      BY <2>2, <2>3 DEF Spoilt
    <2> DEFINE u == <<>> \o sep \o <<e>>
    <2> HIDE DEF u
    <2>5. QED
      BY <2>1, <2>4 DEF u
  <1>3. CASE sep = <<Newline>>
    <2>1. <<>> \in Contents /\ Spoilt(<<>>) = {}
      BY EmptySeq DEF Contents, Spoilt
    <2>2. Cardinality(Spoilt(<<>> \o <<Newline>> \o <<e>>)) <= 0
      BY <2>1, SpoiltSeparated, FS_EmptySet
    <2>3. <<>> \o <<Newline>> \o <<e>> \in Contents
      BY <2>1, OneLine, Separated
    <2>4. QED
      BY <1>1, <1>3, <2>2, <2>3
  <1>4. QED
    BY <1>2, <1>3

\* The lines that read_review_events finds are the others.
LEMMA ParsedAndSpoilt ==
    ASSUME NEW s \in Contents
    PROVE  Cardinality({i \in DOMAIN s : s[i] # Newline}) - Len(ParsedEvents(s)) = Cardinality(Spoilt(s))
  <1> DEFINE E == {i \in DOMAIN s : s[i] # Newline}
             W == {i \in DOMAIN s : Parsable(s, i)}
  <1>1. IsFiniteSet(E) /\ IsFiniteSet(W) /\ W \subseteq E
    <2>1. Len(s) \in Int /\ E \in SUBSET (1..Len(s)) /\ W \in SUBSET (1..Len(s))
      BY TokensOfContent
    <2>2. W \subseteq E
      BY DEF Parsable
    <2>3. IsFiniteSet(1..Len(s))
      BY <2>1, FS_Interval
    <2> HIDE DEF E, W
    <2>4. QED
      BY <2>1, <2>2, <2>3, FS_Subset
  <1>2. Spoilt(s) = E \ W /\ E \cap W = W
    BY <1>1 DEF Spoilt
  <1>3. Len(ParsedEvents(s)) = Cardinality(W)
    <2>1. Cardinality(W) \in Nat
      BY <1>1, FS_CardinalityType
    <2>2. QED
      BY <2>1 DEF ParsedEvents, Picked
  <1> HIDE DEF E, W
  <1>4. Cardinality(E \ W) = Cardinality(E) - Cardinality(W)
    BY <1>1, <1>2, FS_Difference
  <1>5. Cardinality(E) \in Nat /\ Cardinality(W) \in Nat
    BY <1>1, FS_CardinalityType
  <1>6. Cardinality(E) - Len(ParsedEvents(s)) = Cardinality(Spoilt(s))
    BY <1>2, <1>3, <1>4, <1>5
  <1>7. QED
    BY <1>6 DEF E

-----------------------------------------------------------------------------
(* Every action keeps the type invariant. *)

LEMMA JoinedContents ==
    ASSUME NEW s \in Contents, NEW t \in Contents, NEW sep \in {<<>>, <<Newline>>}
    PROVE  s \o sep \o t \in Contents
  <1>1. CASE sep = <<>>
    BY <1>1, ConcatEmptySeq, ConcatProperties DEF Contents
  <1>2. CASE sep = <<Newline>>
    BY <1>2, Separated
  <1>3. QED
    BY <1>1, <1>2

LEMMA SmallTypes ==
    /\ <<>> \in Contents
    /\ NoLocal \in Locals
    /\ \A s : Separator(s) \in {<<>>, <<Newline>>}
    /\ 1 \in Months
    /\ \A n \in Nat : n < MaxEvents => n + 1 \in Events
  <1>1. <<>> \in Contents
    BY EmptySeq DEF Contents
  <1>2. 1 \in Months
    BY EventLogAssumption DEF Months
  <1>3. NoLocal \in Locals
    BY <1>1, <1>2 DEF NoLocal, Locals
  <1>4. \A s : Separator(s) \in {<<>>, <<Newline>>}
    BY DEF Separator
  <1>5. \A n \in Nat : n < MaxEvents => n + 1 \in Events
    BY EventLogAssumption DEF Events
  <1>6. QED
    BY <1>1, <1>2, <1>3, <1>4, <1>5

LEMMA TypeKept ==
    ASSUME TypeInv, [Next]_vars
    PROVE  TypeInv'
  <1>1. ASSUME NEW w \in Writers, Begin(w)
       PROVE  TypeInv'
    <2> USE <1>1 DEF Begin, Goto, files, TypeInv
    <2>1. FilesType'
      BY DEF FilesType, Exists
    <2>2. CountType'
      BY EventLogAssumption DEF CountType, Exists
    <2>3. LogType'
      BY DEF LogType, Exists
    <2>4. FlagType'
      BY DEF FlagType, Exists
    <2>5. LocalType'
      BY SmallTypes DEF LocalType, Locals, CountType, NoLocal, Exists
    <2>6. QED
      BY <2>1, <2>2, <2>3, <2>4, <2>5
  <1>2. ASSUME NEW w \in Writers, ReadActive(w)
       PROVE  TypeInv'
    <2> USE <1>2 DEF ReadActive, Goto, Fail, Done, files, seldom, TypeInv
    <2>1. FilesType'
      BY DEF FilesType, Exists
    <2>2. CountType'
      BY DEF CountType, Exists
    <2>3. LogType'
      BY DEF LogType, LocalType, Exists
    <2>4. FlagType'
      BY DEF FlagType, Exists
    <2>5. LocalType'
      <3>1. CASE Exists
        <4>1. local' = [local EXCEPT ![w].data = active]
          BY <3>1
        <4>2. local' \in [Writers -> Locals] /\ \A v \in Writers : local'[v].event = local[v].event /\ local'[v].file = local[v].file
          BY <4>1 DEF LocalType, Locals, FilesType
        <4>3. pc' = [pc EXCEPT ![w] = IF active = <<>> THEN "unlink" ELSE "openRotated"] /\ pc[w] = "read" /\ created' = created
          BY <3>1
        <4>4. QED
          BY <4>2, <4>3 DEF LocalType
      <3>2. CASE ~Exists
        BY <3>2, SmallTypes DEF LocalType, CountType
      <3>3. QED
        BY <3>1, <3>2
    <2>6. QED
      BY <2>1, <2>2, <2>3, <2>4, <2>5
  <1>3. ASSUME NEW w \in Writers, OpenRotated(w)
       PROVE  TypeInv'
    <2> USE <1>3 DEF OpenRotated, Goto, files, seldom, TypeInv
    <2>1. FilesType'
      BY DEF FilesType
    <2>2. CountType'
      BY DEF CountType
    <2>3. LogType'
      BY DEF LogType
    <2>4. FlagType'
      BY DEF FlagType
    <2>5. LocalType'
      BY SmallTypes DEF LocalType, Locals
    <2>6. QED
      BY <2>1, <2>2, <2>3, <2>4, <2>5
  <1>4. ASSUME NEW w \in Writers, WriteRotated(w)
       PROVE  TypeInv'
    <2> USE <1>4 DEF WriteRotated, Goto, seldom, TypeInv
    <2>0. rotated[local[w].stamp] \o local[w].sep \o local[w].data \in Contents
      BY JoinedContents DEF FilesType, LocalType, Locals
    <2>1. FilesType'
      BY <2>0 DEF FilesType, LocalType, Locals
    <2>2. CountType'
      BY DEF CountType
    <2>3. LogType'
      BY DEF LogType
    <2>4. FlagType'
      BY DEF FlagType
    <2>5. LocalType'
      BY SmallTypes DEF LocalType, Locals
    <2>6. QED
      BY <2>1, <2>2, <2>3, <2>4, <2>5
  <1>5. ASSUME NEW w \in Writers, Unlink(w)
       PROVE  TypeInv'
    <2> USE <1>5 DEF Unlink, Goto, Fail, Done, files, seldom, TypeInv
    <2>1. FilesType'
      BY SmallTypes DEF FilesType, Exists
    <2>2. CountType'
      BY DEF CountType, Exists
    <2>3. LogType'
      BY DEF LogType, LocalType, Exists
    <2>4. FlagType'
      BY DEF FlagType, Exists
    <2>5. LocalType'
      BY SmallTypes DEF LocalType, Locals, Exists
    <2>6. QED
      BY <2>1, <2>2, <2>3, <2>4, <2>5
  <1>6. ASSUME NEW w \in Writers, OpenActive(w)
       PROVE  TypeInv'
    <2> USE <1>6 DEF OpenActive, Goto, seldom, TypeInv
    <2>1. FilesType'
      BY DEF FilesType, Exists
    <2>2. CountType'
      BY DEF CountType, Exists
    <2>3. LogType'
      BY DEF LogType, Exists
    <2>4. FlagType'
      BY DEF FlagType, Exists
    <2>5. LocalType'
      <3>1. inode' \in Nat /\ inode' # 0 /\ inode' <= created' /\ created <= created' /\ created' \in Nat
        BY DEF CountType, Exists
      <3>2. local' = [local EXCEPT ![w].sep = Separator(active), ![w].file = inode'] /\ pc' = [pc EXCEPT ![w] = "write"]
        OBVIOUS
      <3>3. local' \in [Writers -> Locals]
        <4> DEFINE x == [local[w] EXCEPT !.sep = Separator(active), !.file = inode']
        <4>1. x \in Locals
          BY <3>1, SmallTypes DEF LocalType, Locals
        <4>2. local' = [local EXCEPT ![w] = x]
          BY <3>2 DEF LocalType, Locals
        <4> HIDE DEF x
        <4>3. QED
          BY <4>1, <4>2 DEF LocalType
      <3>4. \A v \in Writers : local'[v].event = local[v].event /\ (v # w => local'[v].file = local[v].file)
        BY <3>2 DEF LocalType, Locals
      <3>5. local'[w].file = inode'
        BY <3>1, <3>2 DEF LocalType, Locals
      <3>6. QED
        BY <3>1, <3>2, <3>3, <3>4, <3>5 DEF LocalType, CountType, Locals
    <2>6. QED
      BY <2>1, <2>2, <2>3, <2>4, <2>5
  <1>7. ASSUME NEW w \in Writers, WriteActive(w)
       PROVE  TypeInv'
    <2> USE <1>7 DEF WriteActive, Goto, Done, seldom, TypeInv
    <2>0. /\ active \o local[w].sep \o <<local[w].event>> \in Contents
          /\ Append(logged, local[w].event) \in Seq(Events)
          /\ local[w].event \in Events /\ local[w].file # 0
      BY JoinedContents, OneLine, AppendProperties DEF FilesType, LocalType, LogType, Locals
    <2>1. FilesType'
      BY <2>0 DEF FilesType
    <2>2. CountType'
      BY DEF CountType
    <2>3. LogType'
      BY <2>0 DEF LogType
    <2>4. FlagType'
      BY DEF FlagType
    <2>5. LocalType'
      BY SmallTypes DEF LocalType, Locals
    <2>6. QED
      BY <2>1, <2>2, <2>3, <2>4, <2>5
  <1>8. ASSUME NEW w \in Writers, Kill(w)
       PROVE  TypeInv'
    <2> USE <1>8 DEF Kill, Goto, Done, files, TypeInv
    <2>1. FilesType'
      BY DEF FilesType
    <2>2. CountType'
      BY DEF CountType
    <2>3. LogType'
      BY DEF LogType
    <2>4. FlagType'
      BY DEF FlagType
    <2>5. LocalType'
      BY SmallTypes DEF LocalType, Locals
    <2>6. QED
      BY <2>1, <2>2, <2>3, <2>4, <2>5
  <1>9. CASE NextMonth
    BY <1>9, EventLogAssumption DEF NextMonth, files, Months, TypeInv, FilesType, CountType, LogType,
       FlagType, LocalType
  <1>10. CASE UNCHANGED vars
    BY <1>10 DEF vars, TypeInv, FilesType, CountType, LogType, FlagType, LocalType
  <1>11. QED
    BY <1>1, <1>2, <1>3, <1>4, <1>5, <1>6, <1>7, <1>8, <1>9, <1>10 DEF Next, Step

LEMMA TypeInvIsTypeOK == TypeInv => TypeOK
  BY DEF TypeInv, FilesType, CountType, LogType, FlagType, LocalType, TypeOK, Contents, Tokens, Exists

-----------------------------------------------------------------------------
(* What overlapping reviews spoil. *)

LEMMA LateFinite == IsFiniteSet(Late) /\ Cardinality(Late) \in Nat /\ Cardinality(Writers) \in Nat
  <1>1. IsFiniteSet(Writers) /\ Late \in SUBSET Writers
    BY EventLogAssumption DEF Late
  <1>2. QED
    BY <1>1, FS_Subset, FS_CardinalityType

LEMMA LateFiniteNext == IsFiniteSet(Late') /\ Cardinality(Late') \in Nat
  <1>1. IsFiniteSet(Writers) /\ Late' \in SUBSET Writers
    BY EventLogAssumption DEF Late
  <1>2. QED
    BY <1>1, FS_Subset, FS_CardinalityType

LEMMA SpoiltNoMore ==
    ASSUME TypeInv, SpoiltInv, active' = active, Late' \subseteq Late
    PROVE  SpoiltInv'
  <1>1. Cardinality(Late') <= Cardinality(Late)
    BY LateFinite, FS_Subset
  <1>2. Spoilt(active)' = Spoilt(active)
    BY DEF Spoilt, Parsable
  <1>3. Cardinality(Spoilt(active)) \in Nat
    BY SpoiltFinite DEF TypeInv, FilesType
  <1> DEFINE a == Cardinality(Late')
             b == Cardinality(Late)
             c == Cardinality(Spoilt(active))
             n == Cardinality(Writers)
  <1>4. a \in Nat /\ b \in Nat /\ c \in Nat /\ n \in Nat /\ a <= b
    BY <1>1, <1>3, LateFinite, LateFiniteNext
  <1>5. active # <<>> => c + 2 * b <= 2 * (n - 1)
    BY DEF SpoiltInv
  <1> HIDE DEF a, b, c, n
  <1>6. active # <<>> => c + 2 * a <= 2 * (n - 1)
    BY <1>4, <1>5
  <1>7. QED
    BY <1>2, <1>6 DEF SpoiltInv, a, c, n

\* The writer that writes leaves Late, if it was in it.
LEMMA SpoiltByWrite ==
    ASSUME TypeInv, SpoiltInv, TypeInv', NEW w \in Writers, WriteActive(w)
    PROVE  SpoiltInv'
  <1> USE DEF WriteActive, Goto, Done
  <1>1. Late' = Late \ {w}
    BY DEF Late, TypeInv, LocalType
  <1>2. CASE local[w].file # inode
    BY <1>1, <1>2, SpoiltNoMore
  <1>3. CASE local[w].file = inode
    <2> DEFINE e == local[w].event
               sep == local[w].sep
               u == active \o sep \o <<e>>
    <2>1. e \in Events /\ sep \in {<<>>, <<Newline>>} /\ active \in Contents /\ u \in Contents /\ active' = u
      BY <1>3 DEF TypeInv, LocalType, Locals, FilesType
    <2> DEFINE a == Cardinality(Late')
               b == Cardinality(Late)
               c == Cardinality(Spoilt(active))
               d == Cardinality(Spoilt(u))
               n == Cardinality(Writers)
    <2>2. a \in Nat /\ b \in Nat /\ c \in Nat /\ d \in Nat /\ n \in Nat
      BY <2>1, LateFinite, LateFiniteNext, SpoiltFinite
    <2>3. a = IF w \in Late THEN b - 1 ELSE b
      BY <1>1, LateFinite, FS_RemoveElement
    <2>4. a <= n - 1
      <3>1. Late' \in SUBSET (Writers \ {w})
        BY <1>1 DEF Late
      <3>2. IsFiniteSet(Writers \ {w}) /\ Cardinality(Writers \ {w}) = n - 1
        BY EventLogAssumption, FS_RemoveElement
      <3>3. QED
        BY <3>1, <3>2, FS_Subset
    <2>5. w \in Late <=> sep = <<>>
      BY <1>3 DEF Late
    <2>6. active # <<>> => c + 2 * b <= 2 * (n - 1)
      BY DEF SpoiltInv
    <2>7. active = <<>> => d = 0
      BY <2>1, SpoiltFirst, FS_EmptySet
    <2>8. sep = <<>> => d <= c + 2
      BY <2>1, SpoiltJoined
    <2>9. sep = <<Newline>> => d <= c
      BY <2>1, SpoiltSeparated
    <2>10. sep = <<>> \/ sep = <<Newline>>
      BY <2>1
    <2>11. Cardinality(Spoilt(active))' = d
      BY <2>1 DEF Spoilt, Parsable
    <2> HIDE DEF a, b, c, d, n, e, sep
    <2>12. d + 2 * a <= 2 * (n - 1)
      <3>1. CASE active = <<>>
        BY <2>2, <2>4, <2>7, <3>1
      <3>2. CASE active # <<>> /\ sep = <<>>
        BY <2>2, <2>3, <2>5, <2>6, <2>8, <3>2
      <3>3. CASE active # <<>> /\ sep # <<>>
        BY <2>2, <2>3, <2>5, <2>6, <2>9, <2>10, <3>3
      <3>4. QED
        BY <3>1, <3>2, <3>3
    <2>13. QED
      BY <2>11, <2>12 DEF SpoiltInv, a, n
  <1>4. QED
    BY <1>2, <1>3

LEMMA SpoiltKept ==
    ASSUME TypeInv, TypeInv', SpoiltInv, [Next]_vars
    PROVE  SpoiltInv'
  <1>1. ASSUME NEW w \in Writers, Begin(w)
       PROVE  SpoiltInv'
    <2> USE <1>1 DEF Begin, Goto, files
    <2>1. active' = active /\ Late' \subseteq Late
      BY DEF Late, TypeInv, LocalType, Locals
    <2>2. QED
      BY <2>1, SpoiltNoMore
  <1>2. ASSUME NEW w \in Writers, ReadActive(w)
       PROVE  SpoiltInv'
    <2> USE <1>2 DEF ReadActive, Goto, Fail, Done, files, seldom
    <2>1. active' = active /\ Late' \subseteq Late
      BY DEF Late, TypeInv, LocalType, Locals
    <2>2. QED
      BY <2>1, SpoiltNoMore
  <1>3. ASSUME NEW w \in Writers, OpenRotated(w)
       PROVE  SpoiltInv'
    <2> USE <1>3 DEF OpenRotated, Goto, files, seldom
    <2>1. active' = active /\ Late' \subseteq Late
      BY DEF Late, TypeInv, LocalType, Locals
    <2>2. QED
      BY <2>1, SpoiltNoMore
  <1>4. ASSUME NEW w \in Writers, WriteRotated(w)
       PROVE  SpoiltInv'
    <2> USE <1>4 DEF WriteRotated, Goto, seldom
    <2>1. active' = active /\ Late' \subseteq Late
      BY DEF Late, TypeInv, LocalType, Locals
    <2>2. QED
      BY <2>1, SpoiltNoMore
  <1>5. ASSUME NEW w \in Writers, Unlink(w)
       PROVE  SpoiltInv'
    <2> USE <1>5 DEF Unlink, Goto, Fail, Done, files, seldom
    <2>1. CASE Exists
      BY <2>1 DEF SpoiltInv
    <2>2. CASE ~Exists
      <3>1. active' = active /\ Late' \subseteq Late
        BY <2>2 DEF Late, TypeInv, LocalType
      <3>2. QED
        BY <3>1, SpoiltNoMore
    <2>3. QED
      BY <2>1, <2>2
  <1>6. ASSUME NEW w \in Writers, OpenActive(w)
       PROVE  SpoiltInv'
    <2> USE <1>6 DEF OpenActive, Goto, seldom
    <2>1. CASE active = <<>>
      BY <2>1 DEF SpoiltInv
    <2>2. CASE active # <<>>
      <3>1. active' = active /\ Late' \subseteq Late
        BY <2>2 DEF Late, TypeInv, FilesType, LocalType, Locals, Separator, Exists
      <3>2. QED
        BY <3>1, SpoiltNoMore
    <2>3. QED
      BY <2>1, <2>2
  <1>7. ASSUME NEW w \in Writers, WriteActive(w)
       PROVE  SpoiltInv'
    BY <1>7, SpoiltByWrite
  <1>8. ASSUME NEW w \in Writers, Kill(w)
       PROVE  SpoiltInv'
    <2> USE <1>8 DEF Kill, Goto, Done, files
    <2>1. active' = active /\ Late' \subseteq Late
      BY DEF Late, TypeInv, LocalType, Locals
    <2>2. QED
      BY <2>1, SpoiltNoMore
  <1>9. CASE NextMonth
    BY <1>9, SpoiltNoMore DEF NextMonth, files, Late
  <1>10. CASE UNCHANGED vars
    BY <1>10, SpoiltNoMore DEF vars, Late
  <1>11. QED
    BY <1>1, <1>2, <1>3, <1>4, <1>5, <1>6, <1>7, <1>8, <1>9, <1>10 DEF Next, Step

-----------------------------------------------------------------------------
(* What is in the files was logged. *)

LEMMA LoggedGrows ==
    ASSUME Logged \subseteq Logged', NEW s \in LoggedContents
    PROVE  s \in LoggedContents'
  BY LenProperties, ElementOfSeq DEF LoggedContents

LEMMA LoggedByWrite ==
    ASSUME TypeInv, NEW e \in Events, logged' = Append(logged, e)
    PROVE  Logged' = Logged \cup {e}
  <1>1. logged \in Seq(Events) /\ DOMAIN logged = 1..Len(logged) /\ Len(logged) \in Nat
    BY LenProperties DEF TypeInv, LogType
  <1>2. /\ logged' \in Seq(Events) /\ Len(logged') = Len(logged) + 1
        /\ \A i \in 1..Len(logged) : logged'[i] = logged[i]
        /\ logged'[Len(logged) + 1] = e
    BY <1>1, AppendProperties
  <1>3. DOMAIN logged' = 1..(Len(logged) + 1)
    BY <1>2, LenProperties
  <1>4. Logged' = {logged'[i] : i \in 1..(Len(logged) + 1)}
    BY <1>3 DEF Logged
  <1>5. Logged = {logged[i] : i \in 1..Len(logged)}
    BY <1>1 DEF Logged
  <1>6. Logged' \subseteq Logged \cup {e}
    <2> SUFFICES ASSUME NEW i \in 1..(Len(logged) + 1)
                 PROVE  logged'[i] \in Logged \cup {e}
      BY <1>4
    <2>1. i = Len(logged) + 1 \/ i \in 1..Len(logged)
      BY <1>1
    <2>2. QED
      BY <1>2, <1>5, <2>1
  <1>7. Logged \cup {e} \subseteq Logged'
    <2>1. Len(logged) + 1 \in 1..(Len(logged) + 1) /\ \A i \in 1..Len(logged) : i \in 1..(Len(logged) + 1)
      BY <1>1
    <2>2. QED
      BY <1>2, <1>4, <1>5, <2>1
  <1>8. QED
    BY <1>6, <1>7

LEMMA LoggedJoined ==
    ASSUME NEW s \in LoggedContents, NEW t \in LoggedContents, NEW sep \in {<<>>, <<Newline>>}
    PROVE  s \o sep \o t \in LoggedContents
  <1>1. <<Newline>> \in LoggedContents /\ <<>> \in LoggedContents
    BY EmptySeq DEF LoggedContents
  <1>2. QED
    BY <1>1, ConcatProperties DEF LoggedContents

LEMMA OnlyLoggedKept ==
    ASSUME TypeInv, OnlyLogged, [Next]_vars
    PROVE  OnlyLogged'
  <1>1. ASSUME NEW w \in Writers, Begin(w)
       PROVE  OnlyLogged'
    <2> USE <1>1 DEF Begin, Goto, files, OnlyLogged
    <2>1. LoggedContents' = LoggedContents
      BY DEF LoggedContents, Logged
    <2>2. <<>> \in LoggedContents
      BY EmptySeq DEF LoggedContents
    <2>3. active' \in LoggedContents /\ rotated' = rotated
      BY <2>2
    <2>4. \A v \in Writers : local'[v].data \in LoggedContents
      BY <2>2 DEF TypeInv, LocalType, Locals, NoLocal
    <2>5. QED
      BY <2>1, <2>3, <2>4
  <1>2. ASSUME NEW w \in Writers, ReadActive(w)
       PROVE  OnlyLogged'
    <2> USE <1>2 DEF ReadActive, Goto, Fail, Done, files, seldom, OnlyLogged
    <2>1. LoggedContents' = LoggedContents
      BY DEF LoggedContents, Logged
    <2>2. <<>> \in LoggedContents
      BY EmptySeq DEF LoggedContents
    <2>3. active' \in LoggedContents /\ rotated' = rotated
      BY <2>2
    <2>4. \A v \in Writers : local'[v].data \in LoggedContents
      <3>1. CASE Exists
        BY <3>1 DEF TypeInv, LocalType, Locals
      <3>2. CASE ~Exists
        BY <2>2, <3>2 DEF TypeInv, LocalType, Locals, NoLocal
      <3>3. QED
        BY <3>1, <3>2
    <2>5. QED
      BY <2>1, <2>3, <2>4
  <1>3. ASSUME NEW w \in Writers, OpenRotated(w)
       PROVE  OnlyLogged'
    <2> USE <1>3 DEF OpenRotated, Goto, files, seldom, OnlyLogged
    <2>1. LoggedContents' = LoggedContents
      BY DEF LoggedContents, Logged
    <2>2. <<>> \in LoggedContents
      BY EmptySeq DEF LoggedContents
    <2>3. active' \in LoggedContents /\ rotated' = rotated
      BY <2>2
    <2>4. \A v \in Writers : local'[v].data \in LoggedContents
      BY <2>2 DEF TypeInv, LocalType, Locals, NoLocal
    <2>5. QED
      BY <2>1, <2>3, <2>4
  <1>4. ASSUME NEW w \in Writers, WriteRotated(w)
       PROVE  OnlyLogged'
    <2> USE <1>4 DEF WriteRotated, Goto, seldom, OnlyLogged
    <2>1. rotated[local[w].stamp] \o local[w].sep \o local[w].data \in LoggedContents
      BY LoggedJoined DEF TypeInv, LocalType, Locals
    <2>2. \A m \in Months : rotated'[m] \in LoggedContents
      BY <2>1 DEF TypeInv, FilesType
    <2>3. LoggedContents' = LoggedContents
      BY DEF LoggedContents, Logged
    <2>4. QED
      BY <2>2, <2>3
  <1>5. ASSUME NEW w \in Writers, Unlink(w)
       PROVE  OnlyLogged'
    <2> USE <1>5 DEF Unlink, Goto, Fail, Done, files, seldom, OnlyLogged
    <2>1. LoggedContents' = LoggedContents
      BY DEF LoggedContents, Logged
    <2>2. <<>> \in LoggedContents
      BY EmptySeq DEF LoggedContents
    <2>3. active' \in LoggedContents /\ rotated' = rotated
      BY <2>2
    <2>4. \A v \in Writers : local'[v].data \in LoggedContents
      <3>1. CASE Exists
        BY <3>1 DEF TypeInv, LocalType, Locals
      <3>2. CASE ~Exists
        BY <2>2, <3>2 DEF TypeInv, LocalType, Locals, NoLocal
      <3>3. QED
        BY <3>1, <3>2
    <2>5. QED
      BY <2>1, <2>3, <2>4
  <1>6. ASSUME NEW w \in Writers, OpenActive(w)
       PROVE  OnlyLogged'
    <2> USE <1>6 DEF OpenActive, Goto, seldom, OnlyLogged
    <2>1. LoggedContents' = LoggedContents
      BY DEF LoggedContents, Logged
    <2>2. <<>> \in LoggedContents
      BY EmptySeq DEF LoggedContents
    <2>3. active' \in LoggedContents /\ rotated' = rotated
      BY <2>2
    <2>4. \A v \in Writers : local'[v].data \in LoggedContents
      BY <2>2 DEF TypeInv, LocalType, Locals, NoLocal
    <2>5. QED
      BY <2>1, <2>3, <2>4
  <1>7. ASSUME NEW w \in Writers, WriteActive(w)
       PROVE  OnlyLogged'
    <2> USE <1>7 DEF WriteActive, Goto, Done, seldom, OnlyLogged
    <2> DEFINE e == local[w].event
    <2>1. e \in Events /\ local[w].sep \in {<<>>, <<Newline>>}
      BY DEF TypeInv, LocalType, Locals
    <2>2. Logged' = Logged \cup {e}
      BY <2>1, LoggedByWrite
    <2>3. \A s \in LoggedContents : s \in LoggedContents'
      BY <2>2, LoggedGrows
    <2>4. active' \in LoggedContents'
      <3>1. <<e>> \in LoggedContents' /\ active \in LoggedContents' /\ local[w].sep \in LoggedContents'
        <4>1. <<e>> \in LoggedContents' /\ <<Newline>> \in LoggedContents' /\ <<>> \in LoggedContents'
          BY <2>2, EmptySeq DEF LoggedContents
        <4>2. QED
          BY <2>1, <2>3, <4>1
      <3>2. active \o local[w].sep \o <<e>> \in LoggedContents'
        BY <3>1, ConcatProperties DEF LoggedContents
      <3>3. QED
        BY <3>1, <3>2
    <2>5. \A m \in Months : rotated'[m] \in LoggedContents'
      BY <2>3
    <2>6. \A v \in Writers : local'[v].data \in LoggedContents'
      <3>1. local' = [local EXCEPT ![w] = NoLocal] /\ <<>> \in LoggedContents
        BY EmptySeq DEF LoggedContents
      <3>2. QED
        BY <2>3, <3>1 DEF TypeInv, LocalType, NoLocal
    <2>7. QED
      BY <2>4, <2>5, <2>6
  <1>8. ASSUME NEW w \in Writers, Kill(w)
       PROVE  OnlyLogged'
    <2> USE <1>8 DEF Kill, Goto, Done, files, OnlyLogged
    <2>1. LoggedContents' = LoggedContents
      BY DEF LoggedContents, Logged
    <2>2. <<>> \in LoggedContents
      BY EmptySeq DEF LoggedContents
    <2>3. active' \in LoggedContents /\ rotated' = rotated
      BY <2>2
    <2>4. \A v \in Writers : local'[v].data \in LoggedContents
      BY <2>2 DEF TypeInv, LocalType, Locals, NoLocal
    <2>5. QED
      BY <2>1, <2>3, <2>4
  <1>9. CASE NextMonth
    BY <1>9 DEF NextMonth, files, OnlyLogged, LoggedContents, Logged
  <1>10. CASE UNCHANGED vars
    BY <1>10 DEF vars, OnlyLogged, LoggedContents, Logged
  <1>11. QED
    BY <1>1, <1>2, <1>3, <1>4, <1>5, <1>6, <1>7, <1>8, <1>9, <1>10 DEF Next, Step

-----------------------------------------------------------------------------
(* Reviews one after the other lose nothing. *)

LEMMA OneAtATimeKept ==
    ASSUME TypeInv, OneAtATime, [Next]_vars
    PROVE  OneAtATime'
  <1>1. ASSUME NEW w \in Writers, Begin(w)
       PROVE  OneAtATime'
    BY <1>1 DEF Begin, Goto, files, TypeInv, FlagType, LocalType, OneAtATime
  <1>2. ASSUME NEW w \in Writers, ReadActive(w)
       PROVE  OneAtATime'
    BY <1>2 DEF ReadActive, Goto, Fail, Done, files, seldom, TypeInv, FlagType, LocalType, OneAtATime
  <1>3. ASSUME NEW w \in Writers, OpenRotated(w)
       PROVE  OneAtATime'
    BY <1>3 DEF OpenRotated, Goto, files, seldom, TypeInv, FlagType, LocalType, OneAtATime
  <1>4. ASSUME NEW w \in Writers, WriteRotated(w)
       PROVE  OneAtATime'
    BY <1>4 DEF WriteRotated, Goto, seldom, TypeInv, FlagType, LocalType, OneAtATime
  <1>5. ASSUME NEW w \in Writers, Unlink(w)
       PROVE  OneAtATime'
    BY <1>5 DEF Unlink, Goto, Fail, Done, files, seldom, TypeInv, FlagType, LocalType, OneAtATime
  <1>6. ASSUME NEW w \in Writers, OpenActive(w)
       PROVE  OneAtATime'
    BY <1>6 DEF OpenActive, Goto, seldom, TypeInv, FlagType, LocalType, OneAtATime
  <1>7. ASSUME NEW w \in Writers, WriteActive(w)
       PROVE  OneAtATime'
    BY <1>7 DEF WriteActive, Goto, Done, seldom, TypeInv, FlagType, LocalType, OneAtATime
  <1>8. ASSUME NEW w \in Writers, Kill(w)
       PROVE  OneAtATime'
    BY <1>8 DEF Kill, Goto, Done, files, TypeInv, FlagType, LocalType, OneAtATime
  <1>9. CASE NextMonth
    BY <1>9 DEF NextMonth, OneAtATime
  <1>10. CASE UNCHANGED vars
    BY <1>10 DEF vars, OneAtATime
  <1>11. QED
    BY <1>1, <1>2, <1>3, <1>4, <1>5, <1>6, <1>7, <1>8, <1>9, <1>10 DEF Next, Step

\* An action of a writer that no other overlaps.
LEMMA OthersIdle ==
    ASSUME TypeInv, OneAtATime, OneAtATime', ~overlapped', NEW w \in Writers, pc'[w] # "idle"
    PROVE  \A v \in Writers \ {w} : Halfway(v)'
  <1>1. \A v \in Writers \ {w} : pc'[v] = "idle"
    BY DEF OneAtATime
  <1>2. QED
    BY <1>1 DEF Halfway

LEMMA SerialUnmoved ==
    ASSUME Serial, UNCHANGED <<active, inode, rotated, pc, local, overlapped>>
    PROVE  Serial'
  <1> SUFFICES ASSUME ~overlapped', NEW v \in Writers PROVE Halfway(v)'
    BY DEF Serial
  <1>1. Halfway(v)
    BY DEF Serial
  <1>2. Lines(active)' = Lines(active) /\ Separator(active)' = Separator(active)
    BY DEF Lines, Parsable, Separator
  <1>3. Lines(rotated[local[v].stamp])' = Lines(rotated[local[v].stamp])
    BY DEF Lines, Parsable
  <1>4. Separator(rotated[local[v].stamp])' = Separator(rotated[local[v].stamp])
    BY DEF Separator
  <1>5. QED
    BY <1>1, <1>2, <1>3, <1>4 DEF Halfway

LEMMA IdleHalfway ==
    ASSUME NEW v \in Writers, pc'[v] = "idle"
    PROVE  Halfway(v)'
  BY DEF Halfway

LEMMA SerialKept ==
    ASSUME TypeInv, OneAtATime, OneAtATime', Serial, [Next]_vars
    PROVE  Serial'
  <1>1. ASSUME NEW w \in Writers, Begin(w)
       PROVE  Serial'
    <2> SUFFICES ASSUME ~overlapped' PROVE \A v \in Writers : Halfway(v)'
      BY DEF Serial
    <2> USE <1>1 DEF Begin, Goto, files
    <2>2. pc'[w] # "idle" /\ Halfway(w)'
      BY DEF Halfway, TypeInv, LocalType
    <2>3. QED
      BY <2>2, OthersIdle
  <1>2. ASSUME NEW w \in Writers, ReadActive(w)
       PROVE  Serial'
    <2> SUFFICES ASSUME ~overlapped' PROVE \A v \in Writers : Halfway(v)'
      BY DEF Serial
    <2> USE <1>2 DEF ReadActive, Goto, Fail, Done, files, seldom
    <2>1. Halfway(w) /\ pc[w] # "idle"
      BY DEF Serial, TypeInv, FlagType
    <2>2. CASE Exists
      <3>1. pc'[w] = (IF active = <<>> THEN "unlink" ELSE "openRotated") /\ local'[w].data = active /\ active' = active
        BY <2>2 DEF TypeInv, LocalType, Locals
      <3>2. active = <<>> => Lines(active) = {}
        BY DEF Lines
      <3>3. Lines(active)' = Lines(active)
        BY <3>1 DEF Lines, Parsable
      <3>4. Halfway(w)'
        BY <3>1, <3>2, <3>3 DEF Halfway
      <3>5. QED
        BY <3>1, <3>4, OthersIdle
    <2>3. CASE ~Exists
      <3>1. \A v \in Writers : pc'[v] = "idle"
        BY <2>1, <2>3 DEF OneAtATime, TypeInv, LocalType
      <3>2. QED
        BY <3>1, IdleHalfway
    <2>4. QED
      BY <2>2, <2>3
  <1>3. ASSUME NEW w \in Writers, OpenRotated(w)
       PROVE  Serial'
    <2> SUFFICES ASSUME ~overlapped' PROVE \A v \in Writers : Halfway(v)'
      BY DEF Serial
    <2> USE <1>3 DEF OpenRotated, Goto, files, seldom
    <2>1. Halfway(w) /\ pc[w] # "idle"
      BY DEF Serial, TypeInv, FlagType
    <2>2. pc'[w] # "idle" /\ Halfway(w)'
      <3>1. local'[w].data = active' /\ local'[w].sep = Separator(rotated'[local'[w].stamp]) /\ pc'[w] = "writeRotated"
        BY <2>1 DEF Halfway, TypeInv, LocalType, Locals
      <3>2. QED
        BY <3>1 DEF Halfway
    <2>3. QED
      BY <2>2, OthersIdle
  <1>4. ASSUME NEW w \in Writers, WriteRotated(w)
       PROVE  Serial'
    <2> SUFFICES ASSUME ~overlapped' PROVE \A v \in Writers : Halfway(v)'
      BY DEF Serial
    <2> USE <1>4 DEF WriteRotated, Goto, seldom
    <2>1. Halfway(w) /\ pc[w] # "idle"
      BY DEF Serial, TypeInv, FlagType
    <2>2. pc'[w] # "idle" /\ Halfway(w)'
      <3>1. pc'[w] = "unlink" /\ active' = active /\ local' = local
        BY DEF TypeInv, LocalType
      <3>2. local[w].data = active /\ local[w].sep = Separator(rotated[local[w].stamp])
        BY <2>1 DEF Halfway
      <3>3. active \in Contents /\ rotated[local[w].stamp] \in Contents
        BY DEF TypeInv, FilesType, LocalType, Locals
      <3>4. rotated'[local[w].stamp] = rotated[local[w].stamp] \o Separator(rotated[local[w].stamp]) \o active
        BY <3>2 DEF TypeInv, FilesType, LocalType, Locals
      <3>5. Lines(active) \subseteq Lines(rotated'[local'[w].stamp])
        BY <3>1, <3>3, <3>4, SeparatedLines
      <3>6. Lines(active)' = Lines(active)
        BY <3>1 DEF Lines, Parsable
      <3>7. QED
        BY <3>1, <3>5, <3>6 DEF Halfway, Lines, Parsable
    <2>3. QED
      BY <2>2, OthersIdle
  <1>5. ASSUME NEW w \in Writers, Unlink(w)
       PROVE  Serial'
    <2> SUFFICES ASSUME ~overlapped' PROVE \A v \in Writers : Halfway(v)'
      BY DEF Serial
    <2> USE <1>5 DEF Unlink, Goto, Fail, Done, files, seldom
    <2>1. Halfway(w) /\ pc[w] # "idle"
      BY DEF Serial, TypeInv, FlagType
    <2>2. CASE Exists
      <3>1. pc'[w] = "open"
        BY <2>2 DEF TypeInv, LocalType
      <3>2. QED
        BY <3>1, OthersIdle DEF Halfway
    <2>3. CASE ~Exists
      <3>1. \A v \in Writers : pc'[v] = "idle"
        BY <2>1, <2>3 DEF OneAtATime, TypeInv, LocalType
      <3>2. QED
        BY <3>1, IdleHalfway
    <2>4. QED
      BY <2>2, <2>3
  <1>6. ASSUME NEW w \in Writers, OpenActive(w)
       PROVE  Serial'
    <2> SUFFICES ASSUME ~overlapped' PROVE \A v \in Writers : Halfway(v)'
      BY DEF Serial
    <2> USE <1>6 DEF OpenActive, Goto, seldom
    <2>1. Halfway(w) /\ pc[w] # "idle"
      BY DEF Serial, TypeInv, FlagType
    <2>2. pc'[w] # "idle" /\ Halfway(w)'
      <3>1. pc'[w] = "write" /\ local'[w].sep = Separator(active) /\ local'[w].file = inode' /\ active' = active
        BY DEF TypeInv, LocalType, Locals
      <3>2. QED
        BY <3>1 DEF Halfway
    <2>3. QED
      BY <2>2, OthersIdle
  <1>7. ASSUME NEW w \in Writers, WriteActive(w)
       PROVE  Serial'
    <2> SUFFICES ASSUME ~overlapped' PROVE \A v \in Writers : Halfway(v)'
      BY DEF Serial
    <2> USE <1>7 DEF WriteActive, Goto, Done, seldom
    <2>1. \A v \in Writers : pc'[v] = "idle"
      BY DEF OneAtATime, TypeInv, LocalType, FlagType
    <2>2. QED
      BY <2>1, IdleHalfway
  <1>8. ASSUME NEW w \in Writers, Kill(w)
       PROVE  Serial'
    <2> SUFFICES ASSUME ~overlapped' PROVE \A v \in Writers : Halfway(v)'
      BY DEF Serial
    <2> USE <1>8 DEF Kill, Goto, Done, files
    <2>1. \A v \in Writers : pc'[v] = "idle"
      BY DEF OneAtATime, TypeInv, LocalType, FlagType
    <2>2. QED
      BY <2>1, IdleHalfway
  <1>9. CASE NextMonth
    BY <1>9, SerialUnmoved DEF NextMonth, files
  <1>10. CASE UNCHANGED vars
    BY <1>10, SerialUnmoved DEF vars
  <1>11. QED
    BY <1>1, <1>2, <1>3, <1>4, <1>5, <1>6, <1>7, <1>8, <1>9, <1>10 DEF Next, Step

LEMMA LinesWereLogged ==
    ASSUME NEW s \in LoggedContents
    PROVE  Lines(s) \subseteq Logged
  <1>1. \A i \in DOMAIN s : s[i] \in Logged \cup {Newline}
    BY LenProperties, ElementOfSeq DEF LoggedContents
  <1>2. QED
    BY <1>1 DEF Lines, Parsable

\* The three steps that change a file.  Of the content that a writer writes
\* anew, or removes, no other writer knows.
LEMMA KeptInRotation ==
    ASSUME TypeInv, Kept, NEW w \in Writers, WriteRotated(w), ~overlapped, Halfway(w)
    PROVE  Logged' \subseteq OnDisk'
  <1> USE DEF WriteRotated, Goto, seldom
  <1> DEFINE k == local[w].stamp
  <1>1. k \in Months /\ active \in Contents /\ rotated[k] \in Contents
    BY DEF TypeInv, FilesType, LocalType, Locals
  <1>2. rotated'[k] = rotated[k] \o Separator(rotated[k]) \o active
    BY <1>1 DEF Halfway, TypeInv, FilesType
  <1>3. Lines(rotated[k]) \subseteq Lines(rotated'[k])
    BY <1>1, <1>2, SeparatedLines
  <1> HIDE DEF k
  <1>4. \A m \in Months : m # k => rotated'[m] = rotated[m]
    BY DEF TypeInv, FilesType, k
  <1>5. \A m \in Months : Lines(rotated[m]) \subseteq Lines(rotated'[m])
    BY <1>3, <1>4
  <1>6. Lines(active') = Lines(active) /\ Logged' = Logged
    BY DEF Logged
  <1>7. OnDisk \subseteq Lines(active') \cup UNION {Lines(rotated'[m]) : m \in Months}
    BY <1>5, <1>6 DEF OnDisk
  <1>8. OnDisk' = Lines(active') \cup UNION {Lines(rotated'[m]) : m \in Months}
    BY DEF OnDisk, Lines, Parsable
  <1>9. QED
    BY <1>6, <1>7, <1>8 DEF Kept

LEMMA KeptByUnlink ==
    ASSUME TypeInv, Kept, NEW w \in Writers, Unlink(w), ~overlapped, Halfway(w)
    PROVE  Logged' \subseteq OnDisk'
  <1> USE DEF Unlink, Goto, seldom, Fail, files
  <1>1. rotated' = rotated /\ Logged' = Logged
    BY DEF Logged
  <1>2. Lines(active) \subseteq Lines(rotated[local[w].stamp]) /\ local[w].stamp \in Months
    BY DEF Halfway, TypeInv, LocalType, Locals
  <1>3. OnDisk \subseteq UNION {Lines(rotated[m]) : m \in Months}
    BY <1>2 DEF OnDisk
  <1>4. OnDisk' = Lines(active') \cup UNION {Lines(rotated[m]) : m \in Months}
    BY <1>1 DEF OnDisk, Lines, Parsable
  <1>5. QED
    BY <1>1, <1>3, <1>4 DEF Kept

LEMMA KeptByWrite ==
    ASSUME TypeInv, Kept, NEW w \in Writers, WriteActive(w), ~overlapped, Halfway(w)
    PROVE  Logged' \subseteq OnDisk'
  <1> USE DEF WriteActive, Goto, seldom, Done
  <1> DEFINE e == local[w].event
  <1>1. e \in Events /\ active \in Contents
    BY DEF TypeInv, FilesType, LocalType
  <1>2. active' = active \o Separator(active) \o <<e>>
    BY DEF Halfway
  <1>3. Logged' = Logged \cup {e} /\ rotated' = rotated
    BY <1>1, LoggedByWrite
  <1>4. Lines(active) \cup {e} \subseteq Lines(active')
    BY <1>1, <1>2, OneLine, SeparatedLines
  <1>5. OnDisk' = Lines(active') \cup UNION {Lines(rotated[m]) : m \in Months}
    BY <1>3 DEF OnDisk, Lines, Parsable
  <1>6. QED
    BY <1>3, <1>4, <1>5 DEF Kept, OnDisk

LEMMA SerialLogKept ==
    ASSUME TypeInv, Serial, Kept, [Next]_vars
    PROVE  Kept'
  <1>1. ASSUME NEW w \in Writers, Begin(w)
       PROVE  Kept'
    <2> SUFFICES ASSUME ~overlapped' PROVE Logged' \subseteq OnDisk'
      BY DEF Kept
    <2>1. active' = active /\ rotated' = rotated /\ logged' = logged /\ ~overlapped
      BY <1>1 DEF Begin, files, TypeInv, FlagType
    <2>2. QED
      BY <2>1 DEF Kept, OnDisk, Logged, Lines, Parsable
  <1>2. ASSUME NEW w \in Writers, ReadActive(w)
       PROVE  Kept'
    <2> SUFFICES ASSUME ~overlapped' PROVE Logged' \subseteq OnDisk'
      BY DEF Kept
    <2>1. active' = active /\ rotated' = rotated /\ logged' = logged /\ ~overlapped
      BY <1>2 DEF ReadActive, Fail, Done, files, seldom, TypeInv, FlagType
    <2>2. QED
      BY <2>1 DEF Kept, OnDisk, Logged, Lines, Parsable
  <1>3. ASSUME NEW w \in Writers, OpenRotated(w)
       PROVE  Kept'
    <2> SUFFICES ASSUME ~overlapped' PROVE Logged' \subseteq OnDisk'
      BY DEF Kept
    <2>1. active' = active /\ rotated' = rotated /\ logged' = logged /\ ~overlapped
      BY <1>3 DEF OpenRotated, files, seldom, TypeInv, FlagType
    <2>2. QED
      BY <2>1 DEF Kept, OnDisk, Logged, Lines, Parsable
  <1>4. ASSUME NEW w \in Writers, WriteRotated(w)
       PROVE  Kept'
    <2> SUFFICES ASSUME ~overlapped' PROVE Logged' \subseteq OnDisk'
      BY DEF Kept
    <2>1. ~overlapped /\ Halfway(w)
      BY <1>4 DEF WriteRotated, seldom, Serial, TypeInv, FlagType
    <2>2. QED
      BY <1>4, <2>1, KeptInRotation
  <1>5. ASSUME NEW w \in Writers, Unlink(w)
       PROVE  Kept'
    <2> SUFFICES ASSUME ~overlapped' PROVE Logged' \subseteq OnDisk'
      BY DEF Kept
    <2>1. ~overlapped /\ Halfway(w)
      BY <1>5 DEF Unlink, seldom, Serial, TypeInv, FlagType
    <2>2. QED
      BY <1>5, <2>1, KeptByUnlink
  <1>6. ASSUME NEW w \in Writers, OpenActive(w)
       PROVE  Kept'
    <2> SUFFICES ASSUME ~overlapped' PROVE Logged' \subseteq OnDisk'
      BY DEF Kept
    <2>1. active' = active /\ rotated' = rotated /\ logged' = logged /\ ~overlapped
      BY <1>6 DEF OpenActive, seldom, TypeInv, FlagType
    <2>2. QED
      BY <2>1 DEF Kept, OnDisk, Logged, Lines, Parsable
  <1>7. ASSUME NEW w \in Writers, WriteActive(w)
       PROVE  Kept'
    <2> SUFFICES ASSUME ~overlapped' PROVE Logged' \subseteq OnDisk'
      BY DEF Kept
    <2>1. ~overlapped /\ Halfway(w)
      BY <1>7 DEF WriteActive, seldom, Serial, TypeInv, FlagType
    <2>2. QED
      BY <1>7, <2>1, KeptByWrite
  <1>8. ASSUME NEW w \in Writers, Kill(w)
       PROVE  Kept'
    <2> SUFFICES ASSUME ~overlapped' PROVE Logged' \subseteq OnDisk'
      BY DEF Kept
    <2>1. active' = active /\ rotated' = rotated /\ logged' = logged /\ ~overlapped
      BY <1>8 DEF Kill, Done, files, TypeInv, FlagType
    <2>2. QED
      BY <2>1 DEF Kept, OnDisk, Logged, Lines, Parsable
  <1>9. CASE NextMonth
    BY <1>9 DEF NextMonth, files, Kept, OnDisk, Logged, Lines, Parsable
  <1>10. CASE UNCHANGED vars
    BY <1>10 DEF vars, Kept, OnDisk, Logged, Lines, Parsable
  <1>11. QED
    BY <1>1, <1>2, <1>3, <1>4, <1>5, <1>6, <1>7, <1>8, <1>9, <1>10 DEF Next, Step

-----------------------------------------------------------------------------
(* In which order the events are read back. *)

\* p enumerates the places I in their order.
Enumerates(p, m, I) ==
    /\ p \in [1..m -> I]
    /\ \A k, l \in 1..m : k < l => p[k] < p[l]
    /\ \A i \in I : \E k \in 1..m : p[k] = i

LEMMA PickedInOrder ==
    ASSUME NEW m \in Nat, NEW I \in SUBSET Int, NEW p, Enumerates(p, m, I), NEW s
    PROVE  Picked(s, I) = [k \in 1..m |-> s[p[k]]]
  <1> USE DEF Enumerates
  <1>0. \A k, l \in 1..m : p[k] \in Int /\ (p[k] <= p[l] <=> k <= l)
    <2>1. \A k \in 1..m : p[k] \in Int
      OBVIOUS
    <2>2. ASSUME NEW k \in 1..m, NEW l \in 1..m PROVE p[k] <= p[l] <=> k <= l
      <3>1. k < l \/ k = l \/ l < k
        OBVIOUS
      <3>2. QED
        BY <2>1, <3>1
    <2>3. QED
      BY <2>1, <2>2
  <1>1. Cardinality(I) = m
    <2>1. p \in Bijection(1..m, I)
      <3>1. \A k, l \in 1..m : p[k] = p[l] => k = l
        BY <1>0
      <3>2. QED
        BY <3>1 DEF Bijection, Injection, Surjection, IsInjective
    <2>2. QED
      BY <2>1, FS_CountingElements DEF ExistsBijection
  <1>2. ASSUME NEW k \in 1..m PROVE Cardinality({j \in I : j <= p[k]}) = k
    <2> DEFINE J == {j \in I : j <= p[k]}
               q == [l \in 1..k |-> p[l]]
    <2>1. q \in [1..k -> J]
      BY <1>0
    <2>2. \A a, b \in 1..k : q[a] = q[b] => a = b
      BY <1>0
    <2>3. ASSUME NEW j \in J PROVE \E l \in 1..k : q[l] = j
      <3>1. PICK l \in 1..m : p[l] = j
        OBVIOUS
      <3>2. l \in 1..k
        BY <1>0, <3>1
      <3>3. QED
        BY <3>1, <3>2
    <2> HIDE DEF J
    <2>4. q \in Bijection(1..k, J)
      BY <2>1, <2>2, <2>3 DEF Bijection, Injection, Surjection, IsInjective
    <2>5. Cardinality(J) = k
      BY <2>4, FS_CountingElements DEF ExistsBijection
    <2>6. QED
      BY <2>5 DEF J
  <1>3. ASSUME NEW k \in 1..m
       PROVE  (CHOOSE i \in I : Cardinality({j \in I : j <= i}) = k) = p[k]
    <2> DEFINE Count(i) == Cardinality({j \in I : j <= i})
    <2>1. p[k] \in I /\ Count(p[k]) = k
      BY <1>2
    <2>2. ASSUME NEW i \in I, Count(i) = k PROVE i = p[k]
      <3>1. PICK l \in 1..m : p[l] = i
        OBVIOUS
      <3>2. Count(i) = l
        BY <1>2, <3>1
      <3>3. QED
        BY <2>2, <3>1, <3>2
    <2> HIDE DEF Count
    <2>3. (CHOOSE i \in I : Count(i) = k) = p[k]
      BY <2>1, <2>2
    <2>4. QED
      BY <2>3 DEF Count
  <1> DEFINE place(k) == CHOOSE i \in I : Cardinality({j \in I : j <= i}) = k
  <1>4. \A k \in 1..m : place(k) = p[k]
    BY <1>3
  <1>5. Picked(s, I) = [k \in 1..Cardinality(I) |-> s[place(k)]]
    BY DEF Picked
  <1> HIDE DEF place
  <1>6. QED
    BY <1>1, <1>4, <1>5

\* The content that has exactly these lines.
HasLines(content, lines) ==
    /\ lines \in Seq(Events) /\ content \in Contents
    /\ IF lines = <<>> THEN content = <<>> ELSE Len(content) = 2 * Len(lines) - 1
    /\ \A k \in 1..Len(lines) : content[2 * k - 1] = lines[k]
    /\ \A k \in 1..(Len(lines) - 1) : content[2 * k] = Newline

LEMMA LinesLengths ==
    ASSUME NEW c, NEW q, HasLines(c, q)
    PROVE  /\ Len(q) \in Nat /\ Len(c) \in Nat /\ DOMAIN c = 1..Len(c) /\ q \in [1..Len(q) -> Events]
           /\ c # <<>> <=> q # <<>>
           /\ q = <<>> => Len(q) = 0 /\ Len(c) = 0
           /\ q # <<>> => Len(q) > 0 /\ Len(c) = 2 * Len(q) - 1
  <1>1. Len(q) \in Nat /\ q \in [1..Len(q) -> Events] /\ (q = <<>> => Len(q) = 0) /\ (q # <<>> => Len(q) > 0)
    BY LenProperties, EmptySeq DEF HasLines
  <1>2. Len(c) \in Nat /\ DOMAIN c = 1..Len(c) /\ (c = <<>> => Len(c) = 0)
    BY TokensOfContent DEF HasLines
  <1>3. q # <<>> => Len(c) = 2 * Len(q) - 1
    BY DEF HasLines
  <1>4. q # <<>> => c # <<>>
    BY <1>1, <1>2, <1>3
  <1>5. QED
    BY <1>1, <1>2, <1>3, <1>4 DEF HasLines

LEMMA OddOrEven ==
    ASSUME NEW n \in Nat, NEW i \in 1..(2 * n - 1)
    PROVE  (\E k \in 1..n : i = 2 * k - 1) \/ (\E k \in 1..(n - 1) : i = 2 * k)
  <1> DEFINE h == (i + 1) \div 2
  <1>1. h \in Int /\ (i = 2 * h - 1 \/ i = 2 * h)
    OBVIOUS
  <1> HIDE DEF h
  <1>2. (i = 2 * h - 1 => h \in 1..n) /\ (i = 2 * h => h \in 1..(n - 1))
    BY <1>1
  <1>3. QED
    BY <1>1, <1>2

LEMMA LinesAreParsed ==
    ASSUME NEW c, NEW q, HasLines(c, q)
    PROVE  ParsedEvents(c) = q
  <1> DEFINE n == Len(q)
             I == {i \in DOMAIN c : Parsable(c, i)}
             p == [k \in 1..n |-> 2 * k - 1]
  <1>1. /\ n \in Nat /\ q \in [1..n -> Events] /\ DOMAIN c = 1..Len(c)
        /\ Len(c) = IF q = <<>> THEN 0 ELSE 2 * n - 1
        /\ q = <<>> => n = 0
    BY LinesLengths
  <1>2. \A k \in 1..n : c[2 * k - 1] = q[k] /\ q[k] # Newline
    BY <1>1, EventLogAssumption DEF HasLines, Events, Newline
  <1>3. \A k \in 1..(n - 1) : c[2 * k] = Newline
    BY DEF HasLines
  <1> HIDE DEF n
  <1>4. ASSUME NEW k \in 1..n PROVE 2 * k - 1 \in I
    <2>1. 2 * k - 1 \in DOMAIN c /\ q # <<>>
      BY <1>1
    <2>2. 2 * k - 1 > 1 => c[(2 * k - 1) - 1] = Newline
      <3>1. SUFFICES ASSUME 2 * k - 1 > 1 PROVE c[(2 * k - 1) - 1] = Newline
        OBVIOUS
      <3>2. k - 1 \in 1..(n - 1) /\ (2 * k - 1) - 1 = 2 * (k - 1)
        BY <1>1, <3>1
      <3>3. QED
        BY <1>3, <3>2
    <2>3. 2 * k - 1 < Len(c) => c[(2 * k - 1) + 1] = Newline
      <3>1. SUFFICES ASSUME 2 * k - 1 < Len(c) PROVE c[(2 * k - 1) + 1] = Newline
        OBVIOUS
      <3>2. k \in 1..(n - 1) /\ (2 * k - 1) + 1 = 2 * k
        BY <1>1, <2>1, <3>1
      <3>3. QED
        BY <1>3, <3>2
    <2>4. QED
      BY <1>2, <2>1, <2>2, <2>3 DEF Parsable
  <1>5. ASSUME NEW i \in I PROVE \E k \in 1..n : 2 * k - 1 = i
    <2>1. i \in 1..(2 * n - 1) /\ c[i] # Newline
      BY <1>1 DEF Parsable
    <2>2. ~ \E k \in 1..(n - 1) : i = 2 * k
      BY <1>3, <2>1
    <2>3. \E k \in 1..n : i = 2 * k - 1
      BY <1>1, <2>1, <2>2, OddOrEven
    <2>4. QED
      BY <2>3
  <1>6. Enumerates(p, n, I)
    <2>1. p \in [1..n -> I]
      BY <1>4
    <2>2. \A k, l \in 1..n : k < l => p[k] < p[l]
      BY <1>1
    <2>3. \A i \in I : \E k \in 1..n : p[k] = i
      BY <1>5
    <2>4. QED
      BY <2>1, <2>2, <2>3 DEF Enumerates
  <1>7. I \in SUBSET Int
    BY <1>1
  <1> HIDE DEF I
  <1>8. Picked(c, I) = [k \in 1..n |-> c[p[k]]]
    BY <1>1, <1>6, <1>7, PickedInOrder
  <1>9. [k \in 1..n |-> c[p[k]]] = q
    BY <1>1, <1>2
  <1>10. QED
    BY <1>8, <1>9 DEF ParsedEvents, I

LEMMA JoinedLines ==
    ASSUME NEW c, NEW q, HasLines(c, q), NEW d, NEW r, HasLines(d, r), d # <<>>
    PROVE  HasLines(c \o Separator(c) \o d, q \o r)
  <1> DEFINE u == c \o Separator(c) \o d
             v == q \o r
  <1>1. c \in Contents /\ d \in Contents /\ q \in Seq(Events) /\ r \in Seq(Events)
    BY DEF HasLines
  <1>2. CASE c = <<>>
    <2>1. q = <<>>
      BY <1>2, LinesLengths
    <2>2. u = d /\ v = r
      BY <1>1, <1>2, <2>1, ConcatEmptySeq DEF Separator, Contents
    <2>3. QED
      BY <2>2
  <1>3. CASE c # <<>>
    <2> DEFINE m == Len(q)
               n == Len(r)
    <2>1. /\ u \in Contents
          /\ Len(u) = Len(c) + 1 + Len(d)
          /\ \A i \in 1..Len(c) : u[i] = c[i]
          /\ u[Len(c) + 1] = Newline
          /\ \A i \in 1..Len(d) : u[Len(c) + 1 + i] = d[i]
      <3> DEFINE t == c \o <<Newline>> \o d
      <3>1. u = t
        BY <1>3 DEF Separator
      <3>2. /\ t \in Contents
            /\ Len(t) = Len(c) + 1 + Len(d)
            /\ \A i \in 1..Len(c) : t[i] = c[i]
            /\ t[Len(c) + 1] = Newline
            /\ \A i \in 1..Len(d) : t[Len(c) + 1 + i] = d[i]
        BY <1>1, Separated
      <3> HIDE DEF t, u
      <3>3. QED
        BY <3>1, <3>2
    <2>2. v \in Seq(Events) /\ Len(v) = m + n /\ \A i \in 1..(m + n) : v[i] = IF i <= m THEN q[i] ELSE r[i - m]
      BY <1>1, ConcatProperties
    <2>3. m \in Nat /\ n \in Nat /\ m > 0 /\ n > 0 /\ Len(c) = 2 * m - 1 /\ Len(d) = 2 * n - 1
      BY <1>3, LinesLengths
    <2>4. /\ \A k \in 1..m : c[2 * k - 1] = q[k]
          /\ \A k \in 1..(m - 1) : c[2 * k] = Newline
          /\ \A k \in 1..n : d[2 * k - 1] = r[k]
          /\ \A k \in 1..(n - 1) : d[2 * k] = Newline
      BY DEF HasLines
    <2>5. v # <<>>
      BY <2>2, <2>3, EmptySeq
    <2> HIDE DEF u, v, m, n
    <2>6. Len(u) = 2 * (m + n) - 1
      BY <2>1, <2>3
    <2>7. ASSUME NEW k \in 1..(m + n) PROVE u[2 * k - 1] = v[k]
      <3>1. CASE k <= m
        <4>1. 2 * k - 1 \in 1..Len(c) /\ k \in 1..m
          BY <2>3, <3>1
        <4>2. QED
          BY <2>1, <2>2, <2>4, <3>1, <4>1
      <3>2. CASE k > m
        <4>1. k - m \in 1..n /\ 2 * (k - m) - 1 \in 1..Len(d) /\ 2 * k - 1 = Len(c) + 1 + (2 * (k - m) - 1)
          BY <2>3, <3>2
        <4>2. u[2 * k - 1] = d[2 * (k - m) - 1]
          BY <2>1, <4>1
        <4>3. v[k] = r[k - m]
          BY <2>2, <2>3, <3>2
        <4>4. QED
          BY <2>4, <4>1, <4>2, <4>3
      <3>3. QED
        BY <2>3, <3>1, <3>2
    <2>8. ASSUME NEW k \in 1..(m + n - 1) PROVE u[2 * k] = Newline
      <3>1. CASE k < m
        <4>1. 2 * k \in 1..Len(c) /\ k \in 1..(m - 1)
          BY <2>3, <3>1
        <4>2. QED
          BY <2>1, <2>4, <4>1
      <3>2. CASE k = m
        BY <2>1, <2>3, <3>2
      <3>3. CASE k > m
        <4>1. k - m \in 1..(n - 1) /\ 2 * (k - m) \in 1..Len(d) /\ 2 * k = Len(c) + 1 + 2 * (k - m)
          BY <2>3, <3>3
        <4>2. u[2 * k] = d[2 * (k - m)]
          BY <2>1, <4>1
        <4>3. QED
          BY <2>4, <4>1, <4>2
      <3>4. QED
        BY <2>3, <3>1, <3>2, <3>3
    <2>9. HasLines(u, v)
      <3>1. \A k \in 1..Len(v) : u[2 * k - 1] = v[k]
        BY <2>2, <2>7
      <3>2. \A k \in 1..(Len(v) - 1) : u[2 * k] = Newline
        <4>1. Len(v) = m + n
          BY <2>2
        <4>2. QED
          BY <2>3, <2>8, <4>1
      <3>3. Len(u) = 2 * Len(v) - 1
        BY <2>2, <2>6
      <3>4. QED
        BY <2>1, <2>2, <2>5, <3>1, <3>2, <3>3 DEF HasLines
    <2>10. QED
      BY <2>9 DEF u, v
  <1>4. QED
    BY <1>2, <1>3

LEMMA SingleLine ==
    ASSUME NEW e \in Events
    PROVE  HasLines(<<e>>, <<e>>) /\ <<e>> # <<>>
  <1>1. <<e>> \in Contents /\ <<e>> \in Seq(Events) /\ Len(<<e>>) = 1 /\ <<e>> # <<>>
    BY OneLine
  <1>2. QED
    BY <1>1 DEF HasLines

LEMMA NoLines == HasLines(<<>>, <<>>)
  BY EmptySeq DEF HasLines, Contents

-----------------------------------------------------------------------------
(* The rotated files are read month by month. *)

\* What is read from the first m months.
MonthsOf(f, r) ==
    /\ f[0] = <<>>
    /\ \A m \in Months : f[m] = f[m - 1] \o ParsedEvents(r[m])

LEMMA MonthNumbers == MaxMonth \in Nat /\ MaxMonth > 0 /\ Months = 1..MaxMonth
  BY EventLogAssumption DEF Months

\* RotatedEvents takes the files month by month.
LEMMA RotatedSteps ==
    ASSUME NEW r, \A m \in Months : ParsedEvents(r[m]) \in Seq(Events)
    PROVE  \E f : MonthsOf(f, r) /\ RotatedEvents(r) = f[MaxMonth]
  <1> DEFINE n == MaxMonth
             V == Seq(Events)
             s == [m \in Months |-> ParsedEvents(r[m])]
             step == [p \in V \X (1..n) |-> p[1] \o s[p[2]]]
             Iterates(h) == h = [T \in SUBSET DOMAIN s |->
                                   IF T = {} THEN <<>> ELSE h[T \ {Max(T)}] \o s[Max(T)]]
             h == CHOOSE h : Iterates(h)
  <1>1. n \in Nat /\ DOMAIN s = 1..n /\ <<>> \in V /\ \A i \in 1..n : s[i] \in V
    BY MonthNumbers, EmptySeq
  <1>2. RotatedEvents(r) = h[1..n]
    <2>1. RotatedEvents(r) = FoldLeft(\o, <<>>, s)
      BY DEF RotatedEvents
    <2> HIDE DEF s
    <2>2. FoldLeft(\o, <<>>, s) = h[DOMAIN s]
      BY DEF FoldLeft, MapThenFoldSet
    <2>3. QED
      BY <1>1, <2>1, <2>2
  <1>3. \A v \in V, i \in 1..n : step[<<v, i>>] = v \o s[i] /\ step[<<v, i>>] \in V
    BY <1>1, ConcatProperties
  <1>4. PICK g : IsFold(g, n, <<>>, step)
    BY <1>1, FoldExists
  <1> HIDE DEF s, step, V, n
  <1>5. \A T \in SUBSET (1..n) : g[T] \in V
    BY <1>1, <1>3, <1>4, FoldType
  <1>6. Iterates(g)
    <2>1. ASSUME NEW T \in SUBSET (1..n), T # {}
         PROVE  step[<<g[T \ {Max(T)}], Max(T)>>] = g[T \ {Max(T)}] \o s[Max(T)]
      <3>1. Max(T) \in 1..n
        BY <1>1, <2>1, MaxIsIn
      <3>2. QED
        BY <1>3, <1>5, <3>1
    <2>2. QED
      BY <1>1, <1>4, <2>1 DEF IsFold
  <1>7. Iterates(h)
    BY <1>6
  <1> HIDE DEF h
  <1> DEFINE f == [m \in 0..n |-> h[1..m]]
  <1>8. f[0] = <<>>
    BY <1>1, <1>7
  <1>9. ASSUME NEW m \in 1..n PROVE f[m] = f[m - 1] \o s[m]
    <2>1. h[1..m] = h[1..(m - 1)] \o s[m]
      <3>1. 1..m \in SUBSET (1..n) /\ 1..m # {} /\ (1..m) \ {m} = 1..(m - 1) /\ Max(1..m) = m
        BY <1>1, PrefixPlaces
      <3>2. h[1..m] = h[(1..m) \ {Max(1..m)}] \o s[Max(1..m)]
        BY <1>1, <1>7, <3>1
      <3>3. QED
        BY <3>1, <3>2
    <2>2. QED
      BY <1>1, <2>1
  <1>10. MonthsOf(f, r)
    BY <1>8, <1>9, MonthNumbers DEF MonthsOf, s, n
  <1>11. RotatedEvents(r) = f[MaxMonth]
    BY <1>1, <1>2 DEF n
  <1>12. QED
    BY <1>10, <1>11

LEMMA MonthsOfType ==
    ASSUME NEW r, \A m \in Months : ParsedEvents(r[m]) \in Seq(Events), NEW f, MonthsOf(f, r)
    PROVE  \A m \in 0..MaxMonth : f[m] \in Seq(Events)
  <1> DEFINE G == {m \in Nat : m <= MaxMonth => f[m] \in Seq(Events)}
  <1>1. 0 \in G
    BY EmptySeq DEF MonthsOf
  <1>2. ASSUME NEW m \in G PROVE m + 1 \in G
    <2>1. SUFFICES ASSUME m + 1 <= MaxMonth PROVE f[m + 1] \in Seq(Events)
      OBVIOUS
    <2>2. m + 1 \in Months /\ (m + 1) - 1 = m /\ f[m] \in Seq(Events)
      BY <2>1, MonthNumbers
    <2>3. f[m + 1] = f[m] \o ParsedEvents(r[m + 1])
      BY <2>2 DEF MonthsOf
    <2>4. QED
      BY <2>2, <2>3, ConcatProperties
  <1>3. G = Nat
    <2> HIDE DEF G
    <2>1. G \in SUBSET Nat
      BY DEF G
    <2>2. QED
      BY <1>1, <1>2, <2>1, SetInduction
  <1>4. QED
    BY <1>3, MonthNumbers

LEMMA RotatedType ==
    ASSUME NEW r, \A m \in Months : ParsedEvents(r[m]) \in Seq(Events)
    PROVE  RotatedEvents(r) \in Seq(Events)
  <1>1. PICK f : MonthsOf(f, r) /\ RotatedEvents(r) = f[MaxMonth]
    BY RotatedSteps
  <1>2. QED
    BY <1>1, MonthsOfType, MonthNumbers

\* What is appended to the file of the last month that has one comes last.
LEMMA RotatedAppend ==
    ASSUME NEW r, \A m \in Months : ParsedEvents(r[m]) \in Seq(Events),
           NEW q \in Seq(Events), NEW s \in Months,
           \A m \in Months : m > s => ParsedEvents(r[m]) = <<>>,
           NEW t, ParsedEvents(t[s]) = ParsedEvents(r[s]) \o q,
           \A m \in Months : m # s => ParsedEvents(t[m]) = ParsedEvents(r[m])
    PROVE  RotatedEvents(t) = RotatedEvents(r) \o q
  <1>1. \A m \in Months : ParsedEvents(t[m]) \in Seq(Events)
    BY ConcatProperties
  <1>2. PICK f : MonthsOf(f, r) /\ RotatedEvents(r) = f[MaxMonth]
    BY RotatedSteps
  <1>3. PICK g : MonthsOf(g, t) /\ RotatedEvents(t) = g[MaxMonth]
    BY <1>1, RotatedSteps
  <1>4. \A m \in 0..MaxMonth : f[m] \in Seq(Events)
    BY <1>2, MonthsOfType
  <1> DEFINE P(m) == (m < s => g[m] = f[m]) /\ (~(m < s) => g[m] = f[m] \o q)
             G == {m \in Nat : m <= MaxMonth => P(m)}
  <1>5. 0 \in G
    BY <1>2, <1>3, MonthNumbers DEF MonthsOf
  <1>6. ASSUME NEW m \in G PROVE m + 1 \in G
    <2> DEFINE p == ParsedEvents(r[m + 1])
    <2>1. SUFFICES ASSUME m + 1 <= MaxMonth
                   PROVE  P(m + 1)
      OBVIOUS
    <2>2. m \in Nat /\ m + 1 \in Months /\ (m + 1) - 1 = m /\ m \in 0..MaxMonth
      BY <2>1, MonthNumbers
    <2>3. P(m)
      BY <2>1, <2>2
    <2>4. f[m + 1] = f[m] \o p /\ g[m + 1] = g[m] \o ParsedEvents(t[m + 1])
      BY <1>2, <1>3, <2>2 DEF MonthsOf
    <2>5. f[m] \in Seq(Events) /\ p \in Seq(Events)
      BY <1>4, <2>2
    <2>6. (m + 1 = s => ParsedEvents(t[m + 1]) = p \o q) /\ (m + 1 # s => ParsedEvents(t[m + 1]) = p)
      BY <2>2
    <2>7. m + 1 > s => p = <<>>
      BY <2>2
    <2>8. s \in Int
      BY MonthNumbers
    <2> HIDE DEF p, G
    <2>9. CASE m + 1 < s
      <3>1. m < s /\ m + 1 # s
        BY <2>2, <2>8, <2>9
      <3>2. g[m + 1] = f[m + 1]
        BY <2>3, <2>4, <2>6, <3>1
      <3>3. QED
        BY <2>9, <3>2
    <2>10. CASE m + 1 = s
      <3>0. m < s /\ ~(m + 1 < s)
        BY <2>2, <2>8, <2>10
      <3>1. g[m + 1] = f[m] \o (p \o q)
        <4>1. g[m] = f[m] /\ ParsedEvents(t[m + 1]) = p \o q
          BY <2>3, <2>6, <2>10, <3>0
        <4>2. QED
          BY <2>4, <4>1
      <3>2. f[m] \o (p \o q) = (f[m] \o p) \o q
        <4> DEFINE u == f[m]
        <4>1. u \in Seq(Events) /\ p \in Seq(Events) /\ q \in Seq(Events)
          BY <2>5
        <4> HIDE DEF u
        <4>2. u \o (p \o q) = (u \o p) \o q
          BY <4>1, ConcatAssociative
        <4>3. QED
          BY <4>2 DEF u
      <3>3. QED
        BY <2>4, <3>0, <3>1, <3>2
    <2>11. CASE m + 1 > s
      <3>1. ~(m < s) /\ m + 1 # s /\ ~(m + 1 < s) /\ p = <<>>
        BY <2>2, <2>7, <2>8, <2>11
      <3>2. g[m + 1] = (f[m] \o q) \o <<>> /\ f[m + 1] = f[m] \o <<>>
        BY <2>3, <2>4, <2>6, <3>1
      <3>3. f[m] \o q \in Seq(Events)
        BY <2>5, ConcatProperties
      <3>4. g[m + 1] = f[m] \o q /\ f[m + 1] = f[m]
        BY <2>5, <3>2, <3>3, ConcatEmptySeq
      <3>5. QED
        BY <3>1, <3>4
    <2>12. QED
      BY <2>2, <2>8, <2>9, <2>10, <2>11
  <1>7. G = Nat
    <2> HIDE DEF G
    <2>1. G \in SUBSET Nat
      BY DEF G
    <2>2. QED
      BY <1>5, <1>6, <2>1, SetInduction
  <1>8. ~(MaxMonth < s)
    <2>1. MaxMonth \in Int /\ s \in 1..MaxMonth
      BY MonthNumbers
    <2>2. QED
      BY <2>1
  <1>9. QED
    <2>1. MaxMonth \in Nat /\ MaxMonth <= MaxMonth
      BY MonthNumbers
    <2>2. P(MaxMonth)
      BY <1>7, <2>1
    <2>3. g[MaxMonth] = f[MaxMonth] \o q
      BY <1>8, <2>2
    <2>4. QED
      BY <1>2, <1>3, <2>3

\* Nothing rotated, nothing read.
LEMMA RotatedNothing ==
    ASSUME NEW r, \A m \in Months : ParsedEvents(r[m]) = <<>>
    PROVE  RotatedEvents(r) = <<>>
  <1>0. <<>> \in Seq(Events) /\ \A m \in Months : ParsedEvents(r[m]) \in Seq(Events)
    BY EmptySeq
  <1>1. PICK f : MonthsOf(f, r) /\ RotatedEvents(r) = f[MaxMonth]
    BY <1>0, RotatedSteps
  <1> DEFINE G == {m \in Nat : m <= MaxMonth => f[m] = <<>>}
  <1>2. 0 \in G
    BY <1>1 DEF MonthsOf
  <1>3. ASSUME NEW m \in G PROVE m + 1 \in G
    <2>1. SUFFICES ASSUME m + 1 <= MaxMonth PROVE f[m + 1] = <<>>
      OBVIOUS
    <2>2. m + 1 \in Months /\ (m + 1) - 1 = m /\ f[m] = <<>>
      BY <2>1, MonthNumbers
    <2>3. f[m + 1] = <<>> \o <<>>
      BY <1>1, <2>2 DEF MonthsOf
    <2>4. QED
      BY <1>0, <2>3, ConcatEmptySeq
  <1>4. G = Nat
    <2> HIDE DEF G
    <2>1. G \in SUBSET Nat
      BY DEF G
    <2>2. QED
      BY <1>2, <1>3, <2>1, SetInduction
  <1>5. QED
    BY <1>1, <1>4, MonthNumbers

-----------------------------------------------------------------------------
(* What is read, and what was logged. *)

\* What is read tells what was logged: every event logged is read, none before
\* those logged earlier, and none further from the end than it was logged.
Tells(R, L) ==
    /\ \A k \in 1..Len(R) : \E j \in 1..Len(L) :
          /\ R[k] = L[j]
          /\ Len(L) - j <= Len(R) - k
          /\ \A i \in 1..(j - 1) : \E l \in 1..(k - 1) : R[l] = L[i]
    /\ \A j \in 1..Len(L) : \E k \in 1..Len(R) : R[k] = L[j]

LEMMA TellsTwice ==
    ASSUME NEW A \in Seq(Events), NEW B \in Seq(Events), NEW L \in Seq(Events), Tells(A \o B, L)
    PROVE  Tells((A \o B) \o B, L)
  <1> DEFINE R == A \o B
             S == R \o B
             a == Len(A)
             b == Len(B)
             n == Len(L)
  <1>1. a \in Nat /\ b \in Nat /\ n \in Nat
    BY LenProperties
  <1>2. R \in Seq(Events) /\ Len(R) = a + b /\ \A i \in 1..(a + b) : R[i] = IF i <= a THEN A[i] ELSE B[i - a]
    BY ConcatProperties
  <1>3. Len(S) = Len(R) + b /\ \A i \in 1..(Len(R) + b) : S[i] = IF i <= Len(R) THEN R[i] ELSE B[i - Len(R)]
    BY <1>2, ConcatProperties
  <1>4. Tells(R, L)
    OBVIOUS
  <1> HIDE DEF R, S, a, b, n
  <1>5. /\ Len(S) = a + b + b
        /\ \A i \in 1..(a + b) : S[i] = R[i]
        /\ \A i \in (a + b + 1)..(a + b + b) : S[i] = R[i - b]
    <2>1. Len(S) = a + b + b
      BY <1>1, <1>2, <1>3
    <2>2. ASSUME NEW i \in 1..(a + b) PROVE S[i] = R[i]
      BY <1>1, <1>2, <1>3
    <2>3. ASSUME NEW i \in (a + b + 1)..(a + b + b) PROVE S[i] = R[i - b]
      <3>1. i \in 1..(Len(R) + b) /\ ~(i <= Len(R)) /\ i - Len(R) = i - (a + b)
        BY <1>1, <1>2
      <3>2. S[i] = B[i - (a + b)]
        BY <1>3, <3>1
      <3>3. i - b \in 1..(a + b) /\ ~(i - b <= a) /\ (i - b) - a = i - (a + b)
        BY <1>1
      <3>4. R[i - b] = B[i - (a + b)]
        BY <1>2, <3>3
      <3>5. QED
        BY <3>2, <3>4
    <2>4. QED
      BY <2>1, <2>2, <2>3
  <1>6. /\ \A k \in 1..(a + b) : \E j \in 1..n :
              /\ R[k] = L[j]
              /\ n - j <= (a + b) - k
              /\ \A i \in 1..(j - 1) : \E l \in 1..(k - 1) : R[l] = L[i]
        /\ \A j \in 1..n : \E k \in 1..(a + b) : R[k] = L[j]
    BY <1>2, <1>4 DEF Tells, n
  <1>7. ASSUME NEW k \in 1..(a + b + b)
       PROVE  \E j \in 1..n : /\ S[k] = L[j]
                              /\ n - j <= (a + b + b) - k
                              /\ \A i \in 1..(j - 1) : \E l \in 1..(k - 1) : S[l] = L[i]
    <2> DEFINE h == IF k <= a + b THEN k ELSE k - b
    <2>1. h \in 1..(a + b) /\ h <= k /\ (a + b) - h <= (a + b + b) - k
      BY <1>1
    <2>2. S[k] = R[h]
      BY <1>1, <1>5
    <2> HIDE DEF h
    <2>3. PICK j \in 1..n : /\ R[h] = L[j]
                            /\ n - j <= (a + b) - h
                            /\ \A i \in 1..(j - 1) : \E l \in 1..(h - 1) : R[l] = L[i]
      BY <1>6, <2>1
    <2>4. n - j <= (a + b + b) - k
      BY <1>1, <2>1, <2>3
    <2>5. ASSUME NEW i \in 1..(j - 1) PROVE \E l \in 1..(k - 1) : S[l] = L[i]
      <3>1. PICK l \in 1..(h - 1) : R[l] = L[i]
        BY <2>3
      <3>2. l \in 1..(k - 1) /\ l \in 1..(a + b)
        BY <1>1, <2>1
      <3>3. S[l] = R[l]
        BY <1>5, <3>2
      <3>4. QED
        BY <3>1, <3>2, <3>3
    <2>6. QED
      BY <2>2, <2>3, <2>4, <2>5
  <1>8. ASSUME NEW j \in 1..n PROVE \E k \in 1..(a + b + b) : S[k] = L[j]
    <2>1. PICK k \in 1..(a + b) : R[k] = L[j]
      BY <1>6
    <2>2. k \in 1..(a + b + b)
      BY <1>1
    <2>3. QED
      BY <1>5, <2>1, <2>2
  <1>9. Tells(S, L)
    BY <1>5, <1>7, <1>8 DEF Tells, n
  <1>10. QED
    BY <1>9 DEF S, R

LEMMA TellsOneMore ==
    ASSUME NEW R \in Seq(Events), NEW L \in Seq(Events), Tells(R, L), NEW e \in Events
    PROVE  Tells(R \o <<e>>, Append(L, e))
  <1> DEFINE S == R \o <<e>>
             M == Append(L, e)
             m == Len(R)
             n == Len(L)
  <1>1. m \in Nat /\ n \in Nat
    BY LenProperties
  <1>2. Len(S) = m + 1 /\ (\A i \in 1..m : S[i] = R[i]) /\ S[m + 1] = e
    <2> DEFINE o == <<e>>
    <2>1. o \in Seq(Events) /\ Len(o) = 1 /\ o[1] = e
      OBVIOUS
    <2> HIDE DEF o
    <2> DEFINE T == R \o o
    <2>2. Len(T) = m + Len(o) /\ \A i \in 1..(m + Len(o)) : T[i] = IF i <= m THEN R[i] ELSE o[i - m]
      BY <2>1, ConcatProperties
    <2>3. Len(T) = m + 1 /\ \A i \in 1..(m + 1) : T[i] = IF i <= m THEN R[i] ELSE o[i - m]
      BY <2>1, <2>2
    <2> HIDE DEF T, m
    <2>4. (\A i \in 1..m : T[i] = R[i]) /\ T[m + 1] = e
      BY <1>1, <2>1, <2>3
    <2>5. QED
      BY <2>3, <2>4 DEF T, o
  <1>3. Len(M) = n + 1 /\ (\A i \in 1..n : M[i] = L[i]) /\ M[n + 1] = e
    BY AppendProperties
  <1>4. /\ \A k \in 1..m : \E j \in 1..n :
              /\ R[k] = L[j]
              /\ n - j <= m - k
              /\ \A i \in 1..(j - 1) : \E l \in 1..(k - 1) : R[l] = L[i]
        /\ \A j \in 1..n : \E k \in 1..m : R[k] = L[j]
    BY DEF Tells
  <1> HIDE DEF S, M, m, n
  <1>5. ASSUME NEW k \in 1..(m + 1)
       PROVE  \E j \in 1..(n + 1) : /\ S[k] = M[j]
                                    /\ (n + 1) - j <= (m + 1) - k
                                    /\ \A i \in 1..(j - 1) : \E l \in 1..(k - 1) : S[l] = M[i]
    <2>1. CASE k \in 1..m
      <3>1. PICK j \in 1..n : /\ R[k] = L[j]
                              /\ n - j <= m - k
                              /\ \A i \in 1..(j - 1) : \E l \in 1..(k - 1) : R[l] = L[i]
        BY <1>4, <2>1
      <3>2. S[k] = M[j] /\ (n + 1) - j <= (m + 1) - k /\ j \in 1..(n + 1)
        BY <1>1, <1>2, <1>3, <2>1, <3>1
      <3>3. ASSUME NEW i \in 1..(j - 1) PROVE \E l \in 1..(k - 1) : S[l] = M[i]
        <4>1. PICK l \in 1..(k - 1) : R[l] = L[i]
          BY <3>1
        <4>2. l \in 1..m /\ i \in 1..n
          BY <1>1, <2>1
        <4>3. QED
          BY <1>2, <1>3, <4>1, <4>2
      <3>4. QED
        BY <3>2, <3>3
    <2>2. CASE k = m + 1
      <3>1. n + 1 \in 1..(n + 1) /\ S[k] = M[n + 1] /\ (n + 1) - (n + 1) <= (m + 1) - k
        BY <1>1, <1>2, <1>3, <2>2
      <3>2. ASSUME NEW i \in 1..((n + 1) - 1) PROVE \E l \in 1..(k - 1) : S[l] = M[i]
        <4>1. i \in 1..n /\ k - 1 = m
          BY <1>1, <2>2
        <4>2. QED
          BY <1>2, <1>3, <1>4, <4>1
      <3>3. QED
        BY <3>1, <3>2
    <2>3. QED
      BY <1>1, <2>1, <2>2
  <1>6. ASSUME NEW j \in 1..(n + 1) PROVE \E k \in 1..(m + 1) : S[k] = M[j]
    <2>1. CASE j \in 1..n
      <3>1. PICK k \in 1..m : R[k] = L[j]
        BY <1>4, <2>1
      <3>2. k \in 1..(m + 1)
        BY <1>1
      <3>3. QED
        BY <1>2, <1>3, <2>1, <3>1, <3>2
    <2>2. CASE j = n + 1
      <3>1. m + 1 \in 1..(m + 1)
        BY <1>1
      <3>2. QED
        BY <1>2, <1>3, <2>2, <3>1
    <2>3. QED
      BY <1>1, <2>1, <2>2
  <1>7. Tells(S, M)
    BY <1>2, <1>3, <1>5, <1>6 DEF Tells
  <1>8. QED
    BY <1>7 DEF S, M

LEMMA NothingTells == Tells(<<>>, <<>>)
  BY DEF Tells

Distinct(L) == \A i, j \in 1..Len(L) : L[i] = L[j] => i = j

LEMMA TellsDeduplicated ==
    ASSUME NEW R \in Seq(Events), NEW L \in Seq(Events), Tells(R, L), Distinct(L)
    PROVE  Deduplicated(R) = L
  <1> DEFINE n == Len(L)
             m == Len(R)
             I == {i \in DOMAIN R : \A j \in DOMAIN R : R[j] = R[i] => i <= j}
             First(j, k) == k \in 1..m /\ R[k] = L[j] /\ \A l \in 1..m : R[l] = L[j] => k <= l
             p == [j \in 1..n |-> CHOOSE k : First(j, k)]
  <1>1. /\ n \in Nat /\ m \in Nat
        /\ DOMAIN R = 1..m /\ DOMAIN L = 1..n /\ L = [j \in 1..n |-> L[j]]
    BY LenProperties
  <1>2. /\ \A k \in 1..m : \E j \in 1..n :
              R[k] = L[j] /\ \A i \in 1..(j - 1) : \E l \in 1..(k - 1) : R[l] = L[i]
        /\ \A j \in 1..n : \E k \in 1..m : R[k] = L[j]
        /\ \A i, j \in 1..n : L[i] = L[j] => i = j
    BY DEF Tells, Distinct
  <1> HIDE DEF n, m
  <1>3. ASSUME NEW j \in 1..n PROVE First(j, p[j])
    <2> DEFINE K == {k \in 1..m : R[k] = L[j]}
    <2>1. K \in SUBSET Nat /\ K # {}
      BY <1>1, <1>2
    <2> HIDE DEF K
    <2>2. PICK k \in K : \A l \in K : k <= l
      BY <2>1, LeastNumber
    <2>3. First(j, k)
      BY <2>2 DEF K
    <2> HIDE DEF First
    <2>4. p[j] = CHOOSE l : First(j, l)
      OBVIOUS
    <2>5. QED
      BY <2>3, <2>4
  <1> HIDE DEF p
  <1>4. \A j \in 1..n : p[j] \in 1..m /\ R[p[j]] = L[j] /\ \A l \in 1..m : R[l] = L[j] => p[j] <= l
    BY <1>3
  <1>5. \A j \in 1..n : p[j] \in I
    BY <1>1, <1>4
  <1>6. ASSUME NEW i \in 1..n, NEW j \in 1..n, i < j PROVE p[i] < p[j]
    <2>1. PICK h \in 1..n : /\ R[p[j]] = L[h]
                            /\ \A o \in 1..(h - 1) : \E l \in 1..(p[j] - 1) : R[l] = L[o]
      BY <1>2, <1>4
    <2>2. h = j
      <3>1. L[h] = L[j]
        BY <1>4, <2>1
      <3>2. QED
        BY <1>2, <3>1
    <2>3. PICK l \in 1..(p[j] - 1) : R[l] = L[i]
      <3>1. i \in 1..(h - 1)
        BY <1>1, <1>6, <2>2
      <3>2. QED
        BY <2>1, <3>1
    <2>4. p[j] \in 1..m /\ p[i] \in 1..m
      BY <1>4
    <2>5. l \in 1..m /\ l < p[j]
      BY <1>1, <2>4
    <2>6. p[i] <= l
      BY <1>4, <2>3, <2>5
    <2>7. QED
      BY <1>1, <2>4, <2>5, <2>6
  <1>7. ASSUME NEW i \in I PROVE \E j \in 1..n : p[j] = i
    <2>1. i \in 1..m /\ \A l \in 1..m : R[l] = R[i] => i <= l
      BY <1>1
    <2>2. PICK j \in 1..n : R[i] = L[j]
      BY <1>2, <2>1
    <2>3. p[j] \in 1..m /\ p[j] <= i /\ i <= p[j]
      BY <1>4, <2>1, <2>2
    <2>4. QED
      BY <1>1, <2>1, <2>3
  <1>8. I \in SUBSET Int
    BY <1>1
  <1>9. Deduplicated(R) = Picked(R, I)
    BY DEF Deduplicated
  <1> HIDE DEF I
  <1>10. p \in [1..n -> I]
    <2>1. p = [j \in 1..n |-> p[j]]
      BY DEF p
    <2>2. QED
      BY <1>5, <2>1
  <1>11. Enumerates(p, n, I)
    <2>1. \A k, l \in 1..n : k < l => p[k] < p[l]
      BY <1>6
    <2>2. \A i \in I : \E k \in 1..n : p[k] = i
      BY <1>7
    <2>3. QED
      BY <1>10, <2>1, <2>2 DEF Enumerates
  <1>12. Picked(R, I) = [j \in 1..n |-> R[p[j]]]
    <2>1. n \in Nat
      BY <1>1
    <2>2. QED
      BY <1>8, <1>11, <2>1, PickedInOrder
  <1>13. [j \in 1..n |-> R[p[j]]] = L
    BY <1>1, <1>4
  <1>14. QED
    BY <1>9, <1>12, <1>13

\* The last events that are read are among the last logged.
LEMMA TellsTheLast ==
    ASSUME NEW R \in Seq(Events), NEW L \in Seq(Events), Tells(R, L), NEW k \in 1..Len(R)
    PROVE  \E i \in DOMAIN L : R[k] = L[i] /\ Len(L) - i <= Len(R) - k
  <1>1. DOMAIN L = 1..Len(L)
    BY LenProperties
  <1>2. QED
    BY <1>1 DEF Tells

LEMMA LastRead ==
    ASSUME AllContents \in Seq(Events), logged \in Seq(Events), Tells(AllContents, logged),
           NEW limit \in 1..2, NEW e \in Range(ReadEvents(limit))
    PROVE  e \in {logged[i] : i \in {j \in DOMAIN logged : j > Len(logged) - limit}}
  <1> DEFINE R == AllContents
             m == Len(R)
             n == Len(logged)
             S == SubSeq(R, m - limit + 1, m)
  <1>1. m \in Nat /\ n \in Nat /\ DOMAIN R = 1..m /\ DOMAIN logged = 1..n /\ limit \in Int /\ limit > 0
    BY LenProperties
  <1>2. ReadEvents(limit) = IF m > limit THEN S ELSE R
    BY <1>1 DEF ReadEvents
  <1> HIDE DEF R, m, n, S
  <1>3. PICK k \in 1..m : k > m - limit /\ e = R[k]
    <2>1. CASE ~(m > limit)
      <3>1. e \in Range(R)
        BY <1>2, <2>1
      <3>2. PICK k \in 1..m : e = R[k]
        BY <1>1, <3>1 DEF Range
      <3>3. QED
        BY <1>1, <2>1, <3>2
    <2>2. CASE m > limit
      <3> DEFINE a == m - limit + 1
      <3>1. a \in Int /\ m \in Int /\ a <= m /\ m - a + 1 = limit /\ \A i \in a..m : R[i] \in Events
        <4>1. \A i \in 1..m : R[i] \in Events
          BY ElementOfSeq DEF R, m
        <4>2. QED
          BY <1>1, <2>2, <4>1
      <3>2. S = SubSeq(R, a, m)
        BY DEF S
      <3> HIDE DEF a
      <3>3. /\ S \in Seq(Events) /\ Len(S) = limit
            /\ \A i \in 1..limit : S[i] = R[a + i - 1]
        BY <3>1, <3>2, SubSeqProperties
      <3>4. DOMAIN S = 1..limit
        BY <3>3, LenProperties
      <3>5. PICK i \in 1..limit : e = S[i]
        BY <1>2, <2>2, <3>4 DEF Range
      <3>6. a + i - 1 \in 1..m /\ a + i - 1 > m - limit
        BY <1>1, <2>2, <3>1
      <3>7. QED
        BY <3>3, <3>5, <3>6
    <2>3. QED
      BY <2>1, <2>2
  <1>4. PICK i \in DOMAIN logged : R[k] = logged[i] /\ n - i <= m - k
    BY TellsTheLast DEF R, m, n
  <1>5. i > n - limit
    BY <1>1, <1>3, <1>4
  <1>6. QED
    BY <1>3, <1>4, <1>5 DEF n

\* Files of whole lines, and what is read from them.
Clean(content) == HasLines(content, ParsedEvents(content))
CleanFiles(r, a) == Clean(a) /\ \A m \in Months : Clean(r[m])
Recalled(r, a) == RotatedEvents(r) \o ParsedEvents(a)

LEMMA CleanLines ==
    ASSUME NEW c, NEW q, HasLines(c, q)
    PROVE  Clean(c) /\ ParsedEvents(c) = q
  <1>1. ParsedEvents(c) = q
    BY LinesAreParsed
  <1>2. QED
    BY <1>1 DEF Clean

LEMMA EmptyIsClean == Clean(<<>>) /\ ParsedEvents(<<>>) = <<>>
  BY NoLines, CleanLines

LEMMA CleanTypes ==
    ASSUME NEW r, NEW a, CleanFiles(r, a)
    PROVE  /\ \A m \in Months : ParsedEvents(r[m]) \in Seq(Events)
           /\ RotatedEvents(r) \in Seq(Events)
           /\ ParsedEvents(a) \in Seq(Events)
           /\ Recalled(r, a) \in Seq(Events)
  <1>1. \A m \in Months : ParsedEvents(r[m]) \in Seq(Events)
    BY DEF CleanFiles, Clean, HasLines
  <1>2. RotatedEvents(r) \in Seq(Events) /\ ParsedEvents(a) \in Seq(Events)
    BY <1>1, RotatedType DEF CleanFiles, Clean, HasLines
  <1>3. QED
    BY <1>1, <1>2, ConcatProperties DEF Recalled

LEMMA RecalledAfterUnlink ==
    ASSUME NEW r, NEW a, CleanFiles(r, a)
    PROVE  CleanFiles(r, <<>>) /\ Recalled(r, <<>>) = RotatedEvents(r)
  <1>1. Recalled(r, <<>>) = RotatedEvents(r) \o <<>>
    BY EmptyIsClean DEF Recalled
  <1>2. QED
    BY <1>1, CleanTypes, EmptyIsClean, ConcatEmptySeq DEF CleanFiles

LEMMA RecalledAfterRotation ==
    ASSUME NEW r, NEW a, CleanFiles(r, a), a # <<>>,
           NEW s \in Months, \A m \in Months : m > s => r[m] = <<>>,
           NEW t, t[s] = r[s] \o Separator(r[s]) \o a, \A m \in Months : m # s => t[m] = r[m]
    PROVE  CleanFiles(t, a) /\ RotatedEvents(t) = Recalled(r, a)
  <1> DEFINE p == ParsedEvents(r[s])
             q == ParsedEvents(a)
  <1>1. HasLines(r[s], p) /\ HasLines(a, q)
    BY DEF CleanFiles, Clean
  <1>2. HasLines(t[s], p \o q)
    <2> HIDE DEF p, q
    <2> DEFINE u == r[s]
    <2>1. HasLines(u, p)
      BY <1>1
    <2>2. t[s] = u \o Separator(u) \o a
      OBVIOUS
    <2> HIDE DEF u
    <2>3. HasLines(u \o Separator(u) \o a, p \o q)
      BY <1>1, <2>1, JoinedLines
    <2>4. QED
      BY <2>2, <2>3
  <1>3. Clean(t[s]) /\ ParsedEvents(t[s]) = p \o q
    BY <1>2, CleanLines
  <1>4. CleanFiles(t, a)
    BY <1>3 DEF CleanFiles
  <1>5. /\ \A m \in Months : m > s => ParsedEvents(r[m]) = <<>>
        /\ \A m \in Months : m # s => ParsedEvents(t[m]) = ParsedEvents(r[m])
    BY EmptyIsClean
  <1>6. q \in Seq(Events) /\ \A m \in Months : ParsedEvents(r[m]) \in Seq(Events)
    BY CleanTypes
  <1> HIDE DEF q
  <1>7. RotatedEvents(t) = RotatedEvents(r) \o q
    BY <1>3, <1>5, <1>6, RotatedAppend
  <1>8. QED
    BY <1>4, <1>7 DEF Recalled, q

LEMMA RecalledAfterWrite ==
    ASSUME NEW r, NEW a, CleanFiles(r, a), NEW e \in Events
    PROVE  LET b == a \o Separator(a) \o <<e>>
           IN  CleanFiles(r, b) /\ b # <<>> /\ Recalled(r, b) = Recalled(r, a) \o <<e>>
  <1> DEFINE b == a \o Separator(a) \o <<e>>
             q == ParsedEvents(a)
             o == RotatedEvents(r)
             l == <<e>>
  <1>1. HasLines(a, q)
    BY DEF CleanFiles, Clean
  <1>2. HasLines(b, q \o l)
    BY <1>1, SingleLine, JoinedLines
  <1> HIDE DEF b, q
  <1>3. Clean(b) /\ ParsedEvents(b) = q \o l
    BY <1>2, CleanLines
  <1>4. o \in Seq(Events) /\ q \in Seq(Events) /\ l \in Seq(Events) /\ l # <<>>
    BY CleanTypes, SingleLine DEF q, HasLines
  <1>5. b # <<>>
    <2> HIDE DEF l
    <2>1. q \o l # <<>>
      BY <1>4, ConcatEqualIffEmpty
    <2>2. QED
      BY <1>2, <2>1, LinesLengths
  <1>6. o \o (q \o l) = (o \o q) \o l
    <2> HIDE DEF o, l
    <2>1. QED
      BY <1>4, ConcatAssociative
  <1>7. Recalled(r, b) = o \o (q \o l) /\ Recalled(r, a) = o \o q
    BY <1>3 DEF Recalled, q
  <1>8. CleanFiles(r, b)
    BY <1>3 DEF CleanFiles
  <1> HIDE DEF o, l
  <1>9. Recalled(r, b) = Recalled(r, a) \o l
    BY <1>6, <1>7
  <1>10. QED
    BY <1>5, <1>8, <1>9 DEF b, l

-----------------------------------------------------------------------------
(* The invariant of what is read, of reviews one after the other. *)

\* The files have whole lines; a writer rotates a file that is not empty.
CleanInv == ~overlapped =>
    /\ CleanFiles(rotated, active)
    /\ \A w \in Writers : pc[w] \in {"openRotated", "writeRotated"} => active # <<>>

\* Nothing is rotated into a later month than a writer's stamp, or the clock's.
LaterEmpty(m) == \A l \in Months : l > m => rotated[l] = <<>>
MonthInv == ~overlapped =>
    /\ LaterEmpty(month)
    /\ \A w \in Writers : pc[w] # "idle" => local[w].stamp <= month /\ LaterEmpty(local[w].stamp)

\* No event is logged twice.
FreshInv == ~overlapped =>
    /\ Distinct(logged)
    /\ \A i \in 1..Len(logged) : logged[i] <= started
    /\ \A w \in Writers : pc[w] # "idle" =>
          /\ local[w].event <= started
          /\ \A i \in 1..Len(logged) : logged[i] # local[w].event

\* What is read tells what was logged, and before the active file is unlinked
\* the rotated files do so alone; they are read exactly if nothing was killed.
Settled(R) == Tells(R, logged) /\ (~killed => R = logged)
OrderInv == ~overlapped =>
    /\ Tells(AllContents, logged)
    /\ ~killed /\ (\A w \in Writers : pc[w] # "unlink") => AllContents = logged
    /\ \A w \in Writers : pc[w] = "unlink" => Settled(RotatedEvents(rotated))

ReadInv == IInv /\ CleanInv /\ MonthInv /\ FreshInv /\ OrderInv

LEMMA Alone ==
    ASSUME TypeInv, OneAtATime, ~overlapped, NEW w \in Writers, pc[w] # "idle"
    PROVE  \A v \in Writers : v # w => pc[v] = "idle"
  BY DEF OneAtATime

LEMMA CleanKept ==
    ASSUME TypeInv, OneAtATime, Serial, CleanInv, [Next]_vars
    PROVE  CleanInv'
  <1> SUFFICES ASSUME ~overlapped'
               PROVE  /\ CleanFiles(rotated', active')
                      /\ \A v \in Writers : pc'[v] \in {"openRotated", "writeRotated"} => active' # <<>>
    BY DEF CleanInv
  <1> USE DEF TypeInv, LocalType
  <1>1. ASSUME NEW w \in Writers, Begin(w)
       PROVE  /\ CleanFiles(rotated', active')
              /\ \A v \in Writers : pc'[v] \in {"openRotated", "writeRotated"} => active' # <<>>
    BY <1>1 DEF CleanInv, Begin, Goto, files, FlagType
  <1>2. ASSUME NEW w \in Writers, ReadActive(w)
       PROVE  /\ CleanFiles(rotated', active')
              /\ \A v \in Writers : pc'[v] \in {"openRotated", "writeRotated"} => active' # <<>>
    BY <1>2 DEF CleanInv, ReadActive, Goto, Fail, Done, files, seldom
  <1>3. ASSUME NEW w \in Writers, OpenRotated(w)
       PROVE  /\ CleanFiles(rotated', active')
              /\ \A v \in Writers : pc'[v] \in {"openRotated", "writeRotated"} => active' # <<>>
    BY <1>3 DEF CleanInv, OpenRotated, Goto, files, seldom
  <1>4. ASSUME NEW w \in Writers, WriteRotated(w)
       PROVE  /\ CleanFiles(rotated', active')
              /\ \A v \in Writers : pc'[v] \in {"openRotated", "writeRotated"} => active' # <<>>
    <2> DEFINE s == local[w].stamp
    <2>1. Halfway(w) /\ ~overlapped /\ pc[w] = "writeRotated"
      BY <1>4 DEF Serial, WriteRotated, seldom
    <2>2. CleanFiles(rotated, active) /\ active # <<>> /\ s \in Months
      BY <2>1 DEF CleanInv, Locals
    <2>3. /\ rotated'[s] = rotated[s] \o Separator(rotated[s]) \o active
          /\ \A m \in Months : m # s => rotated'[m] = rotated[m]
          /\ active' = active
      BY <1>4, <2>1, <2>2 DEF WriteRotated, Halfway, FilesType
    <2> HIDE DEF s, TypeInv, LocalType
    <2>4. /\ Clean(rotated'[s])
          /\ \A m \in Months : m # s => Clean(rotated'[m])
      <3> DEFINE u == rotated[s]
                 q == ParsedEvents(u)
                 d == ParsedEvents(active)
      <3>1. HasLines(u, q) /\ HasLines(active, d)
        BY <2>2 DEF CleanFiles, Clean
      <3> HIDE DEF u, q, d
      <3>2. HasLines(u \o Separator(u) \o active, q \o d)
        BY <2>2, <3>1, JoinedLines
      <3>3. Clean(rotated'[s])
        BY <2>3, <3>2, CleanLines DEF u
      <3>4. QED
        BY <2>2, <2>3, <3>3 DEF CleanFiles
    <2>5. CleanFiles(rotated', active')
      BY <2>2, <2>3, <2>4 DEF CleanFiles
    <2>6. QED
      BY <2>2, <2>3, <2>5
  <1>5. ASSUME NEW w \in Writers, Unlink(w)
       PROVE  /\ CleanFiles(rotated', active')
              /\ \A v \in Writers : pc'[v] \in {"openRotated", "writeRotated"} => active' # <<>>
    <2>1. pc[w] = "unlink" /\ ~overlapped /\ rotated' = rotated /\ (active' = active \/ active' = <<>>)
      BY <1>5 DEF Unlink, Fail, Done, files, seldom
    <2>2. CleanFiles(rotated', active')
      BY <2>1, RecalledAfterUnlink DEF CleanInv
    <2>3. \A v \in Writers : v # w => pc[v] = "idle"
      BY <2>1, Alone
    <2>4. \A v \in Writers : pc'[v] \in {"open", "idle"}
      BY <1>5, <2>3 DEF Unlink, Goto, Fail, Done, files, seldom
    <2>5. QED
      BY <2>2, <2>4
  <1>6. ASSUME NEW w \in Writers, OpenActive(w)
       PROVE  /\ CleanFiles(rotated', active')
              /\ \A v \in Writers : pc'[v] \in {"openRotated", "writeRotated"} => active' # <<>>
    BY <1>6 DEF CleanInv, OpenActive, Goto, seldom
  <1>7. ASSUME NEW w \in Writers, WriteActive(w)
       PROVE  /\ CleanFiles(rotated', active')
              /\ \A v \in Writers : pc'[v] \in {"openRotated", "writeRotated"} => active' # <<>>
    <2>1. Halfway(w) /\ ~overlapped /\ pc[w] = "write" /\ local[w].event \in Events
      BY <1>7 DEF Serial, WriteActive, seldom
    <2>2. active' = active \o Separator(active) \o <<local[w].event>> /\ rotated' = rotated
      BY <1>7, <2>1 DEF WriteActive, Halfway
    <2>3. CleanFiles(rotated', active') /\ active' # <<>>
      BY <2>1, <2>2, RecalledAfterWrite DEF CleanInv
    <2>4. QED
      BY <2>3
  <1>8. ASSUME NEW w \in Writers, Kill(w)
       PROVE  /\ CleanFiles(rotated', active')
              /\ \A v \in Writers : pc'[v] \in {"openRotated", "writeRotated"} => active' # <<>>
    BY <1>8 DEF CleanInv, Kill, Goto, Done, files
  <1>9. CASE NextMonth
    BY <1>9 DEF CleanInv, NextMonth, files
  <1>10. CASE UNCHANGED vars
    BY <1>10 DEF CleanInv, vars
  <1>11. QED
    BY <1>1, <1>2, <1>3, <1>4, <1>5, <1>6, <1>7, <1>8, <1>9, <1>10 DEF Next, Step

LEMMA MonthKept ==
    ASSUME TypeInv, OneAtATime, MonthInv, [Next]_vars
    PROVE  MonthInv'
  <1> DEFINE Later(v) == pc'[v] # "idle" =>
                 local'[v].stamp <= month' /\ \A l \in Months : l > local'[v].stamp => rotated'[l] = <<>>
             Goal == (\A l \in Months : l > month' => rotated'[l] = <<>>) /\ \A v \in Writers : Later(v)
  <1> SUFFICES ASSUME ~overlapped' PROVE Goal
    BY DEF MonthInv, LaterEmpty
  <1> USE DEF TypeInv, LocalType, MonthInv, LaterEmpty
  <1>0. month \in Int /\ \A l \in Months : l \in Int
    BY MonthNumbers DEF CountType
  <1>1. ASSUME NEW w \in Writers, Begin(w) PROVE Goal
    <2>1. local'[w].stamp = month /\ month' = month /\ rotated' = rotated /\ ~overlapped
      BY <1>1 DEF Begin, files, FlagType, NoLocal
    <2>2. \A v \in Writers : v # w => pc'[v] = pc[v] /\ local'[v] = local[v]
      BY <1>1 DEF Begin, Goto
    <2>3. QED
      BY <1>0, <2>1, <2>2
  <1>2. ASSUME NEW w \in Writers, ReadActive(w) PROVE Goal
    <2>1. month' = month /\ rotated' = rotated /\ ~overlapped /\ pc[w] # "idle"
      BY <1>2 DEF ReadActive, Fail, files, seldom
    <2>2. \A v \in Writers : pc'[v] # "idle" => pc[v] # "idle" /\ local'[v].stamp = local[v].stamp
      <3>1. CASE Exists
        BY <1>2, <3>1 DEF ReadActive, Goto, Locals
      <3>2. CASE ~Exists
        BY <1>2, <3>2 DEF ReadActive, Goto, Fail, Done
      <3>3. QED
        BY <3>1, <3>2
    <2>3. QED
      BY <2>1, <2>2
  <1>3. ASSUME NEW w \in Writers, OpenRotated(w) PROVE Goal
    <2>1. month' = month /\ rotated' = rotated /\ ~overlapped /\ pc[w] # "idle"
      BY <1>3 DEF OpenRotated, files, seldom
    <2>2. \A v \in Writers : pc'[v] # "idle" => pc[v] # "idle" /\ local'[v].stamp = local[v].stamp
      BY <1>3 DEF OpenRotated, Goto, Locals
    <2>3. QED
      BY <2>1, <2>2
  <1>4. ASSUME NEW w \in Writers, WriteRotated(w) PROVE Goal
    <2> DEFINE s == local[w].stamp
    <2>1. month' = month /\ ~overlapped /\ pc[w] # "idle" /\ pc'[w] # "idle" /\ local' = local
      BY <1>4 DEF WriteRotated, Goto, seldom
    <2>2. \A v \in Writers : v # w => pc'[v] = "idle"
      BY <1>4, <2>1, Alone DEF WriteRotated, Goto
    <2>3. s \in Months /\ s <= month
      BY <2>1 DEF Locals
    <2>4. \A m \in Months : m # s => rotated'[m] = rotated[m]
      BY <1>4 DEF WriteRotated, FilesType
    <2>5. (\A l \in Months : l > month => rotated[l] = <<>>) /\ \A l \in Months : l > s => rotated[l] = <<>>
      BY <2>1
    <2>6. local'[w].stamp = s
      BY <2>1
    <2> HIDE DEF s
    <2>7. \A l \in Months : (l > month \/ l > s) => rotated'[l] = <<>>
      BY <1>0, <2>3, <2>4, <2>5
    <2>8. Later(w)
      BY <2>1, <2>3, <2>6, <2>7
    <2>9. QED
      BY <2>1, <2>2, <2>7, <2>8
  <1>5. ASSUME NEW w \in Writers, Unlink(w) PROVE Goal
    <2>1. month' = month /\ rotated' = rotated /\ ~overlapped /\ pc[w] # "idle"
      BY <1>5 DEF Unlink, Fail, files, seldom
    <2>2. \A v \in Writers : pc'[v] # "idle" => pc[v] # "idle" /\ local'[v].stamp = local[v].stamp
      BY <1>5 DEF Unlink, Goto, Fail, Done, Locals
    <2>3. QED
      BY <2>1, <2>2
  <1>6. ASSUME NEW w \in Writers, OpenActive(w) PROVE Goal
    <2>1. month' = month /\ rotated' = rotated /\ ~overlapped /\ pc[w] # "idle"
      BY <1>6 DEF OpenActive, seldom
    <2>2. \A v \in Writers : pc'[v] # "idle" => pc[v] # "idle" /\ local'[v].stamp = local[v].stamp
      BY <1>6 DEF OpenActive, Goto, Locals
    <2>3. QED
      BY <2>1, <2>2
  <1>7. ASSUME NEW w \in Writers, WriteActive(w) PROVE Goal
    <2>1. month' = month /\ rotated' = rotated /\ ~overlapped /\ pc[w] # "idle"
      BY <1>7 DEF WriteActive, seldom
    <2>2. \A v \in Writers : pc'[v] # "idle" => pc[v] # "idle" /\ local'[v].stamp = local[v].stamp
      BY <1>7 DEF WriteActive, Goto, Done, Locals
    <2>3. QED
      BY <2>1, <2>2
  <1>8. ASSUME NEW w \in Writers, Kill(w) PROVE Goal
    <2>1. month' = month /\ rotated' = rotated /\ ~overlapped /\ pc[w] # "idle"
      BY <1>8 DEF Kill, files
    <2>2. \A v \in Writers : pc'[v] # "idle" => pc[v] # "idle" /\ local'[v].stamp = local[v].stamp
      BY <1>8 DEF Kill, Goto, Done, Locals
    <2>3. QED
      BY <2>1, <2>2
  <1>9. CASE NextMonth
    <2>1. month' = month + 1 /\ rotated' = rotated /\ ~overlapped /\ pc' = pc /\ local' = local
      BY <1>9 DEF NextMonth, files
    <2>2. \A v \in Writers : local[v].stamp \in Int
      BY MonthNumbers DEF Locals
    <2>3. QED
      BY <1>0, <2>1, <2>2
  <1>10. CASE UNCHANGED vars
    BY <1>10 DEF vars
  <1>11. QED
    BY <1>1, <1>2, <1>3, <1>4, <1>5, <1>6, <1>7, <1>8, <1>9, <1>10 DEF Next, Step

LEMMA FreshKept ==
    ASSUME TypeInv, OneAtATime, FreshInv, [Next]_vars
    PROVE  FreshInv'
  <1> DEFINE Fresh(v) == pc'[v] # "idle" =>
                 local'[v].event <= started' /\ \A i \in 1..Len(logged') : logged'[i] # local'[v].event
             Goal == /\ \A i, j \in 1..Len(logged') : logged'[i] = logged'[j] => i = j
                     /\ \A i \in 1..Len(logged') : logged'[i] <= started'
                     /\ \A v \in Writers : Fresh(v)
  <1> SUFFICES ASSUME ~overlapped' PROVE Goal
    BY DEF FreshInv, Distinct
  <1> USE DEF TypeInv, LocalType, FreshInv, Distinct
  <1>0. started \in Int /\ \A i \in 1..Len(logged) : logged[i] \in Int
    BY ElementOfSeq, EventLogAssumption DEF CountType, LogType, Events
  <1>1. ASSUME NEW w \in Writers, Begin(w) PROVE Goal
    <2>1. local'[w].event = started + 1 /\ started' = started + 1 /\ logged' = logged /\ ~overlapped
      BY <1>1 DEF Begin, FlagType, NoLocal
    <2>2. \A v \in Writers : v # w => pc'[v] = "idle"
      BY <1>1 DEF Begin, Goto, FlagType
    <2>3. \A i \in 1..Len(logged) : logged[i] <= started
      BY <2>1
    <2>4. \A i \in 1..Len(logged) : logged[i] <= started + 1 /\ logged[i] # started + 1
      BY <1>0, <2>3
    <2>5. Fresh(w)
      BY <1>0, <2>1, <2>4
    <2>6. \A v \in Writers : Fresh(v)
      BY <2>2, <2>5
    <2>7. QED
      BY <2>1, <2>4, <2>6
  <1>2. ASSUME NEW w \in Writers, ReadActive(w) PROVE Goal
    <2>1. started' = started /\ logged' = logged /\ ~overlapped /\ pc[w] # "idle"
      BY <1>2 DEF ReadActive, Fail, files, seldom
    <2>2. \A v \in Writers : pc'[v] # "idle" => pc[v] # "idle" /\ local'[v].event = local[v].event
      BY <1>2 DEF ReadActive, Goto, Fail, Done, Locals
    <2>3. QED
      BY <2>1, <2>2
  <1>3. ASSUME NEW w \in Writers, OpenRotated(w) PROVE Goal
    <2>1. started' = started /\ logged' = logged /\ ~overlapped /\ pc[w] # "idle"
      BY <1>3 DEF OpenRotated, files, seldom
    <2>2. \A v \in Writers : pc'[v] # "idle" => pc[v] # "idle" /\ local'[v].event = local[v].event
      BY <1>3 DEF OpenRotated, Goto, Locals
    <2>3. QED
      BY <2>1, <2>2
  <1>4. ASSUME NEW w \in Writers, WriteRotated(w) PROVE Goal
    <2>1. started' = started /\ logged' = logged /\ ~overlapped /\ pc[w] # "idle"
      BY <1>4 DEF WriteRotated, seldom
    <2>2. \A v \in Writers : pc'[v] # "idle" => pc[v] # "idle" /\ local'[v].event = local[v].event
      BY <1>4 DEF WriteRotated, Goto
    <2>3. QED
      BY <2>1, <2>2
  <1>5. ASSUME NEW w \in Writers, Unlink(w) PROVE Goal
    <2>1. started' = started /\ logged' = logged /\ ~overlapped /\ pc[w] # "idle"
      BY <1>5 DEF Unlink, Fail, files, seldom
    <2>2. \A v \in Writers : pc'[v] # "idle" => pc[v] # "idle" /\ local'[v].event = local[v].event
      BY <1>5 DEF Unlink, Goto, Fail, Done, Locals
    <2>3. QED
      BY <2>1, <2>2
  <1>6. ASSUME NEW w \in Writers, OpenActive(w) PROVE Goal
    <2>1. started' = started /\ logged' = logged /\ ~overlapped /\ pc[w] # "idle"
      BY <1>6 DEF OpenActive, seldom
    <2>2. \A v \in Writers : pc'[v] # "idle" => pc[v] # "idle" /\ local'[v].event = local[v].event
      BY <1>6 DEF OpenActive, Goto, Locals
    <2>3. QED
      BY <2>1, <2>2
  <1>7. ASSUME NEW w \in Writers, WriteActive(w) PROVE Goal
    <2> DEFINE e == local[w].event
               n == Len(logged)
    <2>1. started' = started /\ ~overlapped /\ pc[w] # "idle" /\ logged' = Append(logged, e) /\ e \in Events
      BY <1>7 DEF WriteActive, seldom
    <2>2. \A v \in Writers : pc'[v] = "idle"
      BY <1>7, <2>1, Alone DEF WriteActive, Goto, Done
    <2>3. n \in Nat /\ Len(logged') = n + 1 /\ (\A i \in 1..n : logged'[i] = logged[i]) /\ logged'[n + 1] = e
      BY <2>1, LenProperties, AppendProperties DEF LogType
    <2>4. /\ \A i, j \in 1..n : logged[i] = logged[j] => i = j
          /\ \A i \in 1..n : logged[i] <= started /\ logged[i] # e
          /\ e <= started
      BY <2>1
    <2> HIDE DEF e, n
    <2>5. \A i \in 1..(n + 1) : i \in 1..n \/ i = n + 1
      BY <2>3
    <2>6. \A i, j \in 1..(n + 1) : logged'[i] = logged'[j] => i = j
      BY <2>3, <2>4, <2>5
    <2>7. \A i \in 1..(n + 1) : logged'[i] <= started
      BY <2>3, <2>4, <2>5
    <2>8. QED
      BY <2>1, <2>2, <2>3, <2>6, <2>7
  <1>8. ASSUME NEW w \in Writers, Kill(w) PROVE Goal
    <2>1. started' = started /\ logged' = logged /\ ~overlapped /\ pc[w] # "idle"
      BY <1>8 DEF Kill, files
    <2>2. \A v \in Writers : pc'[v] # "idle" => pc[v] # "idle" /\ local'[v].event = local[v].event
      BY <1>8 DEF Kill, Goto, Done, Locals
    <2>3. QED
      BY <2>1, <2>2
  <1>9. CASE NextMonth
    BY <1>9 DEF NextMonth
  <1>10. CASE UNCHANGED vars
    BY <1>10 DEF vars
  <1>11. QED
    BY <1>1, <1>2, <1>3, <1>4, <1>5, <1>6, <1>7, <1>8, <1>9, <1>10 DEF Next, Step

\* A step that leaves the files and the log alone, and lets no writer begin or
\* end an unlink.
LEMMA OrderUnmoved ==
    ASSUME OrderInv, UNCHANGED <<active, rotated, logged, killed, overlapped>>,
           \A v \in Writers : pc'[v] = "unlink" <=> pc[v] = "unlink"
    PROVE  OrderInv'
  <1>1. AllContents' = AllContents /\ RotatedEvents(rotated') = RotatedEvents(rotated)
    BY DEF AllContents
  <1>2. QED
    BY <1>1 DEF OrderInv, Settled

LEMMA OrderKept ==
    ASSUME TypeInv, OneAtATime, Serial, CleanInv, MonthInv, OrderInv, [Next]_vars
    PROVE  OrderInv'
  <1>0. ASSUME ~overlapped
       PROVE  /\ CleanFiles(rotated, active)
              /\ AllContents = Recalled(rotated, active)
              /\ AllContents' = Recalled(rotated', active')
              /\ Tells(AllContents, logged)
              /\ ~killed /\ (\A v \in Writers : pc[v] # "unlink") => AllContents = logged
              /\ \A v \in Writers : pc[v] = "unlink" => Settled(RotatedEvents(rotated))
    BY <1>0 DEF CleanInv, OrderInv, AllContents, Recalled
  <1>1. ASSUME NEW w \in Writers, Begin(w)
       PROVE  OrderInv'
    <2> SUFFICES ASSUME ~overlapped' PROVE OrderInv'
      BY DEF OrderInv
    <2>1. UNCHANGED <<active, rotated, logged, killed, overlapped>>
      BY <1>1 DEF Begin, files, TypeInv, FlagType
    <2>2. \A v \in Writers : pc'[v] = "unlink" <=> pc[v] = "unlink"
      BY <1>1 DEF Begin, Goto, TypeInv, LocalType
    <2>3. QED
      BY <2>1, <2>2, OrderUnmoved
  <1>2. ASSUME NEW w \in Writers, ReadActive(w)
       PROVE  OrderInv'
    <2> SUFFICES ASSUME ~overlapped' PROVE OrderInv'
      BY DEF OrderInv
    <2>1. /\ UNCHANGED <<active, rotated, logged, killed, overlapped>>
          /\ pc[w] = "read" /\ ~overlapped
      BY <1>2 DEF ReadActive, Fail, files, seldom
    <2>2. \A v \in Writers : pc[v] # "unlink"
      BY <2>1, Alone
    <2>3. /\ Tells(AllContents, logged)
          /\ ~killed => AllContents = logged
          /\ AllContents' = AllContents
      BY <1>0, <2>1, <2>2
    <2>4. ASSUME NEW v \in Writers, pc'[v] = "unlink" PROVE active = <<>>
      BY <1>2, <2>2, <2>4 DEF ReadActive, Goto, Fail, Done, TypeInv, LocalType
    <2>5. active = <<>> => RotatedEvents(rotated) = AllContents
      BY <1>0, <2>1, RecalledAfterUnlink
    <2>6. \A v \in Writers : pc'[v] = "unlink" => Settled(RotatedEvents(rotated))'
      BY <2>1, <2>3, <2>4, <2>5 DEF Settled
    <2>7. QED
      BY <2>1, <2>3, <2>6 DEF OrderInv
  <1>3. ASSUME NEW w \in Writers, OpenRotated(w)
       PROVE  OrderInv'
    <2>1. UNCHANGED <<active, rotated, logged, killed, overlapped>>
      BY <1>3 DEF OpenRotated, files, seldom
    <2>2. \A v \in Writers : pc'[v] = "unlink" <=> pc[v] = "unlink"
      BY <1>3 DEF OpenRotated, Goto, TypeInv, LocalType
    <2>3. QED
      BY <2>1, <2>2, OrderUnmoved
  <1>4. ASSUME NEW w \in Writers, WriteRotated(w)
       PROVE  OrderInv'
    <2> SUFFICES ASSUME ~overlapped' PROVE OrderInv'
      BY DEF OrderInv
    <2> DEFINE s == local[w].stamp
    <2>1. /\ UNCHANGED <<active, logged, killed, overlapped>>
          /\ pc[w] = "writeRotated" /\ pc'[w] = "unlink" /\ ~overlapped /\ Halfway(w)
      BY <1>4 DEF WriteRotated, Goto, seldom, Serial, TypeInv, LocalType
    <2>2. \A v \in Writers : pc[v] # "unlink"
      BY <2>1, Alone
    <2>3. /\ Tells(AllContents, logged)
          /\ ~killed => AllContents = logged
          /\ CleanFiles(rotated, active)
          /\ AllContents = Recalled(rotated, active)
          /\ AllContents' = Recalled(rotated', active)
      BY <1>0, <2>1, <2>2
    <2>4. s \in Months /\ active # <<>> /\ \A m \in Months : m > s => rotated[m] = <<>>
      BY <2>1 DEF MonthInv, LaterEmpty, CleanInv, TypeInv, LocalType, Locals
    <2>5. /\ rotated'[s] = rotated[s] \o Separator(rotated[s]) \o active
          /\ \A m \in Months : m # s => rotated'[m] = rotated[m]
      BY <1>4, <2>1, <2>4 DEF WriteRotated, Halfway, TypeInv, FilesType
    <2> HIDE DEF s
    <2>6. RotatedEvents(rotated') = AllContents
      BY <2>3, <2>4, <2>5, RecalledAfterRotation
    <2>7. AllContents' = RotatedEvents(rotated) \o ParsedEvents(active) \o ParsedEvents(active)
      BY <2>3, <2>6 DEF Recalled
    <2>8. Tells(AllContents', logged)
      <3> DEFINE A == RotatedEvents(rotated)
                 B == ParsedEvents(active)
      <3>1. A \in Seq(Events) /\ B \in Seq(Events) /\ logged \in Seq(Events)
        BY <2>3, CleanTypes DEF TypeInv, LogType
      <3>2. Tells(A \o B, logged)
        BY <2>3 DEF Recalled
      <3>3. AllContents' = A \o B \o B
        BY <2>7
      <3> HIDE DEF A, B
      <3>4. Tells(A \o B \o B, logged)
        BY <3>1, <3>2, TellsTwice
      <3>5. QED
        BY <3>3, <3>4
    <2>9. Settled(RotatedEvents(rotated))'
      BY <2>1, <2>3, <2>6 DEF Settled
    <2>10. ~(\A v \in Writers : pc'[v] # "unlink")
      BY <2>1
    <2>11. QED
      BY <2>1, <2>8, <2>9, <2>10 DEF OrderInv
  <1>5. ASSUME NEW w \in Writers, Unlink(w)
       PROVE  OrderInv'
    <2> SUFFICES ASSUME ~overlapped' PROVE OrderInv'
      BY DEF OrderInv
    <2>1. /\ UNCHANGED <<rotated, logged, killed, overlapped>>
          /\ pc[w] = "unlink" /\ ~overlapped /\ active' = <<>>
      BY <1>5 DEF Unlink, Fail, files, seldom, Exists, TypeInv, FilesType
    <2>2. \A v \in Writers : pc'[v] # "unlink"
      BY <1>5, <2>1, Alone DEF Unlink, Goto, Fail, Done, TypeInv, LocalType
    <2>3. Settled(RotatedEvents(rotated)) /\ CleanFiles(rotated, active) /\ AllContents' = Recalled(rotated, <<>>)
      BY <1>0, <2>1
    <2>4. AllContents' = RotatedEvents(rotated)
      BY <2>3, RecalledAfterUnlink
    <2>5. QED
      BY <2>1, <2>2, <2>3, <2>4 DEF OrderInv, Settled
  <1>6. ASSUME NEW w \in Writers, OpenActive(w)
       PROVE  OrderInv'
    <2>1. UNCHANGED <<active, rotated, logged, killed, overlapped>>
      BY <1>6 DEF OpenActive, seldom
    <2>2. \A v \in Writers : pc'[v] = "unlink" <=> pc[v] = "unlink"
      BY <1>6 DEF OpenActive, Goto, TypeInv, LocalType
    <2>3. QED
      BY <2>1, <2>2, OrderUnmoved
  <1>7. ASSUME NEW w \in Writers, WriteActive(w)
       PROVE  OrderInv'
    <2> SUFFICES ASSUME ~overlapped' PROVE OrderInv'
      BY DEF OrderInv
    <2> DEFINE e == local[w].event
    <2>1. /\ UNCHANGED <<rotated, killed, overlapped>>
          /\ pc[w] = "write" /\ ~overlapped /\ Halfway(w) /\ e \in Events
          /\ logged' = Append(logged, e)
      BY <1>7 DEF WriteActive, seldom, Serial, TypeInv, LocalType
    <2>2. \A v \in Writers : pc[v] # "unlink" /\ pc'[v] # "unlink"
      BY <1>7, <2>1, Alone DEF WriteActive, Goto, Done, TypeInv, LocalType
    <2>3. active' = active \o Separator(active) \o <<e>>
      BY <1>7, <2>1 DEF WriteActive, Halfway
    <2>4. /\ Tells(AllContents, logged)
          /\ ~killed => AllContents = logged
          /\ CleanFiles(rotated, active)
          /\ AllContents = Recalled(rotated, active)
          /\ AllContents' = Recalled(rotated, active')
      BY <1>0, <2>1, <2>2
    <2> HIDE DEF e
    <2>5. AllContents' = AllContents \o <<e>>
      BY <2>1, <2>3, <2>4, RecalledAfterWrite
    <2>6. AllContents \in Seq(Events) /\ logged \in Seq(Events)
      BY <2>4, CleanTypes DEF TypeInv, LogType
    <2>7. Tells(AllContents', logged')
      BY <2>1, <2>4, <2>5, <2>6, TellsOneMore
    <2>8. ~killed' => AllContents' = logged'
      BY <2>1, <2>4, <2>5, <2>6, AppendIsConcat
    <2>9. QED
      BY <2>2, <2>7, <2>8 DEF OrderInv
  <1>8. ASSUME NEW w \in Writers, Kill(w)
       PROVE  OrderInv'
    <2> SUFFICES ASSUME ~overlapped' PROVE OrderInv'
      BY DEF OrderInv
    <2>1. UNCHANGED <<active, rotated, logged, overlapped>> /\ killed' /\ pc[w] # "idle" /\ ~overlapped
      BY <1>8 DEF Kill, files
    <2>2. \A v \in Writers : pc'[v] # "unlink"
      BY <1>8, <2>1, Alone DEF Kill, Goto, Done, TypeInv, LocalType
    <2>3. Tells(AllContents, logged) /\ AllContents' = AllContents
      BY <1>0, <2>1
    <2>4. QED
      BY <2>1, <2>2, <2>3 DEF OrderInv
  <1>9. CASE NextMonth
    BY <1>9, OrderUnmoved DEF NextMonth, files
  <1>10. CASE UNCHANGED vars
    BY <1>10, OrderUnmoved DEF vars
  <1>11. QED
    BY <1>1, <1>2, <1>3, <1>4, <1>5, <1>6, <1>7, <1>8, <1>9, <1>10 DEF Next, Step

-----------------------------------------------------------------------------
(* The theorems. *)

LEMMA InitHolds == Init => IInv
  <1> SUFFICES ASSUME Init PROVE IInv
    OBVIOUS
  <1> USE DEF Init
  <1>1. TypeInv
    <2>1. <<>> \in Seq(Events)
      BY EmptySeq
    <2>2. FilesType /\ LocalType
      BY SmallTypes DEF FilesType, LocalType
    <2>3. CountType
      BY SmallTypes, EventLogAssumption DEF CountType
    <2>4. LogType
      BY <2>1 DEF LogType
    <2>5. FlagType
      BY DEF FlagType
    <2>6. QED
      BY <2>2, <2>3, <2>4, <2>5 DEF TypeInv
  <1>2. SpoiltInv
    BY DEF SpoiltInv
  <1>3. OnlyLogged
    <2>1. <<>> \in LoggedContents
      BY EmptySeq DEF LoggedContents
    <2>2. QED
      BY <2>1 DEF OnlyLogged, NoLocal
  <1>4. OneAtATime /\ Serial /\ Kept
    BY DEF OneAtATime, Serial, Halfway, Kept, Logged
  <1>5. QED
    BY <1>1, <1>2, <1>3, <1>4 DEF IInv

LEMMA IInvStep ==
    ASSUME IInv, [Next]_vars
    PROVE  IInv'
  <1>1. TypeInv' /\ OneAtATime'
    BY TypeKept, OneAtATimeKept DEF IInv
  <1>2. SpoiltInv' /\ OnlyLogged'
    BY <1>1, SpoiltKept, OnlyLoggedKept DEF IInv
  <1>3. Serial' /\ Kept'
    BY <1>1, SerialKept, SerialLogKept DEF IInv
  <1>4. QED
    BY <1>1, <1>2, <1>3 DEF IInv

LEMMA IInvHolds == Spec => []IInv
  <1>1. IInv /\ [Next]_vars => IInv'
    BY IInvStep
  <1>2. QED
    BY <1>1, InitHolds, PTL DEF Spec

LEMMA ReadInitHolds == Init => ReadInv
  <1> SUFFICES ASSUME Init PROVE ReadInv
    OBVIOUS
  <1>1. CleanInv
    BY EmptyIsClean DEF Init, CleanInv, CleanFiles
  <1>2. MonthInv
    BY DEF Init, MonthInv, LaterEmpty
  <1>3. FreshInv
    BY DEF Init, FreshInv, Distinct
  <1>4. OrderInv
    <2>1. \A m \in Months : ParsedEvents(rotated[m]) = <<>>
      BY EmptyIsClean DEF Init
    <2>2. RotatedEvents(rotated) = <<>>
      BY <2>1, RotatedNothing
    <2>3. AllContents = <<>> \o <<>>
      BY <2>2, EmptyIsClean DEF Init, AllContents
    <2>4. AllContents = <<>>
      BY <2>3, EmptySeq, ConcatEmptySeq
    <2>5. QED
      BY <2>4, NothingTells DEF Init, OrderInv
  <1>5. QED
    BY <1>1, <1>2, <1>3, <1>4, InitHolds DEF ReadInv

LEMMA ReadTypes ==
    ASSUME ReadInv, ~overlapped
    PROVE  AllContents \in Seq(Events) /\ logged \in Seq(Events)
  <1>1. CleanFiles(rotated, active) /\ AllContents = Recalled(rotated, active)
    BY DEF ReadInv, CleanInv, AllContents, Recalled
  <1>2. QED
    BY <1>1, CleanTypes DEF ReadInv, IInv, TypeInv, LogType

LEMMA ReadInvHolds == Spec => []ReadInv
  <1>1. ReadInv /\ [Next]_vars => ReadInv'
    <2> SUFFICES ASSUME ReadInv, [Next]_vars PROVE ReadInv'
      OBVIOUS
    <2>1. IInv'
      BY IInvStep DEF ReadInv
    <2>2. CleanInv' /\ MonthInv' /\ FreshInv' /\ OrderInv'
      BY CleanKept, MonthKept, FreshKept, OrderKept DEF ReadInv, IInv
    <2>3. QED
      BY <2>1, <2>2 DEF ReadInv
  <1>2. QED
    BY <1>1, ReadInitHolds, PTL DEF Spec

\* events/public.py: what is read, written and remembered has its type; a file
\* that is not there has no content.
THEOREM TypeCorrect == Spec => []TypeOK
  BY IInvHolds, TypeInvIsTypeOK, PTL DEF IInv

\* events/public.py _append_file: however many reviews overlap, the lines of the
\* active file that cannot be read are at most two for each other writer.
THEOREM SpoiltIsBounded == Spec => []SpoiltBounded
  <1>1. IInv => SpoiltBounded
    <2> SUFFICES ASSUME IInv PROVE SpoiltBounded
      OBVIOUS
    <2>1. TypeOK /\ active \in Contents
      BY TypeInvIsTypeOK DEF IInv, TypeInv, FilesType
    <2> DEFINE b == Cardinality(Late)
               c == Cardinality(Spoilt(active))
               n == Cardinality(Writers)
    <2>2. b \in Nat /\ c \in Nat /\ n \in Nat
      BY <2>1, LateFinite, SpoiltFinite
    <2>3. n # 0
      BY EventLogAssumption, FS_EmptySet
    <2>4. active # <<>> => c + 2 * b <= 2 * (n - 1)
      BY DEF IInv, SpoiltInv
    <2>5. active = <<>> => c = 0
      <3>1. active = <<>> => Spoilt(active) = {}
        BY DEF Spoilt
      <3>2. QED
        BY <3>1, FS_EmptySet
    <2>6. Cardinality({i \in DOMAIN active : active[i] # Newline}) - Len(ParsedEvents(active)) = c
      BY <2>1, ParsedAndSpoilt
    <2> HIDE DEF b, c, n
    <2>7. c <= 2 * (n - 1)
      BY <2>2, <2>3, <2>4, <2>5
    <2>8. QED
      BY <2>1, <2>6, <2>7 DEF SpoiltBounded, n
  <1>2. QED
    BY <1>1, IInvHolds, PTL

\* events/public.py: reviews one after the other, killed or not, over any number
\* of rotations and months, lose no event and read back none that was not
\* logged.
THEOREM SerialEventsAreKept == Spec => []SerialLogIsKept
  <1>1. IInv => SerialLogIsKept
    <2>1. IInv => OnDisk \subseteq Logged
      BY LinesWereLogged DEF IInv, OnlyLogged, OnDisk
    <2>2. QED
      BY <2>1 DEF IInv, Kept, SerialLogIsKept
  <1>2. QED
    BY <1>1, IInvHolds, PTL

\* events/public.py read_review_events: reviews one after the other, killed or
\* not, over any number of rotations and months, are read back in the order in
\* which they were logged; none is missing or torn, and none comes early.
THEOREM LogIsReadBack == Spec => []LogReadsBack
  <1>1. ReadInv => LogReadsBack
    <2> SUFFICES ASSUME ReadInv, ~overlapped PROVE Deduplicated(ReadEvents(0)) = logged
      BY DEF LogReadsBack
    <2>1. AllContents \in Seq(Events) /\ logged \in Seq(Events)
      BY ReadTypes
    <2>2. Tells(AllContents, logged) /\ Distinct(logged)
      BY DEF ReadInv, OrderInv, FreshInv
    <2>3. ReadEvents(0) = AllContents
      BY DEF ReadEvents
    <2>4. QED
      BY <2>1, <2>2, <2>3, TellsDeduplicated
  <1>2. QED
    BY <1>1, ReadInvHolds, PTL

\* events/public.py: without kills, and between appends, the log is read back
\* exactly.
THEOREM LogIsExact == Spec => []LogExact
  <1>1. ReadInv => LogExact
    BY DEF ReadInv, OrderInv, LogExact, Idle, ReadEvents
  <1>2. QED
    BY <1>1, ReadInvHolds, PTL

\* events/public.py, as status reads it: the last events that are read are the
\* last ones logged, whatever was killed in a rotation before.
THEOREM LastEventsAreRead == Spec => []LastEventsRead
  <1>1. ReadInv => LastEventsRead
    <2> SUFFICES ASSUME ReadInv, ~overlapped, NEW limit \in 1..2, NEW e \in Range(ReadEvents(limit))
                 PROVE  e \in {logged[i] : i \in {j \in DOMAIN logged : j > Len(logged) - limit}}
      BY DEF LastEventsRead
    <2>1. AllContents \in Seq(Events) /\ logged \in Seq(Events) /\ Tells(AllContents, logged)
      BY ReadTypes DEF ReadInv, OrderInv
    <2>2. QED
      BY <2>1, LastRead
  <1>2. QED
    BY <1>1, ReadInvHolds, PTL

=============================================================================
