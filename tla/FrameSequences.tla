--------------------------- MODULE FrameSequences ---------------------------
(***************************************************************************)
(* Facts about the sequences of frames between the client and the broker,  *)
(* for the proofs about the modules that have them.                        *)
(***************************************************************************)
EXTENDS Integers, Sequences, TLAPS

Elements(frames) == {frames[i] : i \in DOMAIN frames}

\* A frame of the type is among the frames.
Carries(frames, type) == \E i \in DOMAIN frames : frames[i].type = type

LEMMA TailElements ==
    ASSUME NEW S, NEW frames \in Seq(S), frames # <<>>
    PROVE  /\ Tail(frames) \in Seq(S)
           /\ Head(frames) \in Elements(frames) /\ Head(frames) \in S
           /\ Elements(Tail(frames)) \subseteq Elements(frames)
<1>1. /\ Len(frames) \in Nat /\ Len(frames) > 0 /\ DOMAIN frames = 1..Len(frames)
      /\ Head(frames) = frames[1] /\ frames[1] \in S
      /\ Tail(frames) \in Seq(S) /\ DOMAIN Tail(frames) = 1..(Len(frames) - 1)
      /\ \A i \in 1..(Len(frames) - 1) : Tail(frames)[i] = frames[i + 1]
  OBVIOUS
<1>2. 1 \in DOMAIN frames /\ \A i \in 1..(Len(frames) - 1) : i + 1 \in DOMAIN frames
  BY <1>1
<1> QED BY <1>1, <1>2 DEF Elements

LEMMA ConcatElements ==
    ASSUME NEW S, NEW frames \in Seq(S), NEW more \in Seq(S)
    PROVE  /\ frames \o more \in Seq(S)
           /\ Elements(frames \o more) \subseteq Elements(frames) \cup Elements(more)
<1> DEFINE all == frames \o more
<1>1. /\ Len(frames) \in Nat /\ Len(more) \in Nat
      /\ DOMAIN frames = 1..Len(frames) /\ DOMAIN more = 1..Len(more)
      /\ all \in Seq(S) /\ DOMAIN all = 1..(Len(frames) + Len(more))
      /\ \A i \in 1..Len(frames) : all[i] = frames[i]
      /\ \A i \in 1..Len(more) : all[Len(frames) + i] = more[i]
  OBVIOUS
<1> HIDE DEF all
<1>2. ASSUME NEW i \in DOMAIN all
      PROVE  all[i] \in Elements(frames) \cup Elements(more)
  <2>1. CASE i \in 1..Len(frames)
    BY <2>1, <1>1 DEF Elements
  <2>2. CASE i - Len(frames) \in 1..Len(more)
    <3>1. all[i] = more[i - Len(frames)]
      BY <2>2, <1>1
    <3> QED BY <3>1, <2>2, <1>1 DEF Elements
  <2> QED BY <2>1, <2>2, <1>1
<1> QED BY <1>1, <1>2 DEF Elements, all

LEMMA PrefixElements ==
    ASSUME NEW S, NEW frames \in Seq(S), NEW n \in 0..Len(frames)
    PROVE  /\ SubSeq(frames, 1, n) \in Seq(S)
           /\ Elements(SubSeq(frames, 1, n)) \subseteq Elements(frames)
<1>1. /\ Len(frames) \in Nat /\ DOMAIN frames = 1..Len(frames)
      /\ SubSeq(frames, 1, n) \in Seq(S)
      /\ DOMAIN SubSeq(frames, 1, n) = 1..n
      /\ \A i \in 1..n : SubSeq(frames, 1, n)[i] = frames[i]
  OBVIOUS
<1> QED BY <1>1 DEF Elements

LEMMA OneMore ==
    ASSUME NEW S, NEW frames \in Seq(S), NEW frame \in S
    PROVE  /\ frames \o <<frame>> \in Seq(S)
           /\ Elements(frames \o <<frame>>) \subseteq Elements(frames) \cup {frame}
<1>1. <<frame>> \in Seq(S) /\ Elements(<<frame>>) = {frame}
  BY DEF Elements
<1> QED BY <1>1, ConcatElements

\* What is left when the first frame is taken, by position.
LEMMA TailIs ==
    ASSUME NEW S, NEW frames \in Seq(S), frames # <<>>
    PROVE  /\ 1 \in DOMAIN frames /\ Head(frames) = frames[1]
           /\ \A i \in DOMAIN Tail(frames) :
                 i + 1 \in DOMAIN frames /\ Tail(frames)[i] = frames[i + 1]
           /\ \A i \in DOMAIN frames : i = 1 \/ i - 1 \in DOMAIN Tail(frames)
           /\ DOMAIN frames \subseteq Nat /\ DOMAIN Tail(frames) \subseteq Nat
<1>1. /\ Len(frames) \in Nat /\ Len(frames) > 0 /\ DOMAIN frames = 1..Len(frames)
      /\ Head(frames) = frames[1]
      /\ DOMAIN Tail(frames) = 1..(Len(frames) - 1)
      /\ \A i \in 1..(Len(frames) - 1) : Tail(frames)[i] = frames[i + 1]
  OBVIOUS
<1>2. \A i \in 1..(Len(frames) - 1) : i + 1 \in 1..Len(frames)
  BY <1>1
<1>3. \A i \in 1..Len(frames) : i = 1 \/ i - 1 \in 1..(Len(frames) - 1)
  BY <1>1
<1> QED BY <1>1, <1>2, <1>3

\* What is there when a frame is added, by position.
LEMMA OneMoreIs ==
    ASSUME NEW S, NEW frames \in Seq(S), NEW frame \in S
    PROVE  LET all == frames \o <<frame>>
               last == Len(frames) + 1
           IN  /\ last \in DOMAIN all /\ all[last] = frame
               /\ \A i \in DOMAIN all : i = last \/ (i < last /\ i \in DOMAIN frames)
               /\ \A i \in DOMAIN frames : i \in DOMAIN all /\ all[i] = frames[i]
               /\ DOMAIN all \subseteq Nat
<1> DEFINE all == frames \o <<frame>>
           last == Len(frames) + 1
<1>1. /\ Len(frames) \in Nat /\ DOMAIN frames = 1..Len(frames)
      /\ DOMAIN all = 1..(Len(frames) + 1)
      /\ \A i \in 1..Len(frames) : all[i] = frames[i]
      /\ all[Len(frames) + 1] = frame
  OBVIOUS
<1> HIDE DEF all
<1>2. last \in DOMAIN all /\ all[last] = frame /\ DOMAIN all \subseteq Nat
  BY <1>1
<1>3. \A i \in DOMAIN all : i = last \/ (i < last /\ i \in DOMAIN frames)
  BY <1>1
<1>4. \A i \in DOMAIN frames : i \in DOMAIN all /\ all[i] = frames[i]
  BY <1>1
<1> QED BY <1>2, <1>3, <1>4 DEF all

\* The first frame is taken: of the types that were there, perhaps one is gone.
LEMMA TailCarries ==
    ASSUME NEW S, NEW frames \in Seq(S), frames # <<>>, NEW type
    PROVE  /\ Carries(Tail(frames), type) => Carries(frames, type)
           /\ Carries(frames, type) =>
                 Carries(Tail(frames), type) \/ Head(frames).type = type
           /\ Head(frames).type = type => Carries(frames, type)
BY TailIs DEF Carries

LEMMA OneMoreCarries ==
    ASSUME NEW S, NEW frames \in Seq(S), NEW frame \in S, NEW type
    PROVE  Carries(frames \o <<frame>>, type) <=>
               Carries(frames, type) \/ frame.type = type
BY OneMoreIs DEF Carries

---------------------------------------------------------------------------
(* Sequences of the types of frames *)

Includes(types, type) == \E i \in DOMAIN types : types[i] = type

\* The type is there once at most.
Once(types, type) == \A i, j \in DOMAIN types : types[i] = type /\ types[j] = type => i = j

LEMMA TailIncludes ==
    ASSUME NEW S, NEW types \in Seq(S), types # <<>>
    PROVE  /\ Tail(types) \in Seq(S) /\ Head(types) \in S /\ Includes(types, Head(types))
           /\ \A type : Includes(Tail(types), type) => Includes(types, type)
           /\ \A type : Once(types, type) => Once(Tail(types), type)
           /\ Once(types, Head(types)) => ~ Includes(Tail(types), Head(types))
<1>1. /\ 1 \in DOMAIN types /\ Head(types) = types[1]
      /\ \A i \in DOMAIN Tail(types) :
            i + 1 \in DOMAIN types /\ Tail(types)[i] = types[i + 1]
      /\ DOMAIN Tail(types) \subseteq Nat
  BY TailIs
<1>2. Tail(types) \in Seq(S) /\ Head(types) \in S
  OBVIOUS
<1>3. \A i \in DOMAIN Tail(types) : i + 1 # 1
  <2>1. \A i \in DOMAIN Tail(types) : i > 0 /\ i \in Nat
    BY <1>2
  <2> QED BY <2>1
<1>4. ASSUME NEW type, Once(types, type) PROVE Once(Tail(types), type)
  <2>1. \A i, j \in DOMAIN Tail(types) : i + 1 = j + 1 => i = j
    BY <1>1
  <2> QED BY <1>1, <1>4, <2>1 DEF Once
<1>5. Once(types, Head(types)) => ~ Includes(Tail(types), Head(types))
  BY <1>1, <1>3 DEF Once, Includes
<1> QED BY <1>1, <1>2, <1>4, <1>5 DEF Includes

LEMMA AppendIncludes ==
    ASSUME NEW S, NEW types \in Seq(S), NEW more \in S
    PROVE  /\ Append(types, more) \in Seq(S)
           /\ \A type : Includes(Append(types, more), type) <=>
                            Includes(types, type) \/ more = type
           /\ \A type : Once(types, type) /\ (more # type \/ ~ Includes(types, type))
                            => Once(Append(types, more), type)
<1> DEFINE all == Append(types, more)
           last == Len(types) + 1
<1>1. /\ all \in Seq(S) /\ Len(types) \in Nat /\ DOMAIN types = 1..Len(types)
      /\ DOMAIN all = 1..last /\ all[last] = more
      /\ \A i \in 1..Len(types) : all[i] = types[i]
  OBVIOUS
<1>2. /\ \A i \in DOMAIN all : i = last \/ i \in DOMAIN types
      /\ \A i \in DOMAIN types : i \in DOMAIN all /\ all[i] = types[i]
      /\ last \in DOMAIN all /\ all[last] = more
  BY <1>1
<1> HIDE DEF all, last
<1>3. \A type : Includes(all, type) <=> Includes(types, type) \/ more = type
  BY <1>2 DEF Includes
<1>4. \A type : Once(types, type) /\ (more # type \/ ~ Includes(types, type))
                    => Once(all, type)
  BY <1>2 DEF Once, Includes
<1> QED BY <1>1, <1>3, <1>4 DEF all

LEMMA PrefixIncludes ==
    ASSUME NEW S, NEW types \in Seq(S), NEW n \in 0..Len(types)
    PROVE  /\ SubSeq(types, 1, n) \in Seq(S)
           /\ \A type : Includes(SubSeq(types, 1, n), type) => Includes(types, type)
           /\ \A type : Once(types, type) => Once(SubSeq(types, 1, n), type)
<1> DEFINE some == SubSeq(types, 1, n)
<1>1. /\ Len(types) \in Nat /\ DOMAIN types = 1..Len(types) /\ some \in Seq(S)
      /\ DOMAIN some = 1..n
      /\ \A i \in 1..n : some[i] = types[i]
  OBVIOUS
<1>2. \A i \in DOMAIN some : i \in DOMAIN types /\ some[i] = types[i]
  BY <1>1
<1> HIDE DEF some
<1> QED BY <1>1, <1>2 DEF Includes, Once, some

LEMMA ConcatIncludes ==
    ASSUME NEW S, NEW types \in Seq(S), NEW more \in Seq(S)
    PROVE  /\ types \o more \in Seq(S)
           /\ \A type : Includes(types \o more, type) <=>
                            Includes(types, type) \/ Includes(more, type)
           /\ \A type : Once(types, type) /\ ~ Includes(more, type)
                            => Once(types \o more, type)
           /\ \A type : ~ Includes(types, type) /\ Once(more, type)
                            => Once(types \o more, type)
<1> DEFINE all == types \o more
           first == 1..Len(types)
           then == (Len(types) + 1)..(Len(types) + Len(more))
<1>1. /\ all \in Seq(S) /\ Len(types) \in Nat /\ Len(more) \in Nat
      /\ DOMAIN types = first /\ DOMAIN more = 1..Len(more)
      /\ DOMAIN all = 1..(Len(types) + Len(more))
      /\ \A i \in first : all[i] = types[i]
      /\ \A i \in then : all[i] = more[i - Len(types)]
  OBVIOUS
<1>2. /\ DOMAIN all = first \cup then
      /\ \A i \in then : i - Len(types) \in DOMAIN more /\ i \in Int
      /\ \A i \in DOMAIN more : i + Len(types) \in then /\ all[i + Len(types)] = more[i]
  BY <1>1
<1>3. \A i, j \in then : i - Len(types) = j - Len(types) => i = j
  BY <1>1, <1>2
<1> HIDE DEF all, first, then
<1>4. \A type : Includes(all, type) <=> Includes(types, type) \/ Includes(more, type)
  BY <1>1, <1>2 DEF Includes
<1>5. ASSUME NEW type, Once(types, type), ~ Includes(more, type)
      PROVE  Once(all, type)
  <2>1. \A i \in DOMAIN all : all[i] = type => i \in DOMAIN types /\ types[i] = type
    BY <1>1, <1>2, <1>5 DEF Includes
  <2> QED BY <1>5, <2>1 DEF Once
<1>6. ASSUME NEW type, ~ Includes(types, type), Once(more, type)
      PROVE  Once(all, type)
  <2>1. \A i \in DOMAIN all : all[i] = type =>
            /\ i \in then /\ i - Len(types) \in DOMAIN more
            /\ more[i - Len(types)] = type
    BY <1>1, <1>2, <1>6 DEF Includes
  <2> QED BY <1>3, <1>6, <2>1 DEF Once
<1> QED BY <1>1, <1>4, <1>5, <1>6 DEF all

---------------------------------------------------------------------------
(* Sequences of one or two *)

LEMMA SameSequence ==
    ASSUME NEW S, NEW s \in Seq(S), NEW r \in Seq(S), Len(s) = Len(r),
           \A i \in 1..Len(s) : s[i] = r[i]
    PROVE  s = r
OBVIOUS

LEMMA OneIs ==
    ASSUME NEW f, NEW s \in Seq({f}), Len(s) = 1, s[1] = f
    PROVE  s = <<f>>
<1> DEFINE r == <<f>>
<1>1. r \in Seq({f}) /\ Len(r) = 1 /\ r[1] = f
  OBVIOUS
<1> HIDE DEF r
<1>2. \A i \in 1..Len(s) : s[i] = r[i]
  BY <1>1
<1>3. s = r
  BY <1>1, <1>2, SameSequence
<1> QED BY <1>3 DEF r

LEMMA TwoAre ==
    ASSUME NEW f, NEW g, NEW s \in Seq({f, g}), Len(s) = 2, s[1] = f, s[2] = g
    PROVE  s = <<f, g>>
<1> DEFINE r == <<f, g>>
<1>1. r \in Seq({f, g}) /\ Len(r) = 2 /\ r[1] = f /\ r[2] = g
  OBVIOUS
<1> HIDE DEF r
<1>2. \A i \in 1..Len(s) : s[i] = r[i]
  BY <1>1
<1>3. s = r
  BY <1>1, <1>2, SameSequence
<1> QED BY <1>3 DEF r

LEMMA ShortSequences ==
    ASSUME NEW f
    PROVE  /\ <<f>> # <<>> /\ Head(<<f>>) = f /\ Tail(<<f>>) = <<>>
           /\ Append(<<>>, f) = <<f>> /\ <<>> \o <<f>> = <<f>>
           /\ Len(<<f>>) = 1 /\ SubSeq(<<f>>, 1, 0) = <<>> /\ SubSeq(<<f>>, 1, 1) = <<f>>
           /\ Len(<<>>) = 0 /\ SubSeq(<<>>, 1, 0) = <<>>
<1>1. <<f>> \in Seq({f}) /\ Len(<<f>>) = 1
  OBVIOUS
<1>2. /\ SubSeq(<<f>>, 1, 1) \in Seq({f}) /\ Len(SubSeq(<<f>>, 1, 1)) = 1
      /\ SubSeq(<<f>>, 1, 1)[1] = f
  BY <1>1
<1>3. SubSeq(<<f>>, 1, 1) = <<f>>
  BY <1>2, OneIs
<1>4. <<f>> # <<>> /\ Head(<<f>>) = f
  OBVIOUS
<1>5. Tail(<<f>>) = <<>>
  OBVIOUS
<1>6. Append(<<>>, f) = <<f>>
  OBVIOUS
<1>7. <<>> \o <<f>> = <<f>>
  OBVIOUS
<1>8. SubSeq(<<f>>, 1, 0) = <<>>
  OBVIOUS
<1>9. Len(<<>>) = 0 /\ SubSeq(<<>>, 1, 0) = <<>>
  OBVIOUS
<1> QED BY <1>1, <1>3, <1>4, <1>5, <1>6, <1>7, <1>8, <1>9

LEMMA PairsAre ==
    ASSUME NEW f, NEW g
    PROVE  /\ <<f, g>> # <<>> /\ Head(<<f, g>>) = f /\ Tail(<<f, g>>) = <<g>>
           /\ Append(<<f>>, g) = <<f, g>> /\ <<f>> \o <<g>> = <<f, g>>
<1> DEFINE S == {f, g}
<1>1. <<f>> \in Seq(S) /\ Len(<<f>>) = 1 /\ <<g>> \in Seq(S) /\ Len(<<g>>) = 1
  OBVIOUS
<1>2. Append(<<f>>, g) \in Seq(S) /\ Len(Append(<<f>>, g)) = 2
  BY <1>1
<1>3. Append(<<f>>, g)[1] = f /\ Append(<<f>>, g)[2] = g
  BY <1>1
<1>4. <<f>> \o <<g>> \in Seq(S) /\ Len(<<f>> \o <<g>>) = 2
  BY <1>1
<1>5. (<<f>> \o <<g>>)[1] = f /\ (<<f>> \o <<g>>)[2] = g
  BY <1>1
<1>6. Append(<<f>>, g) = <<f, g>>
  BY <1>2, <1>3, TwoAre
<1>7. <<f>> \o <<g>> = <<f, g>>
  BY <1>4, <1>5, TwoAre
<1>8. <<f, g>> # <<>> /\ Head(<<f, g>>) = f
  OBVIOUS
<1>9. Tail(<<f, g>>) = <<g>>
  OBVIOUS
<1> QED BY <1>6, <1>7, <1>8, <1>9
=============================================================================
