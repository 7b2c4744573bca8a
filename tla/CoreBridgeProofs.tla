-------------------------- MODULE CoreBridgeProofs --------------------------
(***************************************************************************)
(* Theorems about CoreBridge: sizes are taken back no more often than      *)
(* pages said keep:true; pages never answer each other's sizes; and the    *)
(* size that the app window took is had back.                              *)
(***************************************************************************)
EXTENDS CoreBridge, FiniteSetTheorems, TLAPS

\* A page remembers every size that pages use, as it does while there are no
\* more of them than asked keeps (terminal_core_bridge.go:136-146).
SizesAreRemembered == IsFiniteSet(Sizes) /\ Cardinality(Sizes) <= RecentSizes

-----------------------------------------------------------------------------
(***************************************************************************)
(* The sizes a page remembers.                                             *)
(***************************************************************************)

NoRepeats(own) == \A i, j \in DOMAIN own : own[i] = own[j] => i = j
Has(own, x) == \E i \in DOMAIN own : own[i] = x
Remembered(own) == own \in Seq(Sizes) /\ NoRepeats(own) /\ Len(own) <= RecentSizes

LEMMA PlaceFound ==
  ASSUME NEW own \in Seq(Sizes), NEW s
  PROVE  /\ Place(own, s) \in 1 .. Len(own) + 1
         /\ Place(own, s) <= Len(own) => own[Place(own, s)] = s
         /\ Place(own, s) > Len(own) => ~Has(own, s)
<1>1. CASE Has(own, s)
  <2>1. PICK i \in DOMAIN own : own[i] = s
    BY <1>1 DEF Has
  <2>2. Place(own, s) \in DOMAIN own /\ own[Place(own, s)] = s
    BY <2>1 DEF Place
  <2> QED
    BY <2>2
<1>2. CASE ~Has(own, s)
  <2>1. Place(own, s) = Len(own) + 1
    BY <1>2 DEF Has, Place
  <2> QED
    BY <1>2, <2>1
<1> QED
  BY <1>1, <1>2

\* The list once s was asked for has s first, and nothing twice.
LEMMA AskedRemembers ==
  ASSUME NEW own, Remembered(own), NEW s \in Sizes
  PROVE  /\ Remembered(asked(own, s))
         /\ Len(asked(own, s)) >= 1
         /\ asked(own, s)[1] = s
<1> DEFINE k == Place(own, s)
           n == IF k <= Len(own) THEN Len(own)
                ELSE IF Len(own) < RecentSizes THEN Len(own) + 1 ELSE RecentSizes
<1>0. own \in Seq(Sizes) /\ NoRepeats(own) /\ Len(own) <= RecentSizes /\ RecentSizes \in Nat \ {0}
  BY CoreBridgeBounds DEF Remembered
<1>1. /\ k \in 1 .. Len(own) + 1
      /\ k <= Len(own) => own[k] = s
      /\ k > Len(own) => ~Has(own, s)
  BY <1>0, PlaceFound
<1>2. asked(own, s) = [i \in 1 .. n |-> IF i = 1 THEN s ELSE IF i <= k THEN own[i - 1] ELSE own[i]]
  BY DEF asked
<1> HIDE DEF k
<1>3. n \in 1 .. RecentSizes /\ n <= Len(own) + 1 /\ (k <= Len(own) => n = Len(own))
  BY <1>0, <1>1
<1>8. k > Len(own) => k = Len(own) + 1
  BY <1>0, <1>1
<1> HIDE DEF n
<1>4. \A i \in 2 .. n : /\ i <= k => i - 1 \in 1 .. Len(own) /\ i - 1 < k
                        /\ i > k => i \in 1 .. Len(own)
  BY <1>0, <1>1, <1>3, <1>8
<1>5. asked(own, s) \in Seq(Sizes) /\ Len(asked(own, s)) = n /\ DOMAIN asked(own, s) = 1 .. n
  <2>1. \A i \in 1 .. n : (IF i = 1 THEN s ELSE IF i <= k THEN own[i - 1] ELSE own[i]) \in Sizes
    BY <1>0, <1>1, <1>3, <1>4
  <2> QED
    BY <1>2, <1>3, <2>1
<1>6. NoRepeats(asked(own, s))
  <2> SUFFICES ASSUME NEW i \in 1 .. n, NEW j \in 1 .. n, asked(own, s)[i] = asked(own, s)[j], i # j
               PROVE  FALSE
    BY <1>5 DEF NoRepeats
  <2>1. ASSUME NEW a \in 2 .. n, asked(own, s)[a] = s PROVE FALSE
    <3>1. CASE a <= k
      <4>1. own[a - 1] = s /\ a - 1 \in DOMAIN own /\ a - 1 < k
        BY <1>0, <1>2, <1>4, <2>1, <3>1
      <4> QED
        BY <1>0, <1>1, <4>1 DEF NoRepeats, Has
    <3>2. CASE a > k
      <4>1. own[a] = s /\ a \in DOMAIN own /\ a # k
        BY <1>0, <1>1, <1>2, <1>4, <2>1, <3>2
      <4> QED
        BY <1>0, <1>1, <4>1 DEF NoRepeats, Has
    <3> QED
      BY <1>1, <3>1, <3>2
  <2>2. asked(own, s)[1] = s
    BY <1>2, <1>3
  <2>3. i \in 2 .. n /\ j \in 2 .. n
    BY <2>1, <2>2
  <2> DEFINE at(a) == IF a <= k THEN a - 1 ELSE a
  <2>4. \A a \in 2 .. n : at(a) \in DOMAIN own /\ asked(own, s)[a] = own[at(a)]
    <3> SUFFICES ASSUME NEW a \in 2 .. n
                 PROVE  at(a) \in DOMAIN own /\ asked(own, s)[a] = own[at(a)]
      OBVIOUS
    <3>1. a \in 1 .. n /\ a # 1
      BY <1>3
    <3>2. asked(own, s)[a] = IF a <= k THEN own[a - 1] ELSE own[a]
      BY <1>2, <3>1
    <3>3. at(a) \in DOMAIN own
      BY <1>0, <1>1, <1>4
    <3> QED
      BY <1>1, <3>2, <3>3
  <2>5. at(i) # at(j)
    <3>1. CASE i <= k /\ j > k
      <4>1. i - 1 < j
        BY <1>1, <3>1
      <4> QED
        BY <3>1, <4>1
    <3>2. CASE j <= k /\ i > k
      <4>1. j - 1 < i
        BY <1>1, <3>2
      <4> QED
        BY <3>2, <4>1
    <3> QED
      BY <1>1, <3>1, <3>2
  <2> QED
    BY <1>0, <2>3, <2>4, <2>5 DEF NoRepeats
<1> QED
  BY <1>0, <1>2, <1>3, <1>5, <1>6 DEF Remembered

\* A page that remembers every size forgets none.
LEMMA AskedForgetsNothing ==
  ASSUME SizesAreRemembered, NEW own, Remembered(own), NEW s \in Sizes, NEW x
  PROVE  Has(asked(own, s), x) <=> x = s \/ Has(own, x)
<1> DEFINE k == Place(own, s)
           n == IF k <= Len(own) THEN Len(own)
                ELSE IF Len(own) < RecentSizes THEN Len(own) + 1 ELSE RecentSizes
<1>0. own \in Seq(Sizes) /\ NoRepeats(own) /\ Len(own) <= RecentSizes /\ RecentSizes \in Nat \ {0}
  BY CoreBridgeBounds DEF Remembered
<1>1. /\ k \in 1 .. Len(own) + 1
      /\ k <= Len(own) => own[k] = s
      /\ k > Len(own) => ~Has(own, s)
  BY <1>0, PlaceFound
<1>2. asked(own, s) = [i \in 1 .. n |-> IF i = 1 THEN s ELSE IF i <= k THEN own[i - 1] ELSE own[i]]
  BY DEF asked
<1> HIDE DEF k
<1>3. ASSUME k > Len(own) PROVE Len(own) < RecentSizes
  <2> SUFFICES ASSUME Len(own) = RecentSizes PROVE FALSE
    BY <1>0
  <2>1. IsFiniteSet(Sizes \ {s}) /\ Cardinality(Sizes \ {s}) = Cardinality(Sizes) - 1
    BY FS_RemoveElement DEF SizesAreRemembered
  <2>2. IsFiniteSet(1 .. RecentSizes) /\ Cardinality(1 .. RecentSizes) = RecentSizes
    BY <1>0, FS_Interval
  <2>3. Cardinality(Sizes) \in Nat /\ Cardinality(Sizes) <= RecentSizes
    BY FS_CardinalityType DEF SizesAreRemembered
  <2>4. Cardinality(Sizes \ {s}) < Cardinality(1 .. RecentSizes)
    BY <1>0, <2>1, <2>2, <2>3
  <2>5. own \in [1 .. RecentSizes -> Sizes \ {s}]
    BY <1>0, <1>1, <1>3 DEF Has
  <2>6. \E i, j \in 1 .. RecentSizes : i # j /\ own[i] = own[j]
    BY <2>1, <2>2, <2>4, <2>5, FS_PigeonHole
  <2> QED
    BY <1>0, <2>6 DEF NoRepeats
<1>4. n = IF k <= Len(own) THEN Len(own) ELSE Len(own) + 1
  BY <1>0, <1>1, <1>3
<1> HIDE DEF n
<1>5. n \in Nat \ {0} /\ k \in 1 .. n
  BY <1>0, <1>1, <1>4
<1>6. DOMAIN asked(own, s) = 1 .. n
  BY <1>2
<1>7. ASSUME Has(asked(own, s), x) PROVE x = s \/ Has(own, x)
  <2>1. PICK i \in 1 .. n : asked(own, s)[i] = x
    BY <1>6, <1>7 DEF Has
  <2>2. CASE i = 1
    BY <1>2, <2>1, <2>2
  <2>3. CASE i # 1 /\ i <= k
    <3>1. i - 1 \in DOMAIN own /\ own[i - 1] = x
      BY <1>0, <1>1, <1>2, <2>1, <2>3
    <3> QED
      BY <3>1 DEF Has
  <2>4. CASE i # 1 /\ i > k
    <3>1. i \in DOMAIN own /\ own[i] = x
      BY <1>0, <1>1, <1>2, <1>4, <2>1, <2>4
    <3> QED
      BY <3>1 DEF Has
  <2> QED
    BY <1>1, <2>2, <2>3, <2>4
<1>8. ASSUME x = s PROVE Has(asked(own, s), x)
  <2>1. 1 \in 1 .. n /\ asked(own, s)[1] = s
    BY <1>2, <1>5
  <2> QED
    BY <1>6, <1>8, <2>1 DEF Has
<1>9. ASSUME Has(own, x) PROVE Has(asked(own, s), x)
  <2>1. PICK i \in 1 .. Len(own) : own[i] = x
    BY <1>0, <1>9 DEF Has
  <2>2. CASE i < k
    <3>1. i + 1 \in 1 .. n /\ asked(own, s)[i + 1] = x
      BY <1>0, <1>1, <1>2, <1>4, <1>5, <2>1, <2>2
    <3> QED
      BY <1>6, <3>1 DEF Has
  <2>3. CASE i = k
    <3>1. x = s
      BY <1>0, <1>1, <2>1, <2>3
    <3> QED
      BY <1>8, <3>1
  <2>4. CASE i > k
    <3>1. i \in 1 .. n /\ asked(own, s)[i] = x
      BY <1>0, <1>1, <1>2, <1>4, <1>5, <2>1, <2>4
    <3> QED
      BY <1>6, <3>1 DEF Has
  <2> QED
    BY <1>1, <2>2, <2>3, <2>4
<1> QED
  BY <1>7, <1>8, <1>9

-----------------------------------------------------------------------------
(***************************************************************************)
(* Types and the shape of a stream.                                        *)
(***************************************************************************)

Times == {"new", "opening", "attached", "ended"}
StreamType == [at : Times, controlled : BOOLEAN, holding : BOOLEAN, armed : BOOLEAN, kept : Nat,
               own : Seq(Sizes), known : Sizes \cup AppSizes \cup {0}, takeBack : BOOLEAN]

Types ==
    /\ size \in Sizes \cup AppSizes
    /\ stream \in [Pages -> StreamType]
    /\ events \in [Pages -> Seq(Sizes \cup AppSizes)]
    /\ resizes \in [Pages -> Seq(Sizes)]
    /\ keeps \in 0 .. MaxKeeps /\ backs \in Nat /\ outside \in BOOLEAN /\ takes \in 0 .. 2

\* A stream controls and takes back only while it is attached, and remembers
\* each size once.
Formed(r) ==
    /\ r.at = "new" => r = NoStream
    /\ r.at # "new" => Len(r.own) >= 1
    /\ Remembered(r.own)
    /\ r.at # "attached" => ~r.takeBack /\ ~r.controlled
    /\ r.at = "opening" => r.own = <<r.known>>

Shape == \A p \in Pages :
    /\ Formed(stream[p])
    /\ stream[p].kept <= keeps
    /\ stream[p].at \in {"new", "ended"} => events[p] = <<>>

Base == Types /\ Shape

LEMMA Bounds ==
  /\ RecentSizes \in Nat \ {0} /\ MaxKeeps \in Nat \ {0}
  /\ Sizes \cap AppSizes = {}
BY CoreBridgeBounds, SizesDiffer

LEMMA NoStreamFormed == NoStream \in StreamType /\ Formed(NoStream)
<1>1. <<>> \in Seq(Sizes) /\ Remembered(<<>>)
  BY Bounds DEF Remembered, NoRepeats
<1> QED
  BY <1>1 DEF NoStream, StreamType, Times, Formed

LEMMA BaseInitially == Init => Base
<1> SUFFICES ASSUME Init PROVE Base
  OBVIOUS
<1>1. NoStream \in StreamType /\ Formed(NoStream) /\ NoStream.kept = 0
  BY NoStreamFormed DEF NoStream
<1>2. \A p \in Pages : stream[p] = NoStream /\ events[p] = <<>> /\ resizes[p] = <<>>
  BY DEF Init
<1>3. Types
  <2>1. <<>> \in Seq(Sizes \cup AppSizes) /\ <<>> \in Seq(Sizes)
    OBVIOUS
  <2>2. /\ stream \in [Pages -> StreamType]
        /\ events \in [Pages -> Seq(Sizes \cup AppSizes)]
        /\ resizes \in [Pages -> Seq(Sizes)]
    BY <1>1, <2>1 DEF Init
  <2>3. size \in Sizes \cup AppSizes /\ keeps \in 0 .. MaxKeeps /\ backs \in Nat /\ takes \in 0 .. 2
    BY Bounds DEF Init
  <2>4. outside \in BOOLEAN
    BY DEF Init
  <2> QED
    BY <2>2, <2>3, <2>4 DEF Types
<1> QED
  BY <1>1, <1>2, <1>3 DEF Base, Shape, Init

\* What an announcement leaves in a page's queue.
LEMMA AnnounceAdds ==
  ASSUME Types, NEW s \in Sizes \cup AppSizes
  PROVE  /\ Announce(s, events) \in [Pages -> Seq(Sizes \cup AppSizes)]
         /\ \A p \in Pages : Announce(s, events)[p] =
                IF p \in Following /\ s # size THEN Append(events[p], s) ELSE events[p]
BY DEF Announce, Types

LEMMA SendAdds ==
  ASSUME Types, NEW p \in Pages, NEW s \in Sizes, Send(p, s)
  PROVE  /\ resizes' \in [Pages -> Seq(Sizes)]
         /\ resizes'[p] = Append(resizes[p], s)
         /\ \A q \in Pages : q # p => resizes'[q] = resizes[q]
<1>1. resizes \in [Pages -> Seq(Sizes)] /\ resizes' = [resizes EXCEPT ![p] = Append(resizes[p], s)]
  BY DEF Send, Types
<1>2. Append(resizes[p], s) \in Seq(Sizes)
  BY <1>1
<1> QED
  BY <1>1, <1>2

\* What a step does to the streams: one page's record r is written.
Writes(p, r) == stream' = [stream EXCEPT ![p] = r]

LEMMA WritesOne ==
  ASSUME Types, NEW p \in Pages, NEW r \in StreamType, Writes(p, r)
  PROVE  /\ stream' \in [Pages -> StreamType]
         /\ stream'[p] = r
         /\ \A q \in Pages : q # p => stream'[q] = stream[q]
BY DEF Types, Writes

\* What the operations write.
Opened(s) == [NoStream EXCEPT !.at = "opening", !.own = AskedFirst(s), !.known = s]
Attached(r) == [r EXCEPT !.at = "attached", !.controlled = TRUE]
Ended(r) == [r EXCEPT !.at = "ended", !.controlled = FALSE, !.takeBack = FALSE]
Noticed(p, s) == [stream[p] EXCEPT !.known = s, !.armed = spend(p, s), !.takeBack = @ \/ takesSizeBack(p, s)]
TookBack(r) == [r EXCEPT !.takeBack = FALSE]
Asked(r, s) == [r EXCEPT !.own = asked(@, s)]
Kept(r, s, n) == [r EXCEPT !.own = asked(@, s), !.holding = TRUE, !.armed = TRUE, !.kept = n]
Hidden(r, s) == [r EXCEPT !.own = asked(@, s), !.holding = FALSE, !.armed = FALSE]
Released(r) == [r EXCEPT !.controlled = FALSE]

LEMMA OpenWrites ==
  ASSUME Base, NEW p \in Pages, NEW s \in Sizes, Open(p, s)
  PROVE  Writes(p, Opened(s)) /\ Opened(s) \in StreamType /\ Formed(Opened(s)) /\ stream[p] = NoStream
<1>1. stream[p] = NoStream
  BY DEF Open, Base, Shape, Formed
<1>2. Writes(p, Opened(s))
  BY <1>1 DEF Open, Writes, Opened, Base, Types
<1>3. <<s>> \in Seq(Sizes) /\ Remembered(<<s>>) /\ Len(<<s>>) = 1
  BY Bounds DEF Remembered, NoRepeats
<1>4. Opened(s) \in StreamType
  BY <1>3, NoStreamFormed DEF Opened, AskedFirst, StreamType, Times
<1>5. /\ Opened(s).at = "opening" /\ Opened(s).own = <<s>> /\ Opened(s).known = s
      /\ ~Opened(s).takeBack /\ ~Opened(s).controlled
  BY DEF Opened, NoStream, AskedFirst
<1> QED
  BY <1>1, <1>2, <1>3, <1>4, <1>5 DEF Formed

LEMMA StreamFields ==
  ASSUME NEW r \in StreamType
  PROVE  /\ r.at \in Times /\ r.controlled \in BOOLEAN /\ r.holding \in BOOLEAN /\ r.armed \in BOOLEAN
         /\ r.kept \in Nat /\ r.own \in Seq(Sizes) /\ r.known \in Sizes \cup AppSizes \cup {0}
         /\ r.takeBack \in BOOLEAN
         /\ r = [at |-> r.at, controlled |-> r.controlled, holding |-> r.holding, armed |-> r.armed,
                 kept |-> r.kept, own |-> r.own, known |-> r.known, takeBack |-> r.takeBack]
BY DEF StreamType

LEMMA AttachWrites ==
  ASSUME Base, NEW p \in Pages, Attach(p)
  PROVE  /\ Writes(p, Attached(stream[p]))
         /\ Attached(stream[p]) \in StreamType /\ Formed(Attached(stream[p]))
<1>1. stream[p] \in StreamType /\ Formed(stream[p]) /\ stream[p].at = "opening"
  BY DEF Attach, Base, Types, Shape
<1>2. Writes(p, Attached(stream[p]))
  BY DEF Attach, Writes, Attached, Base, Types
<1> QED
  BY <1>1, <1>2 DEF Attached, Formed, StreamType, Times

LEMMA EndWrites ==
  ASSUME Base, NEW p \in Pages, End(p)
  PROVE  /\ Writes(p, Ended(stream[p]))
         /\ Ended(stream[p]) \in StreamType /\ Formed(Ended(stream[p]))
<1>1. stream[p] \in StreamType /\ Formed(stream[p]) /\ stream[p].at \in {"opening", "attached"}
  BY DEF End, Base, Types, Shape
<1>2. Writes(p, Ended(stream[p]))
  BY DEF End, Writes, Ended, Base, Types
<1> QED
  BY <1>1, <1>2 DEF Ended, Formed, StreamType, Times

LEMMA ReleaseWrites ==
  ASSUME Base, NEW p \in Pages, Release(p)
  PROVE  /\ Writes(p, Released(stream[p]))
         /\ Released(stream[p]) \in StreamType /\ Formed(Released(stream[p]))
<1>1. stream[p] \in StreamType /\ Formed(stream[p]) /\ stream[p].at = "attached"
  BY DEF Release, Base, Types, Shape
<1>2. Writes(p, Released(stream[p]))
  BY DEF Release, Writes, Released, Base, Types
<1> QED
  BY <1>1, <1>2 DEF Released, Formed, StreamType, Times

LEMMA TakeSizeBackWrites ==
  ASSUME Base, NEW p \in Pages, TakeSizeBack(p)
  PROVE  /\ Writes(p, TookBack(stream[p]))
         /\ TookBack(stream[p]) \in StreamType /\ Formed(TookBack(stream[p]))
<1>1. stream[p] \in StreamType /\ Formed(stream[p]) /\ stream[p].at = "attached"
  BY DEF TakeSizeBack, Base, Types, Shape
<1>2. Writes(p, TookBack(stream[p]))
  BY DEF TakeSizeBack, Writes, TookBack, Base, Types
<1> QED
  BY <1>1, <1>2 DEF TookBack, Formed, StreamType, Times

\* A page that asks for a size remembers it.
LEMMA AskingWrites ==
  ASSUME Base, NEW p \in Pages, NEW s \in Sizes, stream[p].at = "attached", NEW n \in Nat
  PROVE  /\ Asked(stream[p], s) \in StreamType /\ Formed(Asked(stream[p], s))
         /\ Kept(stream[p], s, n) \in StreamType /\ Formed(Kept(stream[p], s, n))
         /\ Hidden(stream[p], s) \in StreamType /\ Formed(Hidden(stream[p], s))
<1>1. stream[p] \in StreamType /\ Formed(stream[p]) /\ Remembered(stream[p].own)
  BY DEF Base, Types, Shape, Formed
<1> DEFINE own == asked(stream[p].own, s)
<1>2. own \in Seq(Sizes) /\ Remembered(own) /\ Len(own) >= 1
  BY <1>1, AskedRemembers DEF Remembered
<1> HIDE DEF own
<1>3. /\ Asked(stream[p], s) = [stream[p] EXCEPT !.own = own]
      /\ Kept(stream[p], s, n) = [stream[p] EXCEPT !.own = own, !.holding = TRUE, !.armed = TRUE, !.kept = n]
      /\ Hidden(stream[p], s) = [stream[p] EXCEPT !.own = own, !.holding = FALSE, !.armed = FALSE]
  BY <1>1 DEF own, Asked, Kept, Hidden, StreamType
<1> QED
  BY <1>1, <1>2, <1>3 DEF Formed, StreamType

LEMMA ResizeWrites ==
  ASSUME Base, NEW p \in Pages, NEW s \in Sizes, Resize(p, s)
  PROVE  /\ Writes(p, Asked(stream[p], s))
         /\ Asked(stream[p], s) \in StreamType /\ Formed(Asked(stream[p], s))
<1>1. Writes(p, Asked(stream[p], s))
  BY DEF Resize, Writes, Asked, Base, Types
<1> QED
  BY <1>1, AskingWrites DEF Resize, MayResize

LEMMA KeepWrites ==
  ASSUME Base, NEW p \in Pages, NEW s \in Sizes, Keep(p, s)
  PROVE  /\ Writes(p, Kept(stream[p], s, keeps + 1))
         /\ Kept(stream[p], s, keeps + 1) \in StreamType /\ Formed(Kept(stream[p], s, keeps + 1))
<1>1. Writes(p, Kept(stream[p], s, keeps + 1))
  BY DEF Keep, Writes, Kept, Base, Types
<1>2. keeps + 1 \in Nat
  BY DEF Base, Types
<1> QED
  BY <1>1, <1>2, AskingWrites DEF Keep, MayResize

LEMMA HideWrites ==
  ASSUME Base, NEW p \in Pages, NEW s \in Sizes, Hide(p, s)
  PROVE  /\ Writes(p, Hidden(stream[p], s))
         /\ Hidden(stream[p], s) \in StreamType /\ Formed(Hidden(stream[p], s))
<1>1. Writes(p, Hidden(stream[p], s))
  BY DEF Hide, Writes, Hidden, Base, Types
<1> QED
  BY <1>1, AskingWrites DEF Hide, MayResize

\* A size event is noticed when it says something new.
LEMMA SizeEventWrites ==
  ASSUME Base, NEW p \in Pages, SizeEvent(p)
  PROVE  /\ IF Head(events[p]) # stream[p].known THEN Writes(p, Noticed(p, Head(events[p])))
                                                  ELSE stream' = stream
         /\ Noticed(p, Head(events[p])) \in StreamType /\ Formed(Noticed(p, Head(events[p])))
         /\ Head(events[p]) \in Sizes \cup AppSizes
         /\ events[p] \in Seq(Sizes \cup AppSizes) /\ Len(events[p]) >= 1
<1>1. stream[p] \in StreamType /\ Formed(stream[p]) /\ stream[p].at = "attached"
  BY DEF SizeEvent, Base, Types, Shape
<1>2. events[p] \in Seq(Sizes \cup AppSizes) /\ Len(events[p]) >= 1
  BY DEF SizeEvent, Base, Types
<1>3. Head(events[p]) \in Sizes \cup AppSizes
  BY <1>2
<1> DEFINE s == Head(events[p])
<1>4. IF s # stream[p].known THEN Writes(p, Noticed(p, s)) ELSE stream' = stream
  BY DEF SizeEvent, Writes, Noticed, Base, Types
<1>5. takesSizeBack(p, s) \in BOOLEAN /\ spend(p, s) \in BOOLEAN
  BY DEF takesSizeBack, spend
<1> HIDE DEF s
<1>6. PICK a \in BOOLEAN, t \in BOOLEAN : spend(p, s) = a /\ takesSizeBack(p, s) = t
  BY <1>5
<1>7. Noticed(p, s) = [stream[p] EXCEPT !.known = s, !.armed = a, !.takeBack = @ \/ t]
  BY <1>6 DEF Noticed
<1>8. Noticed(p, s) \in StreamType /\ Formed(Noticed(p, s))
  BY <1>1, <1>3, <1>7 DEF s, Formed, StreamType, Times
<1> QED
  BY <1>2, <1>3, <1>4, <1>8 DEF s

\* Every step keeps the types and the shape of the streams.
LEMMA BaseStep ==
  ASSUME Base, [Next]_vars
  PROVE  Base'
<1>0. Types /\ Shape
  BY DEF Base
<1>1. ASSUME NEW p \in Pages, NEW s \in Sizes, Open(p, s) PROVE Base'
  <2>1. Writes(p, Opened(s)) /\ Opened(s) \in StreamType /\ Formed(Opened(s))
    BY <1>1, OpenWrites
  <2>2. Opened(s).kept = 0 /\ Opened(s).at = "opening"
    BY DEF Opened, NoStream
  <2>3. UNCHANGED <<size, events, resizes, keeps, backs, outside, takes>> /\ keeps >= 0
    BY <1>0, <1>1 DEF Open, Types
  <2>4. stream' \in [Pages -> StreamType] /\ stream'[p] = Opened(s)
        /\ \A q \in Pages : q # p => stream'[q] = stream[q]
    BY <1>0, <2>1, WritesOne
  <2>5. Types'
    BY <1>0, <2>3, <2>4 DEF Types
  <2>6. Shape'
    BY <1>0, <2>1, <2>2, <2>3, <2>4 DEF Shape
  <2> QED
    BY <2>5, <2>6 DEF Base
<1>2. ASSUME NEW p \in Pages, Attach(p) PROVE Base'
  <2>1. Writes(p, Attached(stream[p])) /\ Attached(stream[p]) \in StreamType /\ Formed(Attached(stream[p]))
    BY <1>2, AttachWrites
  <2>2. Attached(stream[p]).kept = stream[p].kept /\ Attached(stream[p]).at = "attached"
    BY <1>0 DEF Attached, Types, StreamType
  <2>3. stream[p].known \in Sizes
    BY <1>0, <1>2, Bounds DEF Attach, Shape, Formed, Types, StreamType
  <2>4. /\ size' = stream[p].known /\ events' = Announce(stream[p].known, events)
        /\ UNCHANGED <<resizes, keeps, backs, outside, takes>>
    BY <1>2 DEF Attach
  <2>5. /\ events' \in [Pages -> Seq(Sizes \cup AppSizes)]
        /\ \A q \in Pages : q \notin Following => events'[q] = events[q]
    BY <1>0, <2>3, <2>4, AnnounceAdds
  <2>6. stream' \in [Pages -> StreamType] /\ stream'[p] = Attached(stream[p])
        /\ \A q \in Pages : q # p => stream'[q] = stream[q]
    BY <1>0, <2>1, WritesOne
  <2>7. Types'
    BY <1>0, <2>3, <2>4, <2>5, <2>6 DEF Types
  <2>8. Shape'
    BY <1>0, <2>1, <2>2, <2>4, <2>5, <2>6 DEF Shape, Following
  <2> QED
    BY <2>7, <2>8 DEF Base
<1>3. ASSUME NEW p \in Pages, End(p) PROVE Base'
  <2>1. Writes(p, Ended(stream[p])) /\ Ended(stream[p]) \in StreamType /\ Formed(Ended(stream[p]))
    BY <1>3, EndWrites
  <2>2. Ended(stream[p]).kept = stream[p].kept
    BY <1>0 DEF Ended, Types, StreamType
  <2>3. /\ events' = [events EXCEPT ![p] = <<>>] /\ outside' = TRUE /\ takes' = Void(p)
        /\ UNCHANGED <<size, resizes, keeps, backs>>
    BY <1>3 DEF End
  <2>4. takes' \in 0 .. 2 /\ outside' \in BOOLEAN
    BY <1>0, <2>3 DEF Void, Types
  <2>5. events' \in [Pages -> Seq(Sizes \cup AppSizes)] /\ events'[p] = <<>>
        /\ \A q \in Pages : q # p => events'[q] = events[q]
    BY <1>0, <2>3 DEF Types
  <2>6. stream' \in [Pages -> StreamType] /\ stream'[p] = Ended(stream[p])
        /\ \A q \in Pages : q # p => stream'[q] = stream[q]
    BY <1>0, <2>1, WritesOne
  <2>7. Types'
    BY <1>0, <2>3, <2>4, <2>5, <2>6 DEF Types
  <2>8. Shape'
    BY <1>0, <2>1, <2>2, <2>3, <2>5, <2>6 DEF Shape
  <2> QED
    BY <2>7, <2>8 DEF Base
<1>4. ASSUME NEW p \in Pages, Forget(p) PROVE Base'
  <2>1. Writes(p, NoStream) /\ NoStream \in StreamType /\ Formed(NoStream) /\ NoStream.kept = 0
    BY <1>4, NoStreamFormed DEF Forget, Writes, NoStream
  <2>2. takes' = 2 /\ UNCHANGED <<size, events, resizes, keeps, backs, outside>> /\ stream[p].at = "ended"
    BY <1>4 DEF Forget
  <2>3. events[p] = <<>> /\ keeps >= 0
    BY <1>0, <2>2 DEF Shape, Types
  <2>4. stream' \in [Pages -> StreamType] /\ stream'[p] = NoStream
        /\ \A q \in Pages : q # p => stream'[q] = stream[q]
    BY <1>0, <2>1, WritesOne
  <2>5. Types'
    BY <1>0, <2>2, <2>4 DEF Types
  <2>6. Shape'
    BY <1>0, <2>1, <2>2, <2>3, <2>4 DEF Shape
  <2> QED
    BY <2>5, <2>6 DEF Base
<1>5. ASSUME NEW p \in Pages, SizeEvent(p) PROVE Base'
  <2> DEFINE s == Head(events[p])
  <2>1. /\ IF s # stream[p].known THEN Writes(p, Noticed(p, s)) ELSE stream' = stream
        /\ Noticed(p, s) \in StreamType /\ Formed(Noticed(p, s))
        /\ events[p] \in Seq(Sizes \cup AppSizes) /\ Len(events[p]) >= 1
    BY <1>5, SizeEventWrites
  <2> HIDE DEF s
  <2>2. Noticed(p, s).kept = stream[p].kept /\ Noticed(p, s).at = stream[p].at /\ stream[p].at = "attached"
    BY <1>0, <1>5 DEF Noticed, SizeEvent, Types, StreamType
  <2>3. /\ events' = [events EXCEPT ![p] = Tail(@)]
        /\ UNCHANGED <<size, resizes, keeps, backs, outside, takes>>
    BY <1>5 DEF SizeEvent
  <2>4. Tail(events[p]) \in Seq(Sizes \cup AppSizes)
    BY <2>1
  <2>5. events' \in [Pages -> Seq(Sizes \cup AppSizes)] /\ \A q \in Pages : q # p => events'[q] = events[q]
    BY <1>0, <2>3, <2>4 DEF Types
  <2>6. /\ stream' \in [Pages -> StreamType] /\ \A q \in Pages : q # p => stream'[q] = stream[q]
        /\ Formed(stream'[p]) /\ stream'[p].kept = stream[p].kept /\ stream'[p].at = "attached"
    <3>1. CASE stream' = stream
      BY <1>0, <2>2, <3>1 DEF Types, Shape
    <3>2. CASE Writes(p, Noticed(p, s))
      <4>1. stream' \in [Pages -> StreamType] /\ stream'[p] = Noticed(p, s)
            /\ \A q \in Pages : q # p => stream'[q] = stream[q]
        BY <1>0, <2>1, <3>2, WritesOne
      <4> QED
        BY <2>1, <2>2, <4>1
    <3> QED
      BY <2>1, <3>1, <3>2
  <2>7. Types'
    BY <1>0, <2>3, <2>5, <2>6 DEF Types
  <2>8. Shape'
    BY <1>0, <2>3, <2>5, <2>6 DEF Shape
  <2> QED
    BY <2>7, <2>8 DEF Base
<1>6. ASSUME NEW p \in Pages, TakeSizeBack(p) PROVE Base'
  <2>1. Writes(p, TookBack(stream[p])) /\ TookBack(stream[p]) \in StreamType /\ Formed(TookBack(stream[p]))
    BY <1>6, TakeSizeBackWrites
  <2>2. TookBack(stream[p]).kept = stream[p].kept /\ TookBack(stream[p]).at = stream[p].at
    BY <1>0 DEF TookBack, Types, StreamType
  <2>3. UNCHANGED <<size, events, keeps, outside, takes>>
    BY <1>6 DEF TakeSizeBack
  <2>4. stream[p].own[1] \in Sizes
    <3>1. stream[p].own \in Seq(Sizes) /\ Len(stream[p].own) >= 1
      BY <1>0, <1>6 DEF TakeSizeBack, Types, StreamType, Shape, Formed
    <3> QED
      BY <3>1
  <2>5. resizes' \in [Pages -> Seq(Sizes)] /\ backs' \in Nat
    <3>1. CASE Send(p, stream[p].own[1]) /\ backs' = backs + 1
      BY <1>0, <2>4, <3>1, SendAdds DEF Types
    <3>2. CASE UNCHANGED <<resizes, backs>>
      BY <1>0, <3>2 DEF Types
    <3> QED
      BY <1>6, <3>1, <3>2 DEF TakeSizeBack
  <2>6. stream' \in [Pages -> StreamType] /\ stream'[p] = TookBack(stream[p])
        /\ \A q \in Pages : q # p => stream'[q] = stream[q]
    BY <1>0, <2>1, WritesOne
  <2>7. Types'
    BY <1>0, <2>3, <2>5, <2>6 DEF Types
  <2>8. Shape'
    BY <1>0, <2>1, <2>2, <2>3, <2>6 DEF Shape
  <2> QED
    BY <2>7, <2>8 DEF Base
<1>7. ASSUME NEW p \in Pages, Release(p) PROVE Base'
  <2>1. Writes(p, Released(stream[p])) /\ Released(stream[p]) \in StreamType /\ Formed(Released(stream[p]))
    BY <1>7, ReleaseWrites
  <2>2. Released(stream[p]).kept = stream[p].kept /\ Released(stream[p]).at = stream[p].at
    BY <1>0 DEF Released, Types, StreamType
  <2>3. outside' = TRUE /\ takes' = Void(p) /\ UNCHANGED <<size, events, resizes, keeps, backs>>
    BY <1>7 DEF Release
  <2>4. takes' \in 0 .. 2 /\ outside' \in BOOLEAN
    BY <1>0, <2>3 DEF Void, Types
  <2>6. stream' \in [Pages -> StreamType] /\ stream'[p] = Released(stream[p])
        /\ \A q \in Pages : q # p => stream'[q] = stream[q]
    BY <1>0, <2>1, WritesOne
  <2>7. Types'
    BY <1>0, <2>3, <2>4, <2>6 DEF Types
  <2>8. Shape'
    BY <1>0, <2>1, <2>2, <2>3, <2>6 DEF Shape
  <2> QED
    BY <2>7, <2>8 DEF Base
<1>8. ASSUME NEW p \in Pages, CoreResize(p) PROVE Base'
  <2>1. Head(resizes[p]) \in Sizes /\ Tail(resizes[p]) \in Seq(Sizes)
    BY <1>0, <1>8 DEF CoreResize, Types
  <2>2. /\ size' = Head(resizes[p]) /\ events' = Announce(Head(resizes[p]), events)
        /\ resizes' = [resizes EXCEPT ![p] = Tail(@)] /\ UNCHANGED <<stream, keeps, backs, outside, takes>>
    BY <1>8 DEF CoreResize
  <2>3. /\ events' \in [Pages -> Seq(Sizes \cup AppSizes)]
        /\ \A q \in Pages : q \notin Following => events'[q] = events[q]
    BY <1>0, <2>1, <2>2, AnnounceAdds
  <2>4. Types'
    BY <1>0, <2>1, <2>2, <2>3 DEF Types
  <2>5. Shape'
    BY <1>0, <2>2, <2>3 DEF Shape, Following
  <2> QED
    BY <2>4, <2>5 DEF Base
<1>9. ASSUME NEW p \in Pages, NEW s \in Sizes, Resize(p, s) PROVE Base'
  <2>1. Writes(p, Asked(stream[p], s)) /\ Asked(stream[p], s) \in StreamType /\ Formed(Asked(stream[p], s))
    BY <1>9, ResizeWrites
  <2>2. Asked(stream[p], s).kept = stream[p].kept /\ Asked(stream[p], s).at = stream[p].at
    BY <1>0 DEF Asked, Types, StreamType
  <2>3. UNCHANGED <<size, events, keeps, backs, outside, takes>> /\ (UNCHANGED resizes \/ Send(p, s))
    BY <1>9 DEF Resize, SendUnlessKnown
  <2>5. resizes' \in [Pages -> Seq(Sizes)]
    BY <1>0, <2>3, SendAdds DEF Types
  <2>6. stream' \in [Pages -> StreamType] /\ stream'[p] = Asked(stream[p], s)
        /\ \A q \in Pages : q # p => stream'[q] = stream[q]
    BY <1>0, <2>1, WritesOne
  <2>7. Types'
    BY <1>0, <2>3, <2>5, <2>6 DEF Types
  <2>8. Shape'
    BY <1>0, <2>1, <2>2, <2>3, <2>6 DEF Shape
  <2> QED
    BY <2>7, <2>8 DEF Base
<1>10. ASSUME NEW p \in Pages, NEW s \in Sizes, Keep(p, s) PROVE Base'
  <2> DEFINE r == Kept(stream[p], s, keeps + 1)
  <2>1. Writes(p, r) /\ r \in StreamType /\ Formed(r)
    BY <1>10, KeepWrites
  <2>2. r.kept = keeps + 1 /\ r.at = stream[p].at /\ stream[p].at = "attached"
    BY <1>0, <1>10 DEF Kept, Keep, MayResize, Types, StreamType
  <2> HIDE DEF r
  <2>3. /\ keeps' = keeps + 1 /\ keeps < MaxKeeps /\ takes' = AtMostTwo(Unseen(p))
        /\ UNCHANGED <<size, events, backs, outside>> /\ (UNCHANGED resizes \/ Send(p, s))
    BY <1>10 DEF Keep, SendUnlessKnown
  <2>4. takes' \in 0 .. 2
    <3>1. Unseen(p) \in Nat
      <4>1. DOMAIN events[p] = 1 .. Len(events[p]) /\ Len(events[p]) \in Nat
        BY <1>0 DEF Types
      <4>2. IsFiniteSet(DOMAIN events[p])
        BY <4>1, FS_Interval
      <4>3. Cardinality({i \in DOMAIN events[p] : Foreign(events[p][i])}) \in Nat
        BY <4>2, FS_Subset, FS_CardinalityType
      <4>4. Cardinality({q \in Pages : \E i \in DOMAIN resizes[q] : Foreign(resizes[q][i])}) \in Nat
        BY PagesAreFinite, FS_Subset, FS_CardinalityType
      <4> QED
        BY <4>3, <4>4 DEF Unseen
    <3> QED
      BY <2>3, <3>1 DEF AtMostTwo
  <2>5. resizes' \in [Pages -> Seq(Sizes)] /\ keeps' \in 0 .. MaxKeeps
    BY <1>0, <2>3, Bounds, SendAdds DEF Types
  <2>6. stream' \in [Pages -> StreamType] /\ stream'[p] = r /\ \A q \in Pages : q # p => stream'[q] = stream[q]
    BY <1>0, <2>1, WritesOne
  <2>7. Types'
    BY <1>0, <2>3, <2>4, <2>5, <2>6 DEF Types
  <2>8. Shape'
    <3>1. keeps \in Nat /\ \A q \in Pages : stream[q].kept \in Nat
      BY <1>0 DEF Types, StreamType
    <3>2. \A q \in Pages : stream'[q].kept <= keeps'
      BY <1>0, <2>2, <2>3, <2>6, <3>1 DEF Shape
    <3> QED
      BY <1>0, <2>1, <2>2, <2>3, <2>6, <3>2 DEF Shape
  <2> QED
    BY <2>7, <2>8 DEF Base
<1>11. ASSUME NEW p \in Pages, NEW s \in Sizes, Hide(p, s) PROVE Base'
  <2>1. Writes(p, Hidden(stream[p], s)) /\ Hidden(stream[p], s) \in StreamType /\ Formed(Hidden(stream[p], s))
    BY <1>11, HideWrites
  <2>2. Hidden(stream[p], s).kept = stream[p].kept /\ Hidden(stream[p], s).at = stream[p].at
    BY <1>0 DEF Hidden, Types, StreamType
  <2>3. takes' = Void(p) /\ UNCHANGED <<size, events, resizes, keeps, backs, outside>>
    BY <1>11 DEF Hide
  <2>4. takes' \in 0 .. 2
    BY <1>0, <2>3 DEF Void, Types
  <2>6. stream' \in [Pages -> StreamType] /\ stream'[p] = Hidden(stream[p], s)
        /\ \A q \in Pages : q # p => stream'[q] = stream[q]
    BY <1>0, <2>1, WritesOne
  <2>7. Types'
    BY <1>0, <2>3, <2>4, <2>6 DEF Types
  <2>8. Shape'
    BY <1>0, <2>1, <2>2, <2>3, <2>6 DEF Shape
  <2> QED
    BY <2>7, <2>8 DEF Base
<1>12. ASSUME NEW s \in AppSizes, AppUsed(s) PROVE Base'
  <2>1. /\ size' = s /\ events' = Announce(s, events) /\ outside' = TRUE /\ takes' = AtMostTwo(takes + 1)
        /\ UNCHANGED <<stream, resizes, keeps, backs>>
    BY <1>12 DEF AppUsed
  <2>2. /\ events' \in [Pages -> Seq(Sizes \cup AppSizes)]
        /\ \A q \in Pages : q \notin Following => events'[q] = events[q]
    BY <1>0, <2>1, AnnounceAdds
  <2>3. takes' \in 0 .. 2 /\ outside' \in BOOLEAN
    BY <1>0, <2>1 DEF AtMostTwo, Types
  <2>4. Types'
    BY <1>0, <2>1, <2>2, <2>3 DEF Types
  <2>5. Shape'
    BY <1>0, <2>1, <2>2 DEF Shape, Following
  <2> QED
    BY <2>4, <2>5 DEF Base
<1>13. CASE UNCHANGED vars
  BY <1>0, <1>13 DEF vars, Base, Types, Shape
<1> QED
  BY <1>1, <1>2, <1>3, <1>4, <1>5, <1>6, <1>7, <1>8, <1>9, <1>10, <1>11, <1>12, <1>13 DEF Next

LEMMA BaseHolds == Spec => []Base
<1>1. Init => Base
  BY BaseInitially
<1>2. Base /\ [Next]_vars => Base'
  BY BaseStep
<1> QED
  BY <1>1, <1>2, PTL DEF Spec

\* Sizes, streams and counters have their types, and no page remembers more
\* sizes than asked keeps (terminal_core_bridge.go:86-111, 135-146).
THEOREM CoreBridgeTypes == Spec => []CoreBridgeTypeOK
<1>1. Base => CoreBridgeTypeOK
  <2> SUFFICES ASSUME Base PROVE CoreBridgeTypeOK
    OBVIOUS
  <2>1. ASSUME NEW p \in Pages
        PROVE  /\ stream[p].at \in {"new", "opening", "attached", "ended"}
               /\ {stream[p].controlled, stream[p].holding, stream[p].armed, stream[p].takeBack} \subseteq BOOLEAN
               /\ stream[p].own \in Seq(Sizes) /\ Len(stream[p].own) <= RecentSizes
               /\ events[p] \in Seq(Sizes \cup AppSizes) /\ resizes[p] \in Seq(Sizes)
    <3>1. stream[p] \in StreamType /\ Remembered(stream[p].own)
      BY DEF Base, Types, Shape, Formed
    <3>2. events[p] \in Seq(Sizes \cup AppSizes) /\ resizes[p] \in Seq(Sizes)
      BY DEF Base, Types
    <3> QED
      BY <3>1, <3>2, StreamFields DEF Times, Remembered
  <2> QED
    BY <2>1 DEF CoreBridgeTypeOK, Base, Types
<1> QED
  BY <1>1, BaseHolds, PTL

-----------------------------------------------------------------------------
(***************************************************************************)
(* Take-backs are counted: each that was sent, that waits or that is still *)
(* allowed stands for a keep:true of its own.                              *)
(***************************************************************************)

Armed == {p \in Pages : stream[p].armed}
Wanting == {p \in Pages : stream[p].takeBack}
Counted == backs + Cardinality(Armed) + Cardinality(Wanting) <= keeps

\* What steps do to the count.
CountsLess == Armed' \subseteq Armed /\ Wanting' \subseteq Wanting /\ UNCHANGED <<keeps, backs>>
CountsKeep(p) == /\ Armed' \subseteq Armed \cup {p} /\ Wanting' \subseteq Wanting
                 /\ keeps' = keeps + 1 /\ UNCHANGED backs
CountsSpent(p) == /\ p \in Armed /\ Armed' \subseteq Armed \ {p} /\ Wanting' \subseteq Wanting \cup {p}
                  /\ UNCHANGED <<keeps, backs>>
CountsSent(p) == /\ p \in Wanting /\ Wanting' \subseteq Wanting \ {p} /\ Armed' \subseteq Armed
                 /\ UNCHANGED keeps /\ backs' <= backs + 1

LEMMA CountSubset ==
  ASSUME NEW S \in SUBSET Pages, NEW T \in SUBSET S
  PROVE  Cardinality(S) \in Nat /\ Cardinality(T) \in Nat /\ Cardinality(T) <= Cardinality(S)
<1>1. IsFiniteSet(S)
  BY PagesAreFinite, FS_Subset
<1> QED
  BY <1>1, FS_Subset, FS_CardinalityType

LEMMA CountAdded ==
  ASSUME NEW S \in SUBSET Pages, NEW p \in Pages, NEW T \in SUBSET (S \cup {p})
  PROVE  Cardinality(T) \in Nat /\ Cardinality(T) <= Cardinality(S) + 1
<1>1. IsFiniteSet(S) /\ Cardinality(S) \in Nat
  BY PagesAreFinite, FS_Subset, FS_CardinalityType
<1>2. Cardinality(S \cup {p}) <= Cardinality(S) + 1
  <2>1. Cardinality(S \cup {p}) = IF p \in S THEN Cardinality(S) ELSE Cardinality(S) + 1
    BY <1>1, FS_AddElement
  <2> QED
    BY <1>1, <2>1
<1>3. Cardinality(T) \in Nat /\ Cardinality(S \cup {p}) \in Nat /\ Cardinality(T) <= Cardinality(S \cup {p})
  BY CountSubset
<1> QED
  BY <1>1, <1>2, <1>3

LEMMA CountRemoved ==
  ASSUME NEW S \in SUBSET Pages, NEW p \in S, NEW T \in SUBSET (S \ {p})
  PROVE  Cardinality(T) \in Nat /\ Cardinality(T) <= Cardinality(S) - 1
<1>1. IsFiniteSet(S) /\ Cardinality(S) \in Nat
  BY PagesAreFinite, FS_Subset, FS_CardinalityType
<1>2. Cardinality(S \ {p}) = Cardinality(S) - 1
  BY <1>1, FS_RemoveElement
<1>3. Cardinality(T) \in Nat /\ Cardinality(T) <= Cardinality(S \ {p})
  BY CountSubset
<1> QED
  BY <1>2, <1>3

LEMMA CountKept ==
  ASSUME Base, Base', Counted,
         CountsLess \/ \E p \in Pages : CountsKeep(p) \/ CountsSpent(p) \/ CountsSent(p)
  PROVE  Counted'
<1>1. Armed \in SUBSET Pages /\ Wanting \in SUBSET Pages /\ Armed' \in SUBSET Pages /\ Wanting' \in SUBSET Pages
  BY DEF Armed, Wanting
<1>2. keeps \in Nat /\ backs \in Nat /\ keeps' \in Nat /\ backs' \in Nat
  BY DEF Base, Types
<1>3. Cardinality(Armed) \in Nat /\ Cardinality(Wanting) \in Nat
  BY <1>1, CountSubset
<1>4. Cardinality(Armed') \in Nat /\ Cardinality(Wanting') \in Nat
  BY <1>1, CountSubset
<1> SUFFICES backs' + Cardinality(Armed') + Cardinality(Wanting') <= keeps'
  BY DEF Counted, Armed, Wanting
<1>5. CASE CountsLess
  <2>1. Cardinality(Armed') <= Cardinality(Armed) /\ Cardinality(Wanting') <= Cardinality(Wanting)
    BY <1>1, <1>5, CountSubset DEF CountsLess
  <2>2. keeps' = keeps /\ backs' = backs /\ backs + Cardinality(Armed) + Cardinality(Wanting) <= keeps
    BY <1>5 DEF CountsLess, Counted
  <2> QED
    BY <1>2, <1>3, <1>4, <2>1, <2>2
<1>6. ASSUME NEW p \in Pages, CountsKeep(p)
      PROVE  backs' + Cardinality(Armed') + Cardinality(Wanting') <= keeps'
  <2>1. Cardinality(Armed') <= Cardinality(Armed) + 1 /\ Cardinality(Wanting') <= Cardinality(Wanting)
    BY <1>1, <1>6, CountSubset, CountAdded DEF CountsKeep
  <2>2. keeps' = keeps + 1 /\ backs' = backs /\ backs + Cardinality(Armed) + Cardinality(Wanting) <= keeps
    BY <1>6 DEF CountsKeep, Counted
  <2> QED
    BY <1>2, <1>3, <1>4, <2>1, <2>2
<1>7. ASSUME NEW p \in Pages, CountsSpent(p)
      PROVE  backs' + Cardinality(Armed') + Cardinality(Wanting') <= keeps'
  <2>1. Cardinality(Armed') <= Cardinality(Armed) - 1 /\ Cardinality(Wanting') <= Cardinality(Wanting) + 1
    BY <1>1, <1>7, CountRemoved, CountAdded DEF CountsSpent
  <2>2. keeps' = keeps /\ backs' = backs /\ backs + Cardinality(Armed) + Cardinality(Wanting) <= keeps
    BY <1>7 DEF CountsSpent, Counted
  <2> QED
    BY <1>2, <1>3, <1>4, <2>1, <2>2
<1>8. ASSUME NEW p \in Pages, CountsSent(p)
      PROVE  backs' + Cardinality(Armed') + Cardinality(Wanting') <= keeps'
  <2>1. Cardinality(Wanting') <= Cardinality(Wanting) - 1 /\ Cardinality(Armed') <= Cardinality(Armed)
    BY <1>1, <1>8, CountRemoved, CountSubset DEF CountsSent
  <2>2. keeps' = keeps /\ backs' <= backs + 1 /\ backs + Cardinality(Armed) + Cardinality(Wanting) <= keeps
    BY <1>8 DEF CountsSent, Counted
  <2> QED
    BY <1>2, <1>3, <1>4, <2>1, <2>2
<1> QED
  BY <1>5, <1>6, <1>7, <1>8

\* The record written leaves the others' marks alone.
LEMMA MarksOf ==
  ASSUME Base, NEW p \in Pages, NEW r \in StreamType, Writes(p, r)
  PROVE  /\ r.armed => Armed' \subseteq Armed \cup {p}
         /\ ~r.armed => Armed' \subseteq Armed \ {p}
         /\ (r.armed => stream[p].armed) => Armed' \subseteq Armed
         /\ r.takeBack => Wanting' \subseteq Wanting \cup {p}
         /\ ~r.takeBack => Wanting' \subseteq Wanting \ {p}
         /\ (r.takeBack => stream[p].takeBack) => Wanting' \subseteq Wanting
<1>1. stream'[p] = r /\ \A q \in Pages : q # p => stream'[q] = stream[q]
  BY WritesOne DEF Base
<1> QED
  BY <1>1 DEF Armed, Wanting

LEMMA CountStep ==
  ASSUME Base, [Next]_vars, Counted
  PROVE  Counted'
<1>0. Base' /\ Types /\ \A p \in Pages : stream[p] \in StreamType
  BY BaseStep DEF Base, Types
<1> SUFFICES CountsLess \/ \E p \in Pages : CountsKeep(p) \/ CountsSpent(p) \/ CountsSent(p)
  BY <1>0, CountKept
<1>1. ASSUME NEW p \in Pages, NEW s \in Sizes, Open(p, s) PROVE CountsLess
  <2>1. Writes(p, Opened(s)) /\ Opened(s) \in StreamType /\ ~Opened(s).armed /\ ~Opened(s).takeBack
    BY <1>1, OpenWrites DEF Opened, NoStream
  <2> QED
    BY <1>1, <2>1, MarksOf DEF Open, CountsLess
<1>2. ASSUME NEW p \in Pages, Attach(p) PROVE CountsLess
  <2>1. Writes(p, Attached(stream[p])) /\ Attached(stream[p]) \in StreamType
    BY <1>2, AttachWrites
  <2>2. Attached(stream[p]).armed = stream[p].armed /\ Attached(stream[p]).takeBack = stream[p].takeBack
    BY <1>0 DEF Attached, StreamType
  <2> QED
    BY <1>2, <2>1, <2>2, MarksOf DEF Attach, CountsLess
<1>3. ASSUME NEW p \in Pages, End(p) PROVE CountsLess
  <2>1. Writes(p, Ended(stream[p])) /\ Ended(stream[p]) \in StreamType
    BY <1>3, EndWrites
  <2>2. Ended(stream[p]).armed = stream[p].armed /\ ~Ended(stream[p]).takeBack
    BY <1>0 DEF Ended, StreamType
  <2> QED
    BY <1>3, <2>1, <2>2, MarksOf DEF End, CountsLess
<1>4. ASSUME NEW p \in Pages, Forget(p) PROVE CountsLess
  <2>1. Writes(p, NoStream) /\ NoStream \in StreamType /\ ~NoStream.armed /\ ~NoStream.takeBack
    BY <1>4, NoStreamFormed DEF Forget, Writes, NoStream
  <2> QED
    BY <1>4, <2>1, MarksOf DEF Forget, CountsLess
<1>5. ASSUME NEW p \in Pages, SizeEvent(p) PROVE CountsLess \/ CountsSpent(p)
  <2> DEFINE s == Head(events[p])
  <2>1. /\ IF s # stream[p].known THEN Writes(p, Noticed(p, s)) ELSE stream' = stream
        /\ Noticed(p, s) \in StreamType
    BY <1>5, SizeEventWrites
  <2> HIDE DEF s
  <2>2. UNCHANGED <<keeps, backs>>
    BY <1>5 DEF SizeEvent
  <2>3. CASE stream' = stream
    BY <2>2, <2>3 DEF CountsLess, Armed, Wanting
  <2>4. CASE Writes(p, Noticed(p, s)) /\ takesSizeBack(p, s)
    <3>1. stream[p].armed /\ ~spend(p, s)
      BY <2>4 DEF takesSizeBack, spend
    <3>2. ~Noticed(p, s).armed /\ Noticed(p, s).takeBack
      BY <1>0, <2>4, <3>1 DEF Noticed, StreamType
    <3> QED
      BY <2>1, <2>2, <2>4, <3>1, <3>2, MarksOf DEF CountsSpent, Armed
  <2>5. CASE Writes(p, Noticed(p, s)) /\ ~takesSizeBack(p, s)
    <3>1. Noticed(p, s).armed => stream[p].armed
      BY <1>0 DEF Noticed, spend, StreamType
    <3>2. Noticed(p, s).takeBack => stream[p].takeBack
      BY <1>0, <2>5 DEF Noticed, StreamType
    <3> QED
      BY <2>1, <2>2, <2>5, <3>1, <3>2, MarksOf DEF CountsLess
  <2> QED
    BY <2>1, <2>3, <2>4, <2>5
<1>6. ASSUME NEW p \in Pages, TakeSizeBack(p) PROVE CountsSent(p)
  <2>1. Writes(p, TookBack(stream[p])) /\ TookBack(stream[p]) \in StreamType
    BY <1>6, TakeSizeBackWrites
  <2>2. TookBack(stream[p]).armed = stream[p].armed /\ ~TookBack(stream[p]).takeBack
    BY <1>0 DEF TookBack, StreamType
  <2>3. p \in Wanting /\ UNCHANGED keeps
    BY <1>6 DEF TakeSizeBack, Wanting
  <2>4. backs \in Nat /\ backs' \in {backs, backs + 1}
    BY <1>0, <1>6 DEF TakeSizeBack, Types
  <2> QED
    BY <2>1, <2>2, <2>3, <2>4, MarksOf DEF CountsSent
<1>7. ASSUME NEW p \in Pages, Release(p) PROVE CountsLess
  <2>1. Writes(p, Released(stream[p])) /\ Released(stream[p]) \in StreamType
    BY <1>7, ReleaseWrites
  <2>2. Released(stream[p]).armed = stream[p].armed /\ Released(stream[p]).takeBack = stream[p].takeBack
    BY <1>0 DEF Released, StreamType
  <2> QED
    BY <1>7, <2>1, <2>2, MarksOf DEF Release, CountsLess
<1>8. ASSUME NEW p \in Pages, CoreResize(p) PROVE CountsLess
  BY <1>8 DEF CoreResize, CountsLess, Armed, Wanting
<1>9. ASSUME NEW p \in Pages, NEW s \in Sizes, Resize(p, s) PROVE CountsLess
  <2>1. Writes(p, Asked(stream[p], s)) /\ Asked(stream[p], s) \in StreamType
    BY <1>9, ResizeWrites
  <2>2. Asked(stream[p], s).armed = stream[p].armed /\ Asked(stream[p], s).takeBack = stream[p].takeBack
    BY <1>0 DEF Asked, StreamType
  <2> QED
    BY <1>9, <2>1, <2>2, MarksOf DEF Resize, CountsLess
<1>10. ASSUME NEW p \in Pages, NEW s \in Sizes, Keep(p, s) PROVE CountsKeep(p)
  <2> DEFINE r == Kept(stream[p], s, keeps + 1)
  <2>1. Writes(p, r) /\ r \in StreamType
    BY <1>10, KeepWrites
  <2>2. r.armed /\ r.takeBack = stream[p].takeBack
    BY <1>0 DEF Kept, StreamType
  <2> HIDE DEF r
  <2>3. keeps' = keeps + 1 /\ UNCHANGED backs
    BY <1>10 DEF Keep
  <2> QED
    BY <2>1, <2>2, <2>3, MarksOf DEF CountsKeep
<1>11. ASSUME NEW p \in Pages, NEW s \in Sizes, Hide(p, s) PROVE CountsLess
  <2>1. Writes(p, Hidden(stream[p], s)) /\ Hidden(stream[p], s) \in StreamType
    BY <1>11, HideWrites
  <2>2. ~Hidden(stream[p], s).armed /\ Hidden(stream[p], s).takeBack = stream[p].takeBack
    BY <1>0 DEF Hidden, StreamType
  <2> QED
    BY <1>11, <2>1, <2>2, MarksOf DEF Hide, CountsLess
<1>12. ASSUME NEW s \in AppSizes, AppUsed(s) PROVE CountsLess
  BY <1>12 DEF AppUsed, CountsLess, Armed, Wanting
<1>13. CASE UNCHANGED vars
  BY <1>13 DEF vars, CountsLess, Armed, Wanting
<1> QED
  BY <1>1, <1>2, <1>3, <1>4, <1>5, <1>6, <1>7, <1>8, <1>9, <1>10, <1>11, <1>12, <1>13 DEF Next

LEMMA CountInitially == Init => Counted
<1> SUFFICES ASSUME Init PROVE Counted
  OBVIOUS
<1>1. Armed = {} /\ Wanting = {}
  BY DEF Init, Armed, Wanting, NoStream
<1>2. backs = 0 /\ keeps = 0
  BY DEF Init
<1> QED
  BY <1>1, <1>2, FS_EmptySet DEF Counted

\* However often the window or a program answers, and however late, no more
\* sizes are taken back than pages said keep:true, also when pages use more sizes
\* than one page remembers (terminal_core_bridge.go:164-178, 514-541).
THEOREM TakeBacksNeedKeeps == Spec => [](backs <= keeps)
<1>1. Init => Counted
  BY CountInitially
<1>2. Base /\ Counted /\ [Next]_vars => Counted'
  BY CountStep
<1>3. Base /\ Counted => backs <= keeps
  <2> SUFFICES ASSUME Base, Counted PROVE backs <= keeps
    OBVIOUS
  <2>1. Cardinality(Armed) \in Nat /\ Cardinality(Wanting) \in Nat
    BY CountSubset DEF Armed, Wanting
  <2> QED
    BY <2>1 DEF Counted, Base, Types
<1> QED
  BY <1>1, <1>2, <1>3, BaseHolds, PTL DEF Spec

-----------------------------------------------------------------------------
(***************************************************************************)
(* The sizes no page asked for, and queues without them.                   *)
(***************************************************************************)

Foreigners == {x \in Sizes \cup AppSizes : Foreign(x)}
Clear(Q, F) == \A i \in DOMAIN Q : Q[i] \notin F

LEMMA ForeignersAre ==
  /\ \A x \in Sizes \cup AppSizes : Foreign(x) <=> x \in Foreigners
  /\ \A x : x \in Foreigners <=> /\ x \in Sizes \cup AppSizes
                                 /\ \A q \in Pages : stream[q].at # "new" => ~Has(stream[q].own, x)
BY DEF Foreigners, Foreign, Holders, owns, Has

LEMMA ForeignersNext ==
  \A x : x \in Foreigners' <=> /\ x \in Sizes \cup AppSizes
                               /\ \A q \in Pages : stream'[q].at # "new" => ~Has(stream'[q].own, x)
BY DEF Foreigners, Foreign, Holders, owns, Has

\* The app window's sizes are foreign; a page's own are not.
LEMMA AppsAreForeign ==
  ASSUME Base
  PROVE  AppSizes \subseteq Foreigners
<1>1. \A q \in Pages : stream[q].own \in Seq(Sizes)
  BY DEF Base, Types, StreamType
<1>2. \A q \in Pages, x \in AppSizes : ~Has(stream[q].own, x)
  BY <1>1, Bounds DEF Has
<1> QED
  BY <1>2, ForeignersAre

LEMMA OwnAreNotForeign ==
  ASSUME Base, NEW p \in Pages, stream[p].at # "new"
  PROVE  /\ \A x : Has(stream[p].own, x) => x \notin Foreigners
         /\ stream[p].own[1] \notin Foreigners /\ stream[p].own[1] \in Sizes
<1>1. stream[p].own \in Seq(Sizes) /\ Len(stream[p].own) >= 1
  BY DEF Base, Types, StreamType, Shape, Formed
<1>2. Has(stream[p].own, stream[p].own[1])
  BY <1>1 DEF Has
<1> QED
  BY <1>1, <1>2, ForeignersAre

\* A stream that stays a holder with its sizes changes nothing; one that asks
\* for a size makes it its own.
LEMMA ForeignersSame ==
  ASSUME Base, NEW p \in Pages, NEW r \in StreamType, Writes(p, r),
         stream[p].at # "new", r.at # "new", r.own = stream[p].own
  PROVE  Foreigners' = Foreigners
<1>1. stream'[p] = r /\ \A q \in Pages : q # p => stream'[q] = stream[q]
  BY WritesOne DEF Base
<1>2. \A x : x \in Foreigners' <=> x \in Foreigners
  BY <1>1, ForeignersAre, ForeignersNext
<1> QED
  BY <1>2

LEMMA ForeignersFewer ==
  ASSUME Base, NEW p \in Pages, NEW r \in StreamType, Writes(p, r),
         r.at # "new", \A x : stream[p].at # "new" /\ Has(stream[p].own, x) => Has(r.own, x)
  PROVE  Foreigners' \subseteq Foreigners /\ \A x : Has(r.own, x) => x \notin Foreigners'
<1>1. stream'[p] = r /\ \A q \in Pages : q # p => stream'[q] = stream[q]
  BY WritesOne DEF Base
<1> QED
  BY <1>1, ForeignersAre, ForeignersNext

\* A page that opens or asks leaves fewer foreign sizes; the size asked for is
\* not one of them.
LEMMA OpenedForeigners ==
  ASSUME Base, NEW p \in Pages, NEW s \in Sizes, Open(p, s)
  PROVE  Foreigners' \subseteq Foreigners
<1>1. Writes(p, Opened(s)) /\ Opened(s) \in StreamType /\ stream[p].at = "new"
  BY OpenWrites DEF Open
<1>2. Opened(s).at # "new"
  BY DEF Opened, NoStream
<1> QED
  BY <1>1, <1>2, ForeignersFewer

LEMMA AskedForeigners ==
  ASSUME SizesAreRemembered, Base, NEW p \in Pages, NEW s \in Sizes, NEW r \in StreamType,
         stream[p].at # "new", r.at # "new", r.own = asked(stream[p].own, s), Writes(p, r)
  PROVE  Foreigners' \subseteq Foreigners /\ s \notin Foreigners'
<1>1. Remembered(stream[p].own)
  BY DEF Base, Shape, Formed
<1>2. \A x : Has(r.own, x) <=> x = s \/ Has(stream[p].own, x)
  BY <1>1, AskedForgetsNothing
<1> QED
  BY <1>2, ForeignersFewer

LEMMA ClearAppend ==
  ASSUME NEW S, NEW Q \in Seq(S), NEW x \in S, NEW F, Clear(Q, F), x \notin F
  PROVE  Clear(Append(Q, x), F)
BY DEF Clear

LEMMA ClearTail ==
  ASSUME NEW S, NEW Q \in Seq(S), Q # <<>>, NEW F, Clear(Q, F)
  PROVE  Clear(Tail(Q), F) /\ Head(Q) \notin F
<1>1. Len(Q) >= 1 /\ DOMAIN Q = 1 .. Len(Q) /\ Head(Q) = Q[1]
  OBVIOUS
<1>2. DOMAIN Tail(Q) = 1 .. Len(Q) - 1 /\ \A i \in 1 .. Len(Q) - 1 : Tail(Q)[i] = Q[i + 1]
  BY <1>1
<1>3. \A i \in 1 .. Len(Q) - 1 : i + 1 \in 1 .. Len(Q)
  BY <1>1
<1> QED
  BY <1>1, <1>2, <1>3 DEF Clear

LEMMA ClearFewer ==
  ASSUME NEW Q, NEW F, NEW G, Clear(Q, F), G \subseteq F
  PROVE  Clear(Q, G)
BY DEF Clear

LEMMA ClearEmpty == \A F : Clear(<<>>, F)
BY DEF Clear

\* What is announced leaves a clear queue clear, unless it is foreign.
LEMMA ClearAnnounced ==
  ASSUME Types, NEW s \in Sizes \cup AppSizes, NEW p \in Pages, NEW F, Clear(events[p], F), s \notin F
  PROVE  Clear(Announce(s, events)[p], F)
<1>1. Announce(s, events)[p] = IF p \in Following /\ s # size THEN Append(events[p], s) ELSE events[p]
  BY AnnounceAdds
<1>2. events[p] \in Seq(Sizes \cup AppSizes)
  BY DEF Types
<1>3. Clear(Append(events[p], s), F)
  BY <1>2, ClearAppend
<1> QED
  BY <1>1, <1>3

-----------------------------------------------------------------------------
(***************************************************************************)
(* While the window is not used and no page leaves, all sizes are the      *)
(* pages' own.                                                             *)
(***************************************************************************)

Undisturbed == ~outside =>
    /\ backs = 0
    /\ \A p \in Pages : /\ stream[p].at # "ended" /\ ~stream[p].takeBack
                        /\ Clear(events[p], Foreigners) /\ Clear(resizes[p], Foreigners)

LEMMA UndisturbedStep ==
  ASSUME SizesAreRemembered, Base, [Next]_vars, Undisturbed
  PROVE  Undisturbed'
<1> SUFFICES ASSUME ~outside'
             PROVE  /\ backs' = 0
                    /\ \A p \in Pages : /\ stream'[p].at # "ended" /\ ~stream'[p].takeBack
                                        /\ Clear(events'[p], Foreigners') /\ Clear(resizes'[p], Foreigners')
  BY DEF Undisturbed, Clear
<1> DEFINE Goal == /\ backs' = 0
                   /\ \A p \in Pages : /\ stream'[p].at # "ended" /\ ~stream'[p].takeBack
                                       /\ Clear(events'[p], Foreigners') /\ Clear(resizes'[p], Foreigners')
<1>0. /\ Types /\ Shape
      /\ \A p \in Pages : /\ stream[p] \in StreamType /\ Formed(stream[p])
                          /\ events[p] \in Seq(Sizes \cup AppSizes) /\ resizes[p] \in Seq(Sizes)
  BY DEF Base, Types, Shape
<1>a. ASSUME ~outside
      PROVE  /\ backs = 0
             /\ \A p \in Pages : /\ stream[p].at # "ended" /\ ~stream[p].takeBack
                                 /\ Clear(events[p], Foreigners) /\ Clear(resizes[p], Foreigners)
  BY <1>a DEF Undisturbed
\* A stream that is written stays without a take-back; the sizes under way are
\* those of before, or a page's own.
<1>b. ASSUME NEW p \in Pages, NEW r \in StreamType, Writes(p, r), ~outside,
             Foreigners' \subseteq Foreigners, r.at # "ended", ~r.takeBack,
             UNCHANGED <<events, backs>>, UNCHANGED resizes
      PROVE  Goal
  <2>1. stream'[p] = r /\ \A q \in Pages : q # p => stream'[q] = stream[q]
    BY <1>0, <1>b, WritesOne
  <2>2. \A q \in Pages : Clear(events'[q], Foreigners') /\ Clear(resizes'[q], Foreigners')
    BY <1>a, <1>b, ClearFewer
  <2> QED
    BY <1>a, <1>b, <2>1, <2>2
<1>c. ASSUME NEW p \in Pages, NEW r \in StreamType, NEW s \in Sizes, Writes(p, r), ~outside,
             Foreigners' \subseteq Foreigners, s \notin Foreigners', r.at # "ended", ~r.takeBack,
             UNCHANGED <<events, backs>>, Send(p, s)
      PROVE  Goal
  <2>1. stream'[p] = r /\ \A q \in Pages : q # p => stream'[q] = stream[q]
    BY <1>0, <1>c, WritesOne
  <2>2. \A q \in Pages : Clear(events'[q], Foreigners') /\ Clear(resizes[q], Foreigners')
    BY <1>a, <1>c, ClearFewer
  <2>3. \A q \in Pages : Clear(resizes'[q], Foreigners')
    <3>1. resizes'[p] = Append(resizes[p], s) /\ \A q \in Pages : q # p => resizes'[q] = resizes[q]
      BY <1>0, <1>c, SendAdds
    <3>2. Clear(Append(resizes[p], s), Foreigners')
      BY <1>0, <1>c, <2>2, ClearAppend
    <3> QED
      BY <2>2, <3>1, <3>2
  <2> QED
    BY <1>a, <1>c, <2>1, <2>2, <2>3
<1> HIDE DEF Goal
<1>1. ASSUME NEW p \in Pages, NEW s \in Sizes, Open(p, s) PROVE Goal
  <2>1. Writes(p, Opened(s)) /\ Opened(s) \in StreamType /\ Opened(s).at = "opening" /\ ~Opened(s).takeBack
    BY <1>1, OpenWrites DEF Opened, NoStream
  <2>2. UNCHANGED <<events, backs>> /\ UNCHANGED resizes /\ ~outside
    BY <1>1 DEF Open
  <2>3. Foreigners' \subseteq Foreigners
    BY <1>1, OpenedForeigners
  <2> QED
    BY <1>b, <2>1, <2>2, <2>3
<1>2. ASSUME NEW p \in Pages, Attach(p) PROVE Goal
  <2>1. Writes(p, Attached(stream[p])) /\ Attached(stream[p]) \in StreamType
    BY <1>2, AttachWrites
  <2>2. /\ Attached(stream[p]).at = "attached" /\ Attached(stream[p]).takeBack = stream[p].takeBack
        /\ Attached(stream[p]).own = stream[p].own /\ stream[p].at = "opening"
    BY <1>0, <1>2 DEF Attached, Attach, StreamType
  <2>3. events' = Announce(stream[p].known, events) /\ UNCHANGED <<resizes, backs>> /\ ~outside
    BY <1>2 DEF Attach
  <2>4. Foreigners' = Foreigners
    BY <2>1, <2>2, ForeignersSame
  <2>5. stream[p].known \notin Foreigners /\ stream[p].known \in Sizes
    <3>1. stream[p].own[1] = stream[p].known
      BY <1>0, <2>2 DEF Formed
    <3> QED
      BY <2>2, <3>1, OwnAreNotForeign
  <2>6. \A q \in Pages : Clear(events'[q], Foreigners)
    BY <1>0, <1>a, <2>3, <2>5, ClearAnnounced
  <2>7. stream'[p] = Attached(stream[p]) /\ \A q \in Pages : q # p => stream'[q] = stream[q]
    BY <1>0, <2>1, WritesOne
  <2> QED
    BY <1>a, <2>2, <2>3, <2>4, <2>6, <2>7 DEF Goal
<1>3. ASSUME NEW p \in Pages, End(p) \/ Release(p) PROVE Goal
  BY <1>3 DEF End, Release
<1>4. ASSUME NEW p \in Pages, Forget(p) PROVE Goal
  BY <1>4, <1>a DEF Forget
<1>5. ASSUME NEW p \in Pages, SizeEvent(p) PROVE Goal
  <2> DEFINE s == Head(events[p])
  <2>1. /\ IF s # stream[p].known THEN Writes(p, Noticed(p, s)) ELSE stream' = stream
        /\ Noticed(p, s) \in StreamType /\ s \in Sizes \cup AppSizes
    BY <1>5, SizeEventWrites
  <2>2. /\ events' = [events EXCEPT ![p] = Tail(@)] /\ UNCHANGED <<resizes, backs>> /\ ~outside
        /\ events[p] # <<>> /\ stream[p].at = "attached"
    BY <1>5 DEF SizeEvent
  <2>3. Clear(Tail(events[p]), Foreigners) /\ s \notin Foreigners
    BY <1>0, <1>a, <2>2, ClearTail
  <2> HIDE DEF s
  <2>4. ~takesSizeBack(p, s)
    BY <2>1, <2>3, ForeignersAre DEF takesSizeBack
  <2>5. Noticed(p, s).at = "attached" /\ Noticed(p, s).own = stream[p].own /\ ~Noticed(p, s).takeBack
    BY <1>0, <1>a, <2>2, <2>4 DEF Noticed, StreamType
  <2>6. /\ Foreigners' = Foreigners
        /\ \A q \in Pages : stream'[q].at # "ended" /\ ~stream'[q].takeBack
    <3>1. CASE stream' = stream
      <4>1. \A x : x \in Foreigners' <=> x \in Foreigners
        BY <3>1, ForeignersAre, ForeignersNext
      <4> QED
        BY <1>a, <2>2, <3>1, <4>1
    <3>2. CASE Writes(p, Noticed(p, s))
      <4>1. Foreigners' = Foreigners
        BY <2>1, <2>2, <2>5, <3>2, ForeignersSame
      <4>2. stream'[p] = Noticed(p, s) /\ \A q \in Pages : q # p => stream'[q] = stream[q]
        BY <1>0, <2>1, <3>2, WritesOne
      <4> QED
        BY <1>a, <2>2, <2>5, <4>1, <4>2
    <3> QED
      BY <2>1, <3>1, <3>2
  <2>7. \A q \in Pages : Clear(events'[q], Foreigners)
    BY <1>0, <1>a, <2>2, <2>3 DEF Types
  <2> QED
    BY <1>a, <2>2, <2>6, <2>7 DEF Goal
<1>6. ASSUME NEW p \in Pages, TakeSizeBack(p) PROVE Goal
  BY <1>6, <1>a DEF TakeSizeBack
<1>8. ASSUME NEW p \in Pages, CoreResize(p) PROVE Goal
  <2>1. /\ events' = Announce(Head(resizes[p]), events) /\ resizes[p] # <<>>
        /\ resizes' = [resizes EXCEPT ![p] = Tail(@)] /\ UNCHANGED <<stream, backs>> /\ ~outside
    BY <1>8 DEF CoreResize
  <2>2. Clear(Tail(resizes[p]), Foreigners) /\ Head(resizes[p]) \notin Foreigners /\ Head(resizes[p]) \in Sizes
    BY <1>0, <1>a, <2>1, ClearTail
  <2>3. \A q \in Pages : Clear(events'[q], Foreigners)
    BY <1>0, <1>a, <2>1, <2>2, ClearAnnounced
  <2>4. \A q \in Pages : Clear(resizes'[q], Foreigners)
    BY <1>0, <1>a, <2>1, <2>2 DEF Types
  <2>5. \A x : x \in Foreigners' <=> x \in Foreigners
    BY <2>1, ForeignersAre, ForeignersNext
  <2>6. Foreigners' = Foreigners
    BY <2>5
  <2> QED
    BY <1>a, <2>1, <2>3, <2>4, <2>6 DEF Goal
<1>9. ASSUME NEW p \in Pages, NEW s \in Sizes, Resize(p, s) PROVE Goal
  <2>1. Writes(p, Asked(stream[p], s)) /\ Asked(stream[p], s) \in StreamType
    BY <1>9, ResizeWrites
  <2>2. /\ stream[p].at = "attached" /\ Asked(stream[p], s).at = "attached"
        /\ Asked(stream[p], s).own = asked(stream[p].own, s)
        /\ Asked(stream[p], s).takeBack = stream[p].takeBack
    BY <1>0, <1>9 DEF Resize, MayResize, Asked, StreamType
  <2>3. UNCHANGED <<events, backs>> /\ (UNCHANGED resizes \/ Send(p, s)) /\ ~outside
    BY <1>9 DEF Resize, SendUnlessKnown
  <2>4. Foreigners' \subseteq Foreigners /\ s \notin Foreigners'
    BY <2>1, <2>2, AskedForeigners
  <2> QED
    BY <1>a, <1>b, <1>c, <2>1, <2>2, <2>3, <2>4
<1>10. ASSUME NEW p \in Pages, NEW s \in Sizes, Keep(p, s) PROVE Goal
  <2> DEFINE r == Kept(stream[p], s, keeps + 1)
  <2>1. Writes(p, r) /\ r \in StreamType
    BY <1>10, KeepWrites
  <2>2. /\ stream[p].at = "attached" /\ r.at = "attached" /\ r.own = asked(stream[p].own, s)
        /\ r.takeBack = stream[p].takeBack
    BY <1>0, <1>10 DEF Keep, MayResize, Kept, StreamType
  <2> HIDE DEF r
  <2>3. UNCHANGED <<events, backs>> /\ (UNCHANGED resizes \/ Send(p, s)) /\ ~outside
    BY <1>10 DEF Keep, SendUnlessKnown
  <2>4. Foreigners' \subseteq Foreigners /\ s \notin Foreigners'
    BY <2>1, <2>2, AskedForeigners
  <2> QED
    BY <1>a, <1>b, <1>c, <2>1, <2>2, <2>3, <2>4
<1>11. ASSUME NEW p \in Pages, NEW s \in Sizes, Hide(p, s) PROVE Goal
  <2>1. Writes(p, Hidden(stream[p], s)) /\ Hidden(stream[p], s) \in StreamType
    BY <1>11, HideWrites
  <2>2. /\ stream[p].at = "attached" /\ Hidden(stream[p], s).at = "attached"
        /\ Hidden(stream[p], s).own = asked(stream[p].own, s)
        /\ Hidden(stream[p], s).takeBack = stream[p].takeBack
    BY <1>0, <1>11 DEF Hide, MayResize, Hidden, StreamType
  <2>3. UNCHANGED <<events, backs>> /\ UNCHANGED resizes /\ ~outside
    BY <1>11 DEF Hide
  <2>4. Foreigners' \subseteq Foreigners
    BY <2>1, <2>2, AskedForeigners
  <2> QED
    BY <1>a, <1>b, <2>1, <2>2, <2>3, <2>4
<1>12. ASSUME NEW s \in AppSizes, AppUsed(s) PROVE Goal
  BY <1>12 DEF AppUsed
<1>13. ASSUME UNCHANGED vars PROVE Goal
  <2>1. UNCHANGED <<events, resizes, stream, backs>> /\ ~outside
    BY <1>13 DEF vars
  <2>2. \A x : x \in Foreigners' <=> x \in Foreigners
    BY <2>1, ForeignersAre, ForeignersNext
  <2>3. Foreigners' = Foreigners
    BY <2>2
  <2> QED
    BY <1>a, <2>1, <2>3 DEF Goal
<1> QED
  <2>1. Goal
    BY <1>1, <1>2, <1>3, <1>4, <1>5, <1>6, <1>8, <1>9, <1>10, <1>11, <1>12, <1>13 DEF Next
  <2> QED
    BY <2>1 DEF Goal

\* With sizes that are remembered, nothing is taken back without a keep:true of its
\* own, and nothing at all while the window is not used and no page leaves: a late
\* size event never makes one page answer another's size
\* (terminal_core_bridge.go:113-116, 217-219, 245-251, 514-541).
THEOREM TakeBacksStayEarned == SizesAreRemembered => (Spec => []TakeBacksAreEarned)
<1> SUFFICES ASSUME SizesAreRemembered PROVE Spec => []TakeBacksAreEarned
  OBVIOUS
<1>1. Init => Undisturbed
  <2> SUFFICES ASSUME Init PROVE Undisturbed
    OBVIOUS
  <2>1. \A p \in Pages : /\ stream[p].at = "new" /\ ~stream[p].takeBack
                         /\ events[p] = <<>> /\ resizes[p] = <<>>
    BY DEF Init, NoStream
  <2> QED
    BY <2>1, ClearEmpty DEF Init, Undisturbed
<1>2. Base /\ Undisturbed /\ [Next]_vars => Undisturbed'
  BY UndisturbedStep
<1>3. backs <= keeps /\ Undisturbed => TakeBacksAreEarned
  BY DEF Undisturbed, TakeBacksAreEarned
<1> QED
  BY <1>1, <1>2, <1>3, BaseHolds, TakeBacksNeedKeeps, PTL DEF Spec

-----------------------------------------------------------------------------
(***************************************************************************)
(* What a stream was told: the last word under way is the terminal's size, *)
(* and with nothing under way that size is known.                          *)
(***************************************************************************)

Heard(r, Q, z) ==
    /\ Q = <<>> /\ r.at = "attached" => r.known = z
    /\ Q # <<>> => Q[Len(Q)] = z
    /\ \A i \in 1 .. Len(Q) - 1 : Q[i] # Q[i + 1]
    /\ Q # <<>> /\ r.known \in AppSizes => Q[1] # r.known

Told == \A p \in Following : Heard(stream[p], events[p], size)

LEMMA OpeningKnows ==
  ASSUME Base, NEW p \in Pages, stream[p].at = "opening"
  PROVE  stream[p].known \in Sizes /\ stream[p].known \notin AppSizes /\ stream[p].known = stream[p].own[1]
BY Bounds DEF Base, Types, StreamType, Shape, Formed

LEMMA HeardAnnounced ==
  ASSUME Base, NEW p \in Following, Heard(stream[p], events[p], size), NEW s \in Sizes \cup AppSizes,
         NEW r, r.known = stream[p].known, r.at = stream[p].at \/ (stream[p].at = "opening" /\ r.known = s)
  PROVE  Heard(r, Announce(s, events)[p], s)
<1> DEFINE Q == events[p]
<1>1. p \in Pages /\ Q \in Seq(Sizes \cup AppSizes)
  BY DEF Following, Base, Types
<1>2. Announce(s, events)[p] = IF s # size THEN Append(Q, s) ELSE Q
  BY <1>1, AnnounceAdds DEF Base
<1>3. stream[p].at = "opening" => stream[p].known \notin AppSizes
  BY <1>1, OpeningKnows
<1>4. stream[p].at \in {"opening", "attached"}
  BY DEF Following
<1>5. CASE s = size
  BY <1>2, <1>5 DEF Heard
<1>6. CASE s # size
  <2> DEFINE A == Append(Q, s)
  <2>1. /\ Len(A) = Len(Q) + 1 /\ A # <<>> /\ A[Len(Q) + 1] = s
        /\ \A i \in 1 .. Len(Q) : A[i] = Q[i]
    BY <1>1
  <2>2. \A i \in 1 .. Len(A) - 1 : A[i] # A[i + 1]
    <3> SUFFICES ASSUME NEW i \in 1 .. Len(A) - 1 PROVE A[i] # A[i + 1]
      OBVIOUS
    <3>1. CASE i = Len(Q)
      <4>1. Q # <<>> /\ Q[Len(Q)] = size
        BY <1>1, <3>1, <2>1 DEF Heard
      <4> QED
        BY <1>1, <1>6, <2>1, <3>1, <4>1
    <3>2. CASE i # Len(Q)
      <4>1. i \in 1 .. Len(Q) - 1 /\ i + 1 \in 1 .. Len(Q)
        BY <1>1, <2>1, <3>2
      <4> QED
        BY <2>1, <4>1 DEF Heard
    <3> QED
      BY <3>1, <3>2
  <2>3. r.known \in AppSizes => A[1] # r.known
    <3> SUFFICES ASSUME r.known \in AppSizes PROVE A[1] # r.known
      OBVIOUS
    <3>1. stream[p].at = "attached"
      BY <1>3, <1>4
    <3>2. CASE Q = <<>>
      <4>1. stream[p].known = size /\ A[1] = s
        BY <2>1, <3>1, <3>2 DEF Heard
      <4> QED
        BY <1>6, <4>1
    <3>3. CASE Q # <<>>
      <4>1. A[1] = Q[1]
        BY <1>1, <2>1, <3>3
      <4> QED
        BY <3>3, <4>1 DEF Heard
    <3> QED
      BY <3>2, <3>3
  <2>4. Announce(s, events)[p] = A
    BY <1>2, <1>6
  <2> HIDE DEF A
  <2>5. A[Len(A)] = s /\ A # <<>>
    BY <1>1, <2>1 DEF A
  <2> QED
    BY <2>2, <2>3, <2>4, <2>5 DEF Heard
<1> QED
  BY <1>5, <1>6

LEMMA HeardTail ==
  ASSUME NEW Q \in Seq(Sizes \cup AppSizes), Q # <<>>, NEW r, NEW z, Heard(r, Q, z),
         NEW t, t.known = Head(Q)
  PROVE  Heard(t, Tail(Q), z)
<1>1. /\ Len(Q) >= 1 /\ Len(Tail(Q)) = Len(Q) - 1 /\ Head(Q) = Q[1]
      /\ \A i \in 1 .. Len(Q) - 1 : Tail(Q)[i] = Q[i + 1]
  OBVIOUS
<1>5. ASSUME Len(Q) = 1 PROVE Tail(Q) = <<>>
  <2>1. PICK T : T = Tail(Q)
    OBVIOUS
  <2>2. T \in Seq(Sizes \cup AppSizes) /\ Len(T) = 0
    BY <1>1, <1>5, <2>1
  <2>3. T = <<>>
    BY <2>2
  <2> QED
    BY <2>1, <2>3
<1>2. Q[Len(Q)] = z /\ \A i \in 1 .. Len(Q) - 1 : Q[i] # Q[i + 1]
  BY DEF Heard
<1>3. CASE Len(Q) = 1
  <2>1. Tail(Q) = <<>> /\ t.known = z /\ Len(<<>>) = 0
    BY <1>1, <1>2, <1>3, <1>5
  <2> QED
    BY <2>1 DEF Heard
<1>4. CASE Len(Q) # 1
  <2>1. Tail(Q)[Len(Tail(Q))] = z
    BY <1>1, <1>2, <1>4
  <2>2. \A i \in 1 .. Len(Tail(Q)) - 1 : Tail(Q)[i] # Tail(Q)[i + 1]
    <3> SUFFICES ASSUME NEW i \in 1 .. Len(Tail(Q)) - 1 PROVE Tail(Q)[i] # Tail(Q)[i + 1]
      OBVIOUS
    <3>1. i \in 1 .. Len(Q) - 1 /\ i + 1 \in 1 .. Len(Q) - 1
      BY <1>1
    <3> QED
      BY <1>1, <1>2, <3>1
  <2>3. Tail(Q)[1] # t.known
    <3>1. 1 \in 1 .. Len(Q) - 1
      BY <1>1, <1>4
    <3>2. Tail(Q)[1] = Q[2] /\ Q[1] # Q[2]
      BY <1>1, <1>2, <3>1
    <3> QED
      BY <1>1, <3>2
  <2>4. Tail(Q) # <<>>
    <3>1. PICK T : T = Tail(Q)
      OBVIOUS
    <3>2. Len(T) # 0
      BY <1>1, <1>4, <3>1
    <3> QED
      BY <3>1, <3>2
  <2> QED
    BY <2>1, <2>2, <2>3, <2>4 DEF Heard
<1> QED
  BY <1>3, <1>4

\* A write that leaves what the page knows alone.
LEMMA ToldSame ==
  ASSUME Base, Told, NEW p \in Pages, NEW r \in StreamType, Writes(p, r),
         r.at \in {"opening", "attached"} => r.at = stream[p].at /\ r.known = stream[p].known,
         UNCHANGED <<size, events>>
  PROVE  Told'
<1>1. stream'[p] = r /\ \A q \in Pages : q # p => stream'[q] = stream[q]
  BY WritesOne DEF Base
<1> SUFFICES ASSUME NEW q \in Pages, stream'[q].at \in {"opening", "attached"}
             PROVE  Heard(stream'[q], events[q], size)
  BY DEF Told, Following, Heard
<1>2. q \in Following /\ Heard(stream[q], events[q], size)
  BY <1>1 DEF Told, Following
<1> QED
  BY <1>1, <1>2 DEF Heard

LEMMA ToldAnnounced ==
  ASSUME Base, Told, NEW s \in Sizes \cup AppSizes, size' = s, events' = Announce(s, events), UNCHANGED stream
  PROVE  Told'
<1> SUFFICES ASSUME NEW q \in Following PROVE Heard(stream[q], Announce(s, events)[q], s)
  BY DEF Told, Following, Heard
<1> QED
  BY HeardAnnounced DEF Told

LEMMA ToldStep ==
  ASSUME Base, [Next]_vars, Told
  PROVE  Told'
<1>0. /\ Types /\ Shape
      /\ \A p \in Pages : /\ stream[p] \in StreamType /\ Formed(stream[p])
                          /\ events[p] \in Seq(Sizes \cup AppSizes) /\ resizes[p] \in Seq(Sizes)
  BY DEF Base, Types, Shape
<1>1. ASSUME NEW p \in Pages, NEW s \in Sizes, Open(p, s) PROVE Told'
  <2>1. Writes(p, Opened(s)) /\ Opened(s) \in StreamType /\ stream[p] = NoStream
    BY <1>1, OpenWrites
  <2>2. UNCHANGED <<size, events>> /\ events[p] = <<>> /\ Opened(s).at = "opening"
    BY <1>0, <1>1 DEF Open, Shape, Opened, NoStream
  <2>3. stream'[p] = Opened(s) /\ \A q \in Pages : q # p => stream'[q] = stream[q]
    BY <1>0, <2>1, WritesOne
  <2> SUFFICES ASSUME NEW q \in Pages, stream'[q].at \in {"opening", "attached"}
               PROVE  Heard(stream'[q], events[q], size)
    BY <2>2 DEF Told, Following, Heard
  <2>4. CASE q = p
    BY <2>2, <2>3, <2>4 DEF Heard
  <2>5. CASE q # p
    BY <2>3, <2>5 DEF Told, Following
  <2> QED
    BY <2>4, <2>5
<1>2. ASSUME NEW p \in Pages, Attach(p) PROVE Told'
  <2>1. Writes(p, Attached(stream[p])) /\ Attached(stream[p]) \in StreamType
    BY <1>2, AttachWrites
  <2>2. /\ Attached(stream[p]).known = stream[p].known /\ stream[p].at = "opening" /\ stream[p].known \in Sizes
        /\ size' = stream[p].known /\ events' = Announce(stream[p].known, events)
    BY <1>0, <1>2, OpeningKnows DEF Attached, Attach, StreamType
  <2>3. stream'[p] = Attached(stream[p]) /\ \A q \in Pages : q # p => stream'[q] = stream[q]
    BY <1>0, <2>1, WritesOne
  <2> SUFFICES ASSUME NEW q \in Pages, stream'[q].at \in {"opening", "attached"}
               PROVE  Heard(stream'[q], Announce(stream[p].known, events)[q], stream[p].known)
    BY <2>2 DEF Told, Following, Heard
  <2>4. q \in Following
    BY <2>2, <2>3 DEF Following
  <2>5. Heard(stream[q], events[q], size)
    BY <2>4 DEF Told
  <2>6. stream'[q].known = stream[q].known
    BY <2>2, <2>3
  <2>7. stream'[q].at = stream[q].at \/ (stream[q].at = "opening" /\ stream'[q].known = stream[p].known)
    BY <2>2, <2>3
  <2> QED
    BY <2>2, <2>4, <2>5, <2>6, <2>7, HeardAnnounced
<1>3. ASSUME NEW p \in Pages, End(p) PROVE Told'
  <2>1. Writes(p, Ended(stream[p])) /\ Ended(stream[p]) \in StreamType
    BY <1>3, EndWrites
  <2>2. Ended(stream[p]).at = "ended" /\ UNCHANGED size
    BY <1>0, <1>3 DEF Ended, End, StreamType
  <2>3. stream'[p] = Ended(stream[p]) /\ \A q \in Pages : q # p => stream'[q] = stream[q]
    BY <1>0, <2>1, WritesOne
  <2>4. \A q \in Pages : q # p => events'[q] = events[q]
    BY <1>0, <1>3 DEF End, Types
  <2> SUFFICES ASSUME NEW q \in Pages, stream'[q].at \in {"opening", "attached"}
               PROVE  Heard(stream'[q], events'[q], size)
    BY <2>2 DEF Told, Following, Heard
  <2>5. q # p /\ q \in Following
    BY <2>2, <2>3 DEF Following
  <2> QED
    BY <2>3, <2>4, <2>5 DEF Told
<1>4. ASSUME NEW p \in Pages, Forget(p) PROVE Told'
  <2>1. Writes(p, NoStream) /\ NoStream \in StreamType /\ NoStream.at = "new" /\ UNCHANGED <<size, events>>
    BY <1>4, NoStreamFormed DEF Forget, Writes, NoStream
  <2> QED
    BY <2>1, ToldSame
<1>5. ASSUME NEW p \in Pages, SizeEvent(p) PROVE Told'
  <2> DEFINE s == Head(events[p])
  <2>1. /\ IF s # stream[p].known THEN Writes(p, Noticed(p, s)) ELSE stream' = stream
        /\ Noticed(p, s) \in StreamType
    BY <1>5, SizeEventWrites
  <2>2. /\ events' = [events EXCEPT ![p] = Tail(@)] /\ UNCHANGED size /\ events[p] # <<>>
        /\ p \in Following
    BY <1>5 DEF SizeEvent, Following
  <2>3. stream'[p].known = s /\ \A q \in Pages : q # p => stream'[q] = stream[q]
    <3>1. CASE stream' = stream /\ s = stream[p].known
      BY <3>1
    <3>2. CASE Writes(p, Noticed(p, s))
      <4>1. stream'[p] = Noticed(p, s) /\ \A q \in Pages : q # p => stream'[q] = stream[q]
        BY <1>0, <2>1, <3>2, WritesOne
      <4>2. Noticed(p, s).known = s
        BY <1>0 DEF Noticed, StreamType
      <4> QED
        BY <4>1, <4>2
    <3> QED
      BY <2>1, <3>1, <3>2
  <2>4. events'[p] = Tail(events[p]) /\ \A q \in Pages : q # p => events'[q] = events[q]
    BY <1>0, <2>2 DEF Types
  <2> SUFFICES ASSUME NEW q \in Pages, stream'[q].at \in {"opening", "attached"}
               PROVE  Heard(stream'[q], events'[q], size)
    BY <2>2 DEF Told, Following, Heard
  <2>5. CASE q = p
    <3>1. Heard(stream[p], events[p], size)
      BY <2>2 DEF Told
    <3>2. Heard(stream'[p], Tail(events[p]), size)
      BY <1>0, <2>2, <2>3, <3>1, HeardTail
    <3> QED
      BY <2>4, <2>5, <3>2
  <2>6. CASE q # p
    BY <2>3, <2>4, <2>6 DEF Told, Following
  <2> QED
    BY <2>5, <2>6
<1>6. ASSUME NEW p \in Pages, TakeSizeBack(p) PROVE Told'
  <2>1. Writes(p, TookBack(stream[p])) /\ TookBack(stream[p]) \in StreamType
    BY <1>6, TakeSizeBackWrites
  <2>2. TookBack(stream[p]).at = stream[p].at /\ TookBack(stream[p]).known = stream[p].known
    BY <1>0 DEF TookBack, StreamType
  <2> QED
    BY <1>6, <2>1, <2>2, ToldSame DEF TakeSizeBack
<1>7. ASSUME NEW p \in Pages, Release(p) PROVE Told'
  <2>1. Writes(p, Released(stream[p])) /\ Released(stream[p]) \in StreamType
    BY <1>7, ReleaseWrites
  <2>2. Released(stream[p]).at = stream[p].at /\ Released(stream[p]).known = stream[p].known
    BY <1>0 DEF Released, StreamType
  <2> QED
    BY <1>7, <2>1, <2>2, ToldSame DEF Release
<1>8. ASSUME NEW p \in Pages, CoreResize(p) PROVE Told'
  <2>1. Head(resizes[p]) \in Sizes \cup AppSizes
    BY <1>0, <1>8 DEF CoreResize
  <2> QED
    BY <1>8, <2>1, ToldAnnounced DEF CoreResize
<1>9. ASSUME NEW p \in Pages, NEW s \in Sizes, Resize(p, s) PROVE Told'
  <2>1. Writes(p, Asked(stream[p], s)) /\ Asked(stream[p], s) \in StreamType
    BY <1>9, ResizeWrites
  <2>2. Asked(stream[p], s).at = stream[p].at /\ Asked(stream[p], s).known = stream[p].known
    BY <1>0 DEF Asked, StreamType
  <2> QED
    BY <1>9, <2>1, <2>2, ToldSame DEF Resize
<1>10. ASSUME NEW p \in Pages, NEW s \in Sizes, Keep(p, s) PROVE Told'
  <2> DEFINE r == Kept(stream[p], s, keeps + 1)
  <2>1. Writes(p, r) /\ r \in StreamType
    BY <1>10, KeepWrites
  <2>2. r.at = stream[p].at /\ r.known = stream[p].known
    BY <1>0 DEF Kept, StreamType
  <2> HIDE DEF r
  <2> QED
    BY <1>10, <2>1, <2>2, ToldSame DEF Keep
<1>11. ASSUME NEW p \in Pages, NEW s \in Sizes, Hide(p, s) PROVE Told'
  <2>1. Writes(p, Hidden(stream[p], s)) /\ Hidden(stream[p], s) \in StreamType
    BY <1>11, HideWrites
  <2>2. Hidden(stream[p], s).at = stream[p].at /\ Hidden(stream[p], s).known = stream[p].known
    BY <1>0 DEF Hidden, StreamType
  <2> QED
    BY <1>11, <2>1, <2>2, ToldSame DEF Hide
<1>12. ASSUME NEW s \in AppSizes, AppUsed(s) PROVE Told'
  BY <1>12, ToldAnnounced DEF AppUsed
<1>13. CASE UNCHANGED vars
  BY <1>13 DEF vars, Told, Following, Heard
<1> QED
  BY <1>1, <1>2, <1>3, <1>4, <1>5, <1>6, <1>7, <1>8, <1>9, <1>10, <1>11, <1>12, <1>13 DEF Next

-----------------------------------------------------------------------------
(***************************************************************************)
(* The take-back that a keep:true allows is not lost: the latest keeper    *)
(* has it still, has asked for it, or has sent it.                         *)
(***************************************************************************)

\* In the queue Q nothing foreign comes before a size of the window, and a page
\* that will meet one has its take-back: a says whether.
Promise(a, Q, F) == \A i \in DOMAIN Q : Q[i] \in AppSizes => a /\ \A j \in 1 .. i - 1 : Q[j] \notin F

Keeper(p) == Latest(p) /\ stream[p].at = "attached" /\ stream[p].controlled
Untaken(p) == takes = 0 => /\ stream[p].armed /\ Clear(events[p], Foreigners)
                           /\ \A q \in Pages : Clear(resizes[q], Foreigners)
Ahead(p) == Promise(stream[p].armed, events[p], Foreigners)
Returning(p) == size \in AppSizes => \/ \E q \in Pages : resizes[q] # <<>>
                                     \/ stream[p].takeBack
                                     \/ stream[p].armed /\ events[p] # <<>>

TakesOnce(p) == Keeper(p) /\ Untaken(p) /\ Ahead(p) /\ Returning(p)
Once == takes < 2 => \E p \in Pages : TakesOnce(p)

LEMMA PromiseFewer ==
  ASSUME NEW a, NEW Q, NEW F, NEW G, Promise(a, Q, F), G \subseteq F
  PROVE  Promise(a, Q, G)
BY DEF Promise

LEMMA PromiseAppend ==
  ASSUME NEW S, NEW Q \in Seq(S), NEW x \in S, NEW F, NEW a, Promise(a, Q, F),
         x \notin AppSizes \/ (a /\ Clear(Q, F))
  PROVE  Promise(a, Append(Q, x), F)
<1> SUFFICES ASSUME NEW i \in 1 .. Len(Q) + 1, Append(Q, x)[i] \in AppSizes
             PROVE  a /\ \A j \in 1 .. i - 1 : Append(Q, x)[j] \notin F
  BY DEF Promise
<1>1. /\ \A j \in 1 .. Len(Q) : Append(Q, x)[j] = Q[j]
      /\ Append(Q, x)[Len(Q) + 1] = x /\ DOMAIN Q = 1 .. Len(Q)
  OBVIOUS
<1>2. CASE i = Len(Q) + 1
  <2>1. a /\ Clear(Q, F)
    BY <1>1, <1>2
  <2> QED
    BY <1>1, <1>2, <2>1 DEF Clear
<1>3. CASE i # Len(Q) + 1
  <2>1. i \in 1 .. Len(Q) /\ Q[i] \in AppSizes /\ \A j \in 1 .. i - 1 : j \in 1 .. Len(Q)
    BY <1>1, <1>3
  <2>2. a /\ \A j \in 1 .. i - 1 : Q[j] \notin F
    BY <1>1, <2>1 DEF Promise
  <2> QED
    BY <1>1, <2>1, <2>2
<1> QED
  BY <1>2, <1>3

LEMMA PromiseTail ==
  ASSUME NEW S, NEW Q \in Seq(S), Q # <<>>, NEW F, NEW a, Promise(a, Q, F)
  PROVE  /\ Promise(a, Tail(Q), F)
         /\ Head(Q) \in F => \A b : Promise(b, Tail(Q), F)
<1>1. /\ Len(Q) >= 1 /\ Head(Q) = Q[1] /\ DOMAIN Q = 1 .. Len(Q)
      /\ DOMAIN Tail(Q) = 1 .. Len(Q) - 1
      /\ \A i \in 1 .. Len(Q) - 1 : Tail(Q)[i] = Q[i + 1]
  OBVIOUS
<1>2. ASSUME NEW i \in 1 .. Len(Q) - 1, Tail(Q)[i] \in AppSizes
      PROVE  /\ a /\ Head(Q) \notin F
             /\ \A j \in 1 .. i - 1 : Tail(Q)[j] \notin F
  <2>1. i + 1 \in 1 .. Len(Q) /\ Q[i + 1] \in AppSizes
    BY <1>1, <1>2
  <2>2. a /\ \A j \in 1 .. i : Q[j] \notin F
    <3>1. a /\ \A j \in 1 .. (i + 1) - 1 : Q[j] \notin F
      BY <1>1, <2>1 DEF Promise
    <3>2. (i + 1) - 1 = i
      OBVIOUS
    <3> QED
      BY <3>1, <3>2
  <2>3. 1 \in 1 .. i /\ \A j \in 1 .. i - 1 : j + 1 \in 1 .. i /\ j \in 1 .. Len(Q) - 1
    OBVIOUS
  <2> QED
    BY <1>1, <2>2, <2>3
<1> QED
  BY <1>1, <1>2 DEF Promise

\* The latest keeper stays it while other pages keep nothing new.
LEMMA LatestKept ==
  ASSUME Base, NEW p \in Pages, Latest(p), NEW q \in Pages, NEW r \in StreamType, Writes(q, r),
         r.at # "new",
         r.holding => stream[q].at # "new" /\ stream[q].holding /\ r.kept = stream[q].kept,
         q = p => r.holding
  PROVE  Latest(p)'
<1>1. stream'[q] = r /\ \A o \in Pages : o # q => stream'[o] = stream[o]
  BY WritesOne DEF Base
<1>2. p \in Pages /\ stream[p].at # "new" /\ stream[p].holding
      /\ \A o \in Pages : stream[o].at # "new" /\ stream[o].holding => stream[o].kept <= stream[p].kept
  BY DEF Latest, Holders
<1>3. stream'[p].at # "new" /\ stream'[p].holding /\ stream'[p].kept = stream[p].kept
  BY <1>1, <1>2
<1>4. ASSUME NEW o \in Pages, stream'[o].at # "new", stream'[o].holding
      PROVE  stream'[o].kept <= stream'[p].kept
  <2>1. stream[o].at # "new" /\ stream[o].holding /\ stream'[o].kept = stream[o].kept
    BY <1>1, <1>4
  <2> QED
    BY <1>2, <1>3, <2>1
<1> QED
  BY <1>2, <1>3, <1>4 DEF Latest, Holders

\* A step that leaves the keeper as it is, and sends at most a page's own size.
LEMMA OnceQuiet ==
  ASSUME Base, NEW p \in Pages, TakesOnce(p), NEW q \in Pages, NEW r \in StreamType, Writes(q, r),
         r.at # "new",
         r.holding => stream[q].at # "new" /\ stream[q].holding /\ r.kept = stream[q].kept,
         q = p => /\ r.holding /\ r.at = "attached" /\ r.controlled
                  /\ r.armed = stream[p].armed /\ r.takeBack = stream[p].takeBack,
         Foreigners' \subseteq Foreigners,
         UNCHANGED <<size, takes>>, events'[p] = events[p],
         UNCHANGED resizes \/ \E s \in Sizes : s \notin Foreigners' /\ Send(q, s)
  PROVE  TakesOnce(p)'
<1>1. stream'[q] = r /\ \A o \in Pages : o # q => stream'[o] = stream[o]
  BY WritesOne DEF Base
<1>2. Keeper(p) /\ Untaken(p) /\ Ahead(p) /\ Returning(p)
  BY DEF TakesOnce
<1>3. Latest(p)'
  BY <1>2, LatestKept DEF Keeper
<1>4. Keeper(p)'
  <2>1. stream'[p].at = "attached" /\ stream'[p].controlled
    BY <1>1, <1>2 DEF Keeper
  <2> QED
    BY <1>3, <2>1 DEF Keeper
<1>5. stream'[p].armed = stream[p].armed /\ stream'[p].takeBack = stream[p].takeBack
  BY <1>1
<1>6. \A o \in Pages : /\ Clear(resizes[o], Foreigners) => Clear(resizes'[o], Foreigners')
                       /\ resizes[o] # <<>> => resizes'[o] # <<>>
  <2>1. CASE UNCHANGED resizes
    BY <2>1, ClearFewer
  <2>2. ASSUME NEW s \in Sizes, s \notin Foreigners', Send(q, s)
        PROVE  \A o \in Pages : /\ Clear(resizes[o], Foreigners) => Clear(resizes'[o], Foreigners')
                                /\ resizes[o] # <<>> => resizes'[o] # <<>>
    <3>1. resizes'[q] = Append(resizes[q], s) /\ \A o \in Pages : o # q => resizes'[o] = resizes[o]
      BY <2>2, SendAdds DEF Base
    <3>2. resizes[q] \in Seq(Sizes) /\ Append(resizes[q], s) # <<>>
      <4>1. resizes[q] \in Seq(Sizes)
        BY DEF Base, Types
      <4>2. Len(Append(resizes[q], s)) = Len(resizes[q]) + 1 /\ Len(resizes[q]) \in Nat
        BY <4>1
      <4>3. PICK A : A = Append(resizes[q], s)
        OBVIOUS
      <4>4. Len(A) # 0
        BY <4>2, <4>3
      <4> QED
        BY <4>1, <4>3, <4>4
    <3>3. Clear(resizes[q], Foreigners) => Clear(Append(resizes[q], s), Foreigners')
      BY <2>2, <3>2, ClearFewer, ClearAppend
    <3> QED
      BY <3>1, <3>2, <3>3, ClearFewer
  <2> QED
    BY <2>1, <2>2
<1>7. Untaken(p)'
  <2> SUFFICES ASSUME takes' = 0
               PROVE  /\ stream'[p].armed /\ Clear(events'[p], Foreigners')
                      /\ \A o \in Pages : Clear(resizes'[o], Foreigners')
    BY DEF Untaken, Clear
  <2>1. /\ stream[p].armed /\ Clear(events[p], Foreigners)
        /\ \A o \in Pages : Clear(resizes[o], Foreigners)
    BY <1>2 DEF Untaken
  <2> QED
    BY <1>5, <1>6, <2>1, ClearFewer
<1>8. Ahead(p)'
  <2>1. Promise(stream[p].armed, events[p], Foreigners')
    BY <1>2, PromiseFewer DEF Ahead
  <2> QED
    BY <1>5, <2>1 DEF Ahead, Promise
<1>9. Returning(p)'
  BY <1>2, <1>5, <1>6 DEF Returning
<1> QED
  BY <1>4, <1>7, <1>8, <1>9 DEF TakesOnce

\* Herdr Core took a page's size: nothing is owed, and all queues hear of it.
LEMMA OnceCoreSize ==
  ASSUME Base, NEW p \in Pages, TakesOnce(p), NEW s \in Sizes, takes = 0 => s \notin Foreigners,
         Keeper(p)', stream'[p] = stream[p], Foreigners' = Foreigners,
         size' = s, events' = Announce(s, events), UNCHANGED takes,
         \A q \in Pages : Clear(resizes[q], Foreigners) => Clear(resizes'[q], Foreigners)
  PROVE  TakesOnce(p)'
<1>1. Keeper(p) /\ Untaken(p) /\ Ahead(p)
  BY DEF TakesOnce
<1>2. events[p] \in Seq(Sizes \cup AppSizes) /\ s \notin AppSizes
  BY Bounds DEF Base, Types
<1>3. events'[p] = Append(events[p], s) \/ events'[p] = events[p]
  BY AnnounceAdds DEF Base
<1>4. Promise(stream[p].armed, events'[p], Foreigners)
  BY <1>1, <1>2, <1>3, PromiseAppend DEF Ahead
<1>5. ASSUME takes = 0 PROVE stream[p].armed /\ Clear(events'[p], Foreigners)
                             /\ \A q \in Pages : Clear(resizes'[q], Foreigners)
  <2>1. stream[p].armed /\ Clear(events[p], Foreigners) /\ \A q \in Pages : Clear(resizes[q], Foreigners)
    BY <1>1, <1>5 DEF Untaken
  <2>2. Clear(Append(events[p], s), Foreigners)
    BY <1>2, <1>5, <2>1, ClearAppend
  <2> QED
    BY <1>3, <2>1, <2>2
<1>6. Untaken(p)'
  BY <1>5 DEF Untaken, Clear
<1>7. Ahead(p)'
  BY <1>4 DEF Ahead, Promise
<1>8. Returning(p)'
  BY <1>2 DEF Returning
<1> QED
  BY <1>6, <1>7, <1>8 DEF TakesOnce

LEMMA KeeperSame ==
  ASSUME Base, NEW p \in Pages, Keeper(p), UNCHANGED stream
  PROVE  Keeper(p)' /\ Foreigners' = Foreigners
<1>1. \A x : x \in Foreigners' <=> x \in Foreigners
  BY ForeignersAre, ForeignersNext
<1> QED
  BY <1>1 DEF Keeper, Latest, Holders

\* A promise that was void stays so.
LEMMA NotVoid ==
  ASSUME NEW p \in Pages, Latest(p), NEW q \in Pages, takes' = Void(q), takes' < 2
  PROVE  q # p /\ takes' = takes
BY DEF Void

\* A size event of the keeper itself.
LEMMA OnceSizeEvent ==
  ASSUME Base, Told, NEW p \in Pages, TakesOnce(p), SizeEvent(p)
  PROVE  TakesOnce(p)'
<1> DEFINE s == Head(events[p])
<1>1. /\ IF s # stream[p].known THEN Writes(p, Noticed(p, s)) ELSE stream' = stream
      /\ Noticed(p, s) \in StreamType /\ s \in Sizes \cup AppSizes
      /\ events[p] \in Seq(Sizes \cup AppSizes) /\ Len(events[p]) >= 1
  BY SizeEventWrites
<1>2. /\ events' = [events EXCEPT ![p] = Tail(@)] /\ events[p] # <<>>
      /\ UNCHANGED <<size, resizes, keeps, backs, outside, takes>>
  BY DEF SizeEvent
<1>3. events'[p] = Tail(events[p])
  BY <1>2 DEF Base, Types
<1>4. Keeper(p) /\ Untaken(p) /\ Ahead(p) /\ Returning(p)
  BY DEF TakesOnce
<1>5. stream[p] \in StreamType /\ p \in Following /\ Types
  BY <1>4 DEF Base, Types, Keeper, Following
<1>6. Heard(stream[p], events[p], size)
  BY <1>5 DEF Told
\* The last event under way is the terminal's size.
<1>7. Tail(events[p]) = <<>> => s = size
  <2>1. Len(Tail(events[p])) = Len(events[p]) - 1 /\ s = events[p][1]
    BY <1>1
  <2>2. ASSUME Tail(events[p]) = <<>> PROVE Len(events[p]) = 1
    <3>1. PICK T : T = Tail(events[p])
      OBVIOUS
    <3>2. Len(T) = Len(events[p]) - 1 /\ Len(T) = 0
      BY <2>1, <2>2, <3>1
    <3> QED
      BY <1>1, <3>2
  <2> QED
    BY <1>2, <1>6, <2>1, <2>2 DEF Heard
<1>8. Head(events[p]) = events[p][1]
  BY <1>1
<1>9. /\ Promise(stream[p].armed, Tail(events[p]), Foreigners)
      /\ s \in Foreigners => \A b : Promise(b, Tail(events[p]), Foreigners)
  BY <1>1, <1>2, <1>4, PromiseTail DEF Ahead
<1>10. takes = 0 => stream[p].armed /\ Clear(Tail(events[p]), Foreigners) /\ s \notin Foreigners
  BY <1>1, <1>2, <1>4, ClearTail DEF Untaken
<1>11. AppSizes \subseteq Foreigners
  BY AppsAreForeign
<1>12. takesSizeBack(p, s) <=> s \in Foreigners /\ stream[p].armed
  BY <1>1, <1>4, ForeignersAre DEF takesSizeBack, Keeper
<1>13. s \in AppSizes => s # stream[p].known
  BY <1>2, <1>6, <1>8 DEF Heard
<1> HIDE DEF s
\* What the record is once the event was noticed, and what was foreign still is.
<1>14. /\ Keeper(p)' /\ Foreigners' = Foreigners
       /\ stream'[p].armed = (stream[p].armed /\ (s = stream[p].known \/ ~takesSizeBack(p, s)))
       /\ stream'[p].takeBack = (stream[p].takeBack \/ (s # stream[p].known /\ takesSizeBack(p, s)))
  <2>1. CASE s = stream[p].known
    <3>1. stream' = stream
      BY <1>1, <2>1
    <3> QED
      BY <1>4, <1>5, <2>1, <3>1, KeeperSame DEF StreamType
  <2>2. CASE s # stream[p].known
    <3>1. Writes(p, Noticed(p, s))
      BY <1>1, <2>2
    <3>2. /\ Noticed(p, s).at = stream[p].at /\ Noticed(p, s).controlled = stream[p].controlled
          /\ Noticed(p, s).holding = stream[p].holding /\ Noticed(p, s).kept = stream[p].kept
          /\ Noticed(p, s).own = stream[p].own
          /\ Noticed(p, s).armed = spend(p, s)
          /\ Noticed(p, s).takeBack = (stream[p].takeBack \/ takesSizeBack(p, s))
      BY <1>5 DEF Noticed, StreamType
    <3>3. stream[p].at = "attached" /\ stream[p].holding /\ stream[p].controlled
      BY <1>4 DEF Keeper, Latest
    <3>4. Latest(p)'
      BY <1>1, <1>4, <3>1, <3>2, <3>3, LatestKept DEF Keeper
    <3>5. stream'[p] = Noticed(p, s)
      BY <1>1, <1>5, <3>1, WritesOne
    <3>6. Foreigners' = Foreigners
      BY <1>1, <3>1, <3>2, <3>3, ForeignersSame
    <3>7. Keeper(p)'
      BY <3>2, <3>3, <3>4, <3>5 DEF Keeper
    <3> QED
      BY <2>2, <3>2, <3>5, <3>6, <3>7 DEF spend
  <2> QED
    BY <2>1, <2>2
<1>15. Untaken(p)'
  <2> SUFFICES ASSUME takes' = 0
               PROVE  /\ stream'[p].armed /\ Clear(events'[p], Foreigners')
                      /\ \A q \in Pages : Clear(resizes'[q], Foreigners')
    BY DEF Untaken, Clear
  <2>1. takes = 0 /\ \A q \in Pages : Clear(resizes'[q], Foreigners')
    BY <1>2, <1>4, <1>14 DEF Untaken
  <2> QED
    BY <1>3, <1>10, <1>12, <1>14, <2>1
<1>16. Ahead(p)'
  <2>1. Promise(stream'[p].armed, Tail(events[p]), Foreigners)
    <3>1. CASE s \in Foreigners
      BY <1>9, <3>1
    <3>2. CASE s \notin Foreigners
      <4>1. stream'[p].armed = stream[p].armed
        BY <1>5, <1>12, <1>14, <3>2 DEF StreamType
      <4> QED
        BY <1>9, <4>1
    <3> QED
      BY <3>1, <3>2
  <2> QED
    BY <1>3, <1>14, <2>1 DEF Ahead, Promise
<1>17. Returning(p)'
  <2> SUFFICES ASSUME size \in AppSizes, ~\E q \in Pages : resizes[q] # <<>>
               PROVE  stream'[p].takeBack \/ (stream'[p].armed /\ Tail(events[p]) # <<>>)
    BY <1>2, <1>3 DEF Returning
  <2>1. stream[p].takeBack \/ stream[p].armed
    BY <1>4 DEF Returning
  <2>2. CASE stream[p].takeBack
    BY <1>14, <2>2
  <2>3. CASE stream[p].armed /\ s # stream[p].known /\ takesSizeBack(p, s)
    BY <1>14, <2>3
  <2>4. CASE stream[p].armed /\ ~(s # stream[p].known /\ takesSizeBack(p, s))
    <3>1. stream'[p].armed
      BY <1>14, <2>4
    <3>2. Tail(events[p]) # <<>>
      BY <1>7, <1>11, <1>12, <1>13, <2>4
    <3> QED
      BY <3>1, <3>2
  <2> QED
    BY <2>1, <2>2, <2>3, <2>4
<1> QED
  BY <1>14, <1>15, <1>16, <1>17 DEF TakesOnce

\* The keeper's own take-back is sent, or nothing is to be had back.
LEMMA OnceTakeSizeBack ==
  ASSUME Base, Told, NEW p \in Pages, TakesOnce(p), TakeSizeBack(p)
  PROVE  TakesOnce(p)'
<1> DEFINE want == stream[p].own[1]
<1>1. Writes(p, TookBack(stream[p])) /\ TookBack(stream[p]) \in StreamType
  BY TakeSizeBackWrites
<1>2. Keeper(p) /\ Untaken(p) /\ Ahead(p) /\ Returning(p)
  BY DEF TakesOnce
<1>3. /\ stream[p] \in StreamType /\ p \in Following /\ Types
      /\ stream[p].at = "attached" /\ stream[p].holding /\ stream[p].controlled
  BY <1>2 DEF Base, Types, Keeper, Following, Latest
<1>4. /\ TookBack(stream[p]).at = stream[p].at /\ TookBack(stream[p]).controlled = stream[p].controlled
      /\ TookBack(stream[p]).holding = stream[p].holding /\ TookBack(stream[p]).kept = stream[p].kept
      /\ TookBack(stream[p]).own = stream[p].own /\ TookBack(stream[p]).armed = stream[p].armed
  BY <1>3 DEF TookBack, StreamType
<1>5. stream'[p] = TookBack(stream[p])
  BY <1>1, <1>3, WritesOne
<1>6. Latest(p)'
  BY <1>1, <1>2, <1>3, <1>4, LatestKept DEF Keeper
<1>7. Keeper(p)'
  BY <1>3, <1>4, <1>5, <1>6 DEF Keeper
<1>8. Foreigners' = Foreigners
  BY <1>1, <1>3, <1>4, ForeignersSame
<1>9. want \notin Foreigners /\ want \in Sizes
  BY <1>3, OwnAreNotForeign
<1>10. UNCHANGED <<size, events, takes>> /\ (Send(p, want) \/ (UNCHANGED resizes /\ stream[p].known = want))
  BY <1>3 DEF TakeSizeBack
<1> HIDE DEF want
<1>11. \A q \in Pages : Clear(resizes[q], Foreigners) => Clear(resizes'[q], Foreigners)
  <2>1. CASE UNCHANGED resizes
    BY <2>1
  <2>2. CASE Send(p, want)
    <3>1. resizes'[p] = Append(resizes[p], want) /\ \A q \in Pages : q # p => resizes'[q] = resizes[q]
      BY <1>3, <1>9, <2>2, SendAdds
    <3>2. resizes[p] \in Seq(Sizes)
      BY <1>3 DEF Types
    <3>3. Clear(resizes[p], Foreigners) => Clear(Append(resizes[p], want), Foreigners)
      BY <1>9, <3>2, ClearAppend
    <3> QED
      BY <3>1, <3>3
  <2> QED
    BY <1>10, <2>1, <2>2
<1>12. Untaken(p)'
  <2> SUFFICES ASSUME takes' = 0
               PROVE  /\ stream'[p].armed /\ Clear(events'[p], Foreigners')
                      /\ \A q \in Pages : Clear(resizes'[q], Foreigners')
    BY DEF Untaken, Clear
  <2>1. takes = 0 /\ events' = events
    BY <1>10
  <2>2. stream[p].armed /\ Clear(events[p], Foreigners) /\ \A q \in Pages : Clear(resizes[q], Foreigners)
    BY <1>2, <2>1 DEF Untaken
  <2> QED
    BY <1>4, <1>5, <1>8, <1>11, <2>1, <2>2
<1>13. Ahead(p)'
  BY <1>2, <1>4, <1>5, <1>8, <1>10 DEF Ahead, Promise
<1>14. Returning(p)'
  <2> SUFFICES ASSUME size \in AppSizes
               PROVE  (\E q \in Pages : resizes'[q] # <<>>) \/ (stream'[p].armed /\ events[p] # <<>>)
    BY <1>10 DEF Returning
  <2>1. CASE Send(p, want)
    <3>1. resizes'[p] = Append(resizes[p], want) /\ resizes[p] \in Seq(Sizes)
      BY <1>3, <1>9, <2>1, SendAdds DEF Types
    <3>2. Len(resizes'[p]) = Len(resizes[p]) + 1 /\ Len(resizes[p]) \in Nat
      BY <1>9, <3>1
    <3>3. resizes'[p] # <<>>
      BY <3>2
    <3> QED
      BY <3>3
  <2>2. CASE stream[p].known = want
    <3>1. stream[p].known # size
      BY <1>9, <2>2, Bounds
    <3>2. Heard(stream[p], events[p], size)
      BY <1>3 DEF Told
    <3>3. events[p] # <<>> /\ events[p][Len(events[p])] = size
      BY <1>3, <3>1, <3>2 DEF Heard
    <3>4. events[p] \in Seq(Sizes \cup AppSizes)
      BY <1>3 DEF Types
    <3>5. Len(events[p]) \in DOMAIN events[p]
      BY <3>3, <3>4
    <3>6. stream[p].armed
      BY <1>2, <3>3, <3>5 DEF Ahead, Promise
    <3> QED
      BY <1>4, <1>5, <3>3, <3>6
  <2> QED
    BY <1>10, <2>1, <2>2
<1> QED
  BY <1>7, <1>12, <1>13, <1>14 DEF TakesOnce

\* A page that says keep:true is the keeper from here on; takes counts what it
\* has not seen.
LEMMA OnceKeep ==
  ASSUME SizesAreRemembered, Base, Told, NEW p \in Pages, NEW s \in Sizes, Keep(p, s), takes' < 2
  PROVE  TakesOnce(p)'
<1> DEFINE r == Kept(stream[p], s, keeps + 1)
           InEvents == {i \in DOMAIN events[p] : Foreign(events[p][i])}
           InResizes == {q \in Pages : \E i \in DOMAIN resizes[q] : Foreign(resizes[q][i])}
<1>1. Writes(p, r) /\ r \in StreamType
  BY KeepWrites
<1>2. /\ stream[p] \in StreamType /\ p \in Following /\ Types /\ Shape
      /\ stream[p].at = "attached" /\ stream[p].controlled
  BY DEF Base, Types, Keep, MayResize, Following
<1>3. /\ r.at = "attached" /\ r.controlled /\ r.holding /\ r.armed /\ r.kept = keeps + 1
      /\ r.own = asked(stream[p].own, s) /\ r.takeBack = stream[p].takeBack
  BY <1>2 DEF Kept, StreamType
<1> HIDE DEF r
<1>4. stream'[p] = r /\ \A q \in Pages : q # p => stream'[q] = stream[q]
  BY <1>1, <1>2, WritesOne
<1>5. /\ takes' = AtMostTwo(Unseen(p)) /\ UNCHANGED <<size, events>>
      /\ Send(p, s) \/ (UNCHANGED resizes /\ stream[p].known = s)
  BY DEF Keep, SendUnlessKnown, HasSize
<1>6. Foreigners' \subseteq Foreigners /\ s \notin Foreigners'
  BY <1>1, <1>2, <1>3, AskedForeigners
<1>7. Keeper(p)'
  <2>1. \A q \in Pages : q # p => stream'[q].kept <= keeps /\ stream'[q].kept \in Nat
    BY <1>2, <1>4 DEF Shape, Types, StreamType
  <2>2. keeps \in Nat
    BY <1>2 DEF Types
  <2>3. \A q \in Pages : stream'[q].kept <= stream'[p].kept
    BY <1>3, <1>4, <2>1, <2>2
  <2>4. Latest(p)'
    BY <1>3, <1>4, <2>3 DEF Latest, Holders
  <2> QED
    BY <1>3, <1>4, <2>4 DEF Keeper
<1>8. /\ IsFiniteSet(InEvents) /\ Cardinality(InEvents) \in Nat
      /\ IsFiniteSet(InResizes) /\ Cardinality(InResizes) \in Nat
  <2>1. IsFiniteSet(DOMAIN events[p])
    <3>1. DOMAIN events[p] = 1 .. Len(events[p]) /\ Len(events[p]) \in Nat
      BY <1>2 DEF Types
    <3> QED
      BY <3>1, FS_Interval
  <2> QED
    BY <2>1, PagesAreFinite, FS_Subset, FS_CardinalityType
<1>9. Unseen(p) = Cardinality(InEvents) + Cardinality(InResizes)
  BY DEF Unseen
<1>10. events[p] \in Seq(Sizes \cup AppSizes) /\ \A q \in Pages : resizes[q] \in Seq(Sizes)
  BY <1>2 DEF Types
<1>11. /\ \A i \in DOMAIN events[p] : i \in InEvents <=> events[p][i] \in Foreigners
       /\ \A q \in Pages : q \notin InResizes => Clear(resizes[q], Foreigners)
  BY <1>10, ForeignersAre DEF Clear
<1> HIDE DEF InEvents, InResizes
<1>12. Cardinality(InEvents) + Cardinality(InResizes) < 2
  BY <1>5, <1>8, <1>9 DEF AtMostTwo
<1>13. takes' = 0 => InEvents = {} /\ InResizes = {}
  <2> SUFFICES ASSUME takes' = 0 PROVE InEvents = {} /\ InResizes = {}
    OBVIOUS
  <2>1. Cardinality(InEvents) = 0 /\ Cardinality(InResizes) = 0
    BY <1>5, <1>8, <1>9 DEF AtMostTwo
  <2> QED
    BY <1>8, <2>1, FS_EmptySet
<1>14. \A i, j \in InEvents : i = j
  <2>1. CASE Cardinality(InEvents) = 0
    <3>1. InEvents = {}
      BY <1>8, <2>1, FS_EmptySet
    <3> QED
      BY <3>1
  <2>2. CASE Cardinality(InEvents) = 1
    <3>1. PICK x : InEvents = {x}
      BY <1>8, <2>2, FS_Singleton
    <3> QED
      BY <3>1
  <2> QED
    BY <1>8, <1>12, <2>1, <2>2
<1>15. Untaken(p)'
  <2> SUFFICES ASSUME takes' = 0
               PROVE  /\ stream'[p].armed /\ Clear(events'[p], Foreigners')
                      /\ \A q \in Pages : Clear(resizes'[q], Foreigners')
    BY DEF Untaken, Clear
  <2>1. InEvents = {} /\ InResizes = {}
    BY <1>13
  <2>2. Clear(events[p], Foreigners')
    BY <1>6, <1>11, <2>1 DEF Clear
  <2>3. \A q \in Pages : Clear(resizes[q], Foreigners')
    BY <1>6, <1>11, <2>1, ClearFewer
  <2>4. CASE Send(p, s)
    <3>1. resizes'[p] = Append(resizes[p], s) /\ \A q \in Pages : q # p => resizes'[q] = resizes[q]
      BY <1>2, <2>4, SendAdds
    <3>2. Clear(Append(resizes[p], s), Foreigners')
      BY <1>6, <1>10, <2>3, ClearAppend
    <3> QED
      BY <1>3, <1>4, <1>5, <2>2, <2>3, <3>1, <3>2
  <2>5. CASE UNCHANGED resizes
    BY <1>3, <1>4, <1>5, <2>2, <2>3, <2>5
  <2> QED
    BY <1>5, <2>4, <2>5
<1>16. Ahead(p)'
  <2>1. Promise(TRUE, events[p], Foreigners)
    <3> SUFFICES ASSUME NEW i \in DOMAIN events[p], events[p][i] \in AppSizes, NEW j \in 1 .. i - 1
                 PROVE  events[p][j] \notin Foreigners
      BY DEF Promise
    <3>1. i \in InEvents /\ j \in DOMAIN events[p] /\ j # i
      BY <1>10, <1>11, AppsAreForeign
    <3> QED
      BY <1>11, <1>14, <3>1
  <2>2. Promise(TRUE, events[p], Foreigners')
    BY <1>6, <2>1, PromiseFewer
  <2> QED
    BY <1>3, <1>4, <1>5, <2>2 DEF Ahead, Promise
<1>17. Returning(p)'
  <2> SUFFICES ASSUME size \in AppSizes
               PROVE  (\E q \in Pages : resizes'[q] # <<>>) \/ (stream'[p].armed /\ events[p] # <<>>)
    BY <1>5 DEF Returning
  <2>1. CASE Send(p, s)
    <3>1. resizes'[p] = Append(resizes[p], s)
      BY <1>2, <2>1, SendAdds
    <3>2. Len(resizes'[p]) = Len(resizes[p]) + 1 /\ Len(resizes[p]) \in Nat
      BY <1>10, <3>1
    <3>3. resizes'[p] # <<>>
      BY <3>2
    <3> QED
      BY <3>3
  <2>2. CASE stream[p].known = s
    <3>1. stream[p].known # size
      BY <2>2, Bounds
    <3>2. events[p] # <<>>
      BY <1>2, <3>1 DEF Told, Heard
    <3> QED
      BY <1>3, <1>4, <3>2
  <2> QED
    BY <1>5, <2>1, <2>2
<1> QED
  BY <1>7, <1>15, <1>16, <1>17 DEF TakesOnce

\* The window takes the size from a keeper that has seen everything: it has its
\* take-back, and the window's size is the first foreign one it will hear of.
LEMMA OnceAppUsed ==
  ASSUME Base, NEW p \in Pages, TakesOnce(p), NEW s \in AppSizes, AppUsed(s), takes' < 2
  PROVE  TakesOnce(p)'
<1>1. Keeper(p) /\ Untaken(p) /\ Ahead(p)
  BY DEF TakesOnce
<1>2. /\ s # size /\ size' = s /\ events' = Announce(s, events) /\ takes' = AtMostTwo(takes + 1)
      /\ UNCHANGED stream /\ UNCHANGED resizes
  BY DEF AppUsed
<1>3. takes = 0 /\ takes' = 1
  <2>1. takes \in 0 .. 2
    BY DEF Base, Types
  <2> QED
    BY <1>2, <2>1 DEF AtMostTwo
<1>4. Keeper(p)' /\ Foreigners' = Foreigners
  BY <1>1, <1>2, KeeperSame
<1>5. stream[p].armed /\ Clear(events[p], Foreigners)
  BY <1>1, <1>3 DEF Untaken
<1>6. events[p] \in Seq(Sizes \cup AppSizes) /\ s \in Sizes \cup AppSizes
  BY DEF Base, Types
<1>7. events'[p] = Append(events[p], s)
  BY <1>1, <1>2, <1>6, AnnounceAdds DEF Base, Keeper, Following
<1>8. Promise(stream[p].armed, Append(events[p], s), Foreigners)
  BY <1>1, <1>5, <1>6, PromiseAppend DEF Ahead
<1>9. Ahead(p)'
  BY <1>2, <1>4, <1>7, <1>8 DEF Ahead, Promise
<1>10. Returning(p)'
  <2>1. Len(events'[p]) = Len(events[p]) + 1 /\ Len(events[p]) \in Nat
    BY <1>6, <1>7
  <2>2. events'[p] # <<>>
    BY <2>1
  <2> QED
    BY <1>2, <1>5, <2>2 DEF Returning
<1>11. Untaken(p)'
  BY <1>3 DEF Untaken
<1> QED
  BY <1>4, <1>9, <1>10, <1>11 DEF TakesOnce

LEMMA OnceStep ==
  ASSUME SizesAreRemembered, Base, Told, [Next]_vars, Once
  PROVE  Once'
<1> SUFFICES ASSUME takes' < 2 PROVE \E p \in Pages : TakesOnce(p)'
  BY DEF Once
<1>0. /\ Types /\ \A p \in Pages : /\ stream[p] \in StreamType /\ resizes[p] \in Seq(Sizes)
                                   /\ events[p] \in Seq(Sizes \cup AppSizes)
  BY DEF Base, Types
<1>a. takes \in 0 .. 2
  BY <1>0 DEF Types
<1>b. ASSUME takes < 2 PROVE \E p \in Pages : TakesOnce(p)
  BY <1>b DEF Once
<1>c. ASSUME NEW p \in Pages, TakesOnce(p)
      PROVE  /\ Keeper(p) /\ Latest(p) /\ stream[p].at = "attached"
             /\ stream[p].holding /\ stream[p].controlled
  BY <1>c DEF TakesOnce, Keeper, Latest
<1>1. ASSUME NEW q \in Pages, NEW s \in Sizes, Open(q, s) PROVE \E p \in Pages : TakesOnce(p)'
  <2>1. Writes(q, Opened(s)) /\ Opened(s) \in StreamType /\ Foreigners' \subseteq Foreigners
    BY <1>1, OpenWrites, OpenedForeigners
  <2>2. Opened(s).at = "opening" /\ ~Opened(s).holding
    BY DEF Opened, NoStream
  <2>3. UNCHANGED <<size, takes>> /\ UNCHANGED events /\ UNCHANGED resizes /\ stream[q].at = "new"
    BY <1>1 DEF Open
  <2>4. PICK p \in Pages : TakesOnce(p)
    BY <1>b, <2>3
  <2>5. q # p
    BY <1>c, <2>3, <2>4
  <2> QED
    BY <2>1, <2>2, <2>3, <2>4, <2>5, OnceQuiet
<1>2. ASSUME NEW q \in Pages, Attach(q) PROVE \E p \in Pages : TakesOnce(p)'
  <2>1. Writes(q, Attached(stream[q])) /\ Attached(stream[q]) \in StreamType
    BY <1>2, AttachWrites
  <2>2. /\ Attached(stream[q]).at = "attached" /\ Attached(stream[q]).own = stream[q].own
        /\ Attached(stream[q]).holding = stream[q].holding /\ Attached(stream[q]).kept = stream[q].kept
        /\ stream[q].at = "opening"
    BY <1>0, <1>2 DEF Attached, Attach, StreamType
  <2>3. size' = stream[q].known /\ events' = Announce(stream[q].known, events) /\ UNCHANGED <<resizes, takes>>
    BY <1>2 DEF Attach
  <2>4. PICK p \in Pages : TakesOnce(p)
    BY <1>b, <2>3
  <2>5. q # p
    BY <1>c, <2>2, <2>4
  <2>6. stream'[p] = stream[p]
    BY <1>0, <2>1, <2>5, WritesOne
  <2>7. Foreigners' = Foreigners
    BY <2>1, <2>2, ForeignersSame
  <2>8. Latest(p)'
    BY <1>c, <2>1, <2>2, <2>4, <2>5, LatestKept
  <2>9. Keeper(p)'
    BY <1>c, <2>4, <2>6, <2>8 DEF Keeper
  <2>10. stream[q].known \in Sizes /\ stream[q].known \notin Foreigners
    BY <2>2, OpeningKnows, OwnAreNotForeign
  <2> QED
    BY <2>3, <2>4, <2>6, <2>7, <2>9, <2>10, OnceCoreSize
<1>3. ASSUME NEW q \in Pages, End(q) PROVE \E p \in Pages : TakesOnce(p)'
  <2>1. Writes(q, Ended(stream[q])) /\ Ended(stream[q]) \in StreamType
    BY <1>3, EndWrites
  <2>2. /\ Ended(stream[q]).at = "ended" /\ Ended(stream[q]).own = stream[q].own
        /\ Ended(stream[q]).holding = stream[q].holding /\ Ended(stream[q]).kept = stream[q].kept
        /\ stream[q].at # "new"
    BY <1>0, <1>3 DEF Ended, End, StreamType
  <2>3. /\ UNCHANGED size /\ UNCHANGED resizes /\ takes' = Void(q)
        /\ \A p \in Pages : p # q => events'[p] = events[p]
    BY <1>0, <1>3 DEF End, Types
  <2>4. Foreigners' = Foreigners
    BY <2>1, <2>2, ForeignersSame
  <2>5. takes < 2
    BY <2>3 DEF Void
  <2>6. PICK p \in Pages : TakesOnce(p)
    BY <1>b, <2>5
  <2>7. q # p /\ takes' = takes
    BY <1>c, <2>3, <2>6, NotVoid
  <2> QED
    BY <2>1, <2>2, <2>3, <2>4, <2>6, <2>7, OnceQuiet
<1>4. ASSUME NEW q \in Pages, Forget(q) PROVE \E p \in Pages : TakesOnce(p)'
  BY <1>4 DEF Forget
<1>5. ASSUME NEW q \in Pages, SizeEvent(q) PROVE \E p \in Pages : TakesOnce(p)'
  <2> DEFINE s == Head(events[q])
  <2>1. /\ IF s # stream[q].known THEN Writes(q, Noticed(q, s)) ELSE stream' = stream
        /\ Noticed(q, s) \in StreamType
    BY <1>5, SizeEventWrites
  <2> HIDE DEF s
  <2>2. UNCHANGED <<size, takes>> /\ UNCHANGED resizes /\ \A p \in Pages : p # q => events'[p] = events[p]
    BY <1>0, <1>5 DEF SizeEvent, Types
  <2>3. stream[q].at = "attached"
    BY <1>5 DEF SizeEvent
  <2>4. /\ Noticed(q, s).at = "attached" /\ Noticed(q, s).own = stream[q].own
        /\ Noticed(q, s).holding = stream[q].holding /\ Noticed(q, s).kept = stream[q].kept
    BY <1>0, <2>3 DEF Noticed, StreamType
  <2>5. PICK p \in Pages : TakesOnce(p)
    BY <1>b, <2>2
  <2>6. CASE p = q
    BY <1>5, <2>5, <2>6, OnceSizeEvent
  <2>7. CASE p # q /\ Writes(q, Noticed(q, s))
    <3>1. Foreigners' = Foreigners
      BY <2>1, <2>3, <2>4, <2>7, ForeignersSame
    <3> QED
      BY <2>1, <2>2, <2>3, <2>4, <2>5, <2>7, <3>1, OnceQuiet
  <2>8. CASE p # q /\ stream' = stream
    <3>1. Keeper(p)' /\ Foreigners' = Foreigners
      BY <1>c, <2>5, <2>8, KeeperSame
    <3>2. events'[p] = events[p] /\ resizes' = resizes
      BY <2>2, <2>8
    <3>3. Untaken(p) /\ Ahead(p) /\ Returning(p)
      BY <2>5 DEF TakesOnce
    <3>4. Untaken(p)'
      BY <2>2, <2>8, <3>1, <3>2, <3>3 DEF Untaken, Clear
    <3>5. Ahead(p)'
      BY <2>8, <3>1, <3>2, <3>3 DEF Ahead, Promise
    <3>6. Returning(p)'
      BY <2>2, <2>8, <3>2, <3>3 DEF Returning
    <3> QED
      BY <3>1, <3>4, <3>5, <3>6 DEF TakesOnce
  <2> QED
    BY <2>1, <2>6, <2>7, <2>8
<1>6. ASSUME NEW q \in Pages, TakeSizeBack(q) PROVE \E p \in Pages : TakesOnce(p)'
  <2>1. Writes(q, TookBack(stream[q])) /\ TookBack(stream[q]) \in StreamType
    BY <1>6, TakeSizeBackWrites
  <2>2. /\ TookBack(stream[q]).at = "attached" /\ TookBack(stream[q]).own = stream[q].own
        /\ TookBack(stream[q]).holding = stream[q].holding /\ TookBack(stream[q]).kept = stream[q].kept
        /\ stream[q].at = "attached"
    BY <1>0, <1>6 DEF TookBack, TakeSizeBack, StreamType
  <2>3. UNCHANGED <<size, takes>> /\ UNCHANGED events /\ (UNCHANGED resizes \/ Send(q, stream[q].own[1]))
    BY <1>6 DEF TakeSizeBack
  <2>4. Foreigners' = Foreigners
    BY <2>1, <2>2, ForeignersSame
  <2>5. stream[q].own[1] \in Sizes /\ stream[q].own[1] \notin Foreigners'
    BY <2>2, <2>4, OwnAreNotForeign
  <2>6. PICK p \in Pages : TakesOnce(p)
    BY <1>b, <2>3
  <2>7. CASE p = q
    BY <1>6, <2>6, <2>7, OnceTakeSizeBack
  <2>8. CASE p # q
    BY <2>1, <2>2, <2>3, <2>4, <2>5, <2>6, <2>8, OnceQuiet
  <2> QED
    BY <2>7, <2>8
<1>7. ASSUME NEW q \in Pages, Release(q) PROVE \E p \in Pages : TakesOnce(p)'
  <2>1. Writes(q, Released(stream[q])) /\ Released(stream[q]) \in StreamType
    BY <1>7, ReleaseWrites
  <2>2. /\ Released(stream[q]).at = "attached" /\ Released(stream[q]).own = stream[q].own
        /\ Released(stream[q]).holding = stream[q].holding /\ Released(stream[q]).kept = stream[q].kept
        /\ stream[q].at = "attached"
    BY <1>0, <1>7 DEF Released, Release, StreamType
  <2>3. UNCHANGED size /\ UNCHANGED events /\ UNCHANGED resizes /\ takes' = Void(q)
    BY <1>7 DEF Release
  <2>4. Foreigners' = Foreigners
    BY <2>1, <2>2, ForeignersSame
  <2>5. takes < 2
    BY <2>3 DEF Void
  <2>6. PICK p \in Pages : TakesOnce(p)
    BY <1>b, <2>5
  <2>7. q # p /\ takes' = takes
    BY <1>c, <2>3, <2>6, NotVoid
  <2> QED
    BY <2>1, <2>2, <2>3, <2>4, <2>6, <2>7, OnceQuiet
<1>8. ASSUME NEW q \in Pages, CoreResize(q) PROVE \E p \in Pages : TakesOnce(p)'
  <2> DEFINE s == Head(resizes[q])
  <2>1. /\ resizes[q] # <<>> /\ size' = s /\ events' = Announce(s, events)
        /\ resizes' = [resizes EXCEPT ![q] = Tail(@)] /\ UNCHANGED stream /\ UNCHANGED takes
    BY <1>8 DEF CoreResize
  <2>2. s \in Sizes
    BY <1>0, <2>1
  <2>3. PICK p \in Pages : TakesOnce(p)
    BY <1>b, <2>1
  <2>4. Keeper(p)' /\ Foreigners' = Foreigners /\ stream'[p] = stream[p]
    BY <1>c, <2>1, <2>3, KeeperSame
  <2>5. Clear(resizes[q], Foreigners) => Clear(Tail(resizes[q]), Foreigners) /\ s \notin Foreigners
    BY <1>0, <2>1, ClearTail
  <2> HIDE DEF s
  <2>6. takes = 0 => s \notin Foreigners
    BY <2>3, <2>5 DEF TakesOnce, Untaken
  <2>7. \A o \in Pages : Clear(resizes[o], Foreigners) => Clear(resizes'[o], Foreigners)
    BY <1>0, <2>1, <2>5 DEF Types
  <2> QED
    BY <2>1, <2>2, <2>3, <2>4, <2>6, <2>7, OnceCoreSize
<1>9. ASSUME NEW q \in Pages, NEW s \in Sizes, Resize(q, s) PROVE \E p \in Pages : TakesOnce(p)'
  <2>1. Writes(q, Asked(stream[q], s)) /\ Asked(stream[q], s) \in StreamType
    BY <1>9, ResizeWrites
  <2>2. /\ Asked(stream[q], s).at = "attached" /\ Asked(stream[q], s).own = asked(stream[q].own, s)
        /\ Asked(stream[q], s).holding = stream[q].holding /\ Asked(stream[q], s).kept = stream[q].kept
        /\ Asked(stream[q], s).armed = stream[q].armed /\ Asked(stream[q], s).takeBack = stream[q].takeBack
        /\ Asked(stream[q], s).controlled /\ stream[q].at = "attached"
    BY <1>0, <1>9 DEF Asked, Resize, MayResize, StreamType
  <2>3. UNCHANGED <<size, takes>> /\ UNCHANGED events /\ (UNCHANGED resizes \/ Send(q, s))
    BY <1>9 DEF Resize, SendUnlessKnown
  <2>4. Foreigners' \subseteq Foreigners /\ s \notin Foreigners'
    BY <2>1, <2>2, AskedForeigners
  <2>5. PICK p \in Pages : TakesOnce(p)
    BY <1>b, <2>3
  <2>6. q = p => stream[q].holding
    BY <1>c, <2>5
  <2> QED
    BY <2>1, <2>2, <2>3, <2>4, <2>5, <2>6, OnceQuiet
<1>10. ASSUME NEW q \in Pages, NEW s \in Sizes, Keep(q, s) PROVE \E p \in Pages : TakesOnce(p)'
  BY <1>10, OnceKeep
<1>11. ASSUME NEW q \in Pages, NEW s \in Sizes, Hide(q, s) PROVE \E p \in Pages : TakesOnce(p)'
  <2>1. Writes(q, Hidden(stream[q], s)) /\ Hidden(stream[q], s) \in StreamType
    BY <1>11, HideWrites
  <2>2. /\ Hidden(stream[q], s).at = "attached" /\ Hidden(stream[q], s).own = asked(stream[q].own, s)
        /\ ~Hidden(stream[q], s).holding /\ stream[q].at = "attached"
    BY <1>0, <1>11 DEF Hidden, Hide, MayResize, StreamType
  <2>3. UNCHANGED size /\ UNCHANGED events /\ UNCHANGED resizes /\ takes' = Void(q)
    BY <1>11 DEF Hide
  <2>4. Foreigners' \subseteq Foreigners
    BY <2>1, <2>2, AskedForeigners
  <2>5. takes < 2
    BY <2>3 DEF Void
  <2>6. PICK p \in Pages : TakesOnce(p)
    BY <1>b, <2>5
  <2>7. q # p /\ takes' = takes
    BY <1>c, <2>3, <2>6, NotVoid
  <2> QED
    BY <2>1, <2>2, <2>3, <2>4, <2>6, <2>7, OnceQuiet
<1>12. ASSUME NEW s \in AppSizes, AppUsed(s) PROVE \E p \in Pages : TakesOnce(p)'
  <2>1. takes < 2
    BY <1>12, <1>a DEF AppUsed, AtMostTwo
  <2>2. PICK p \in Pages : TakesOnce(p)
    BY <1>b, <2>1
  <2> QED
    BY <1>12, <2>2, OnceAppUsed
<1>13. ASSUME UNCHANGED vars PROVE \E p \in Pages : TakesOnce(p)'
  <2>1. UNCHANGED stream /\ UNCHANGED <<size, takes>> /\ UNCHANGED events /\ UNCHANGED resizes
    BY <1>13 DEF vars
  <2>2. PICK p \in Pages : TakesOnce(p)
    BY <1>b, <2>1
  <2>3. Keeper(p)' /\ Foreigners' = Foreigners
    BY <1>c, <2>1, <2>2, KeeperSame
  <2>4. Untaken(p) /\ Ahead(p) /\ Returning(p)
    BY <2>2 DEF TakesOnce
  <2>5. Untaken(p)'
    BY <2>1, <2>3, <2>4 DEF Untaken, Clear
  <2>6. Ahead(p)'
    BY <2>1, <2>3, <2>4 DEF Ahead, Promise
  <2>7. Returning(p)'
    BY <2>1, <2>4 DEF Returning
  <2> QED
    BY <2>3, <2>5, <2>6, <2>7 DEF TakesOnce
<1> QED
  BY <1>1, <1>2, <1>3, <1>4, <1>5, <1>6, <1>7, <1>8, <1>9, <1>10, <1>11, <1>12, <1>13 DEF Next

\* With sizes that are remembered, the app window does not keep the size it took
\* from the page in view: once nothing is under way, the terminal has a size that a
\* page asked for, whatever was late (terminal_core_bridge.go:245-251, 496-506,
\* 545-560).
THEOREM SizesAreTakenBack == SizesAreRemembered => (Spec => []KeepsTakeBackOnce)
<1> SUFFICES ASSUME SizesAreRemembered PROVE Spec => []KeepsTakeBackOnce
  OBVIOUS
<1>1. Init => Told /\ Once
  <2> SUFFICES ASSUME Init PROVE Told /\ Once
    OBVIOUS
  <2>1. Following = {} /\ takes = 2
    BY DEF Init, Following, NoStream
  <2> QED
    BY <2>1 DEF Told, Once
<1>2. Base /\ Told /\ Once /\ [Next]_vars => Told' /\ Once'
  BY ToldStep, OnceStep
<1>3. Once => KeepsTakeBackOnce
  <2> SUFFICES ASSUME Once, Settled, takes < 2, size \in AppSizes PROVE FALSE
    BY DEF KeepsTakeBackOnce
  <2>1. PICK p \in Pages : TakesOnce(p)
    BY DEF Once
  <2> QED
    BY <2>1 DEF TakesOnce, Returning, Settled
<1> QED
  BY <1>1, <1>2, <1>3, BaseHolds, PTL DEF Spec
=============================================================================
