---------------------------- MODULE UploadProofs ----------------------------
(***************************************************************************)
(* What the uploader's acknowledgements, its exit code and its summaries   *)
(* are worth, for every number of sessions, files and rows, every size of  *)
(* a batch, every number of retries and runs, and however posts, answers,  *)
(* late requests, deaths of the server and kills follow each other.        *)
(***************************************************************************)
EXTENDS TelemetryUpload, FiniteSetTheorems, FunctionTheorems, TLAPS

Line == Event \cup {Garbage}
Frames == 0 .. MaxRows[Diagnostic]

Dirs == [metadata : {Absent, "metadata"}, summary : {Absent} \cup Frames,
         lines : Seq(Line), open : BOOLEAN]

\* An open line is there.
Sane(d) == d \in Dirs /\ (d.open => d.lines # <<>>)

\* What an open line cannot take with it.
Solid(d) == (IF d.open THEN ToSet(Front(d.lines)) ELSE ToSet(d.lines)) \ {Garbage}

-----------------------------------------------------------------------------
(* Sequences.                                                              *)

LEMMA SetOfSeq ==
  ASSUME NEW T, NEW s \in Seq(T)
  PROVE  /\ Len(s) \in Nat /\ DOMAIN s = 1 .. Len(s)
         /\ ToSet(s) \subseteq T /\ (s = <<>> <=> Len(s) = 0)
         /\ \A i \in 1 .. Len(s) : s[i] \in T /\ s[i] \in ToSet(s)
BY DEF ToSet

LEMMA SetOfConcat ==
  ASSUME NEW T, NEW s \in Seq(T), NEW t \in Seq(T)
  PROVE  s \o t \in Seq(T) /\ ToSet(s \o t) = ToSet(s) \cup ToSet(t)
<1>1. /\ s \o t \in Seq(T) /\ Len(s) \in Nat /\ Len(t) \in Nat
      /\ DOMAIN s = 1 .. Len(s) /\ DOMAIN t = 1 .. Len(t)
      /\ DOMAIN (s \o t) = 1 .. (Len(s) + Len(t))
      /\ \A i \in 1 .. Len(s) : (s \o t)[i] = s[i]
      /\ \A i \in 1 .. Len(t) : (s \o t)[Len(s) + i] = t[i]
  OBVIOUS
<1>2. ASSUME NEW x \in ToSet(s \o t) PROVE x \in ToSet(s) \cup ToSet(t)
  <2>1. PICK i \in 1 .. (Len(s) + Len(t)) : x = (s \o t)[i]
    BY <1>1 DEF ToSet
  <2>2. CASE i <= Len(s)
    BY <1>1, <2>1, <2>2 DEF ToSet
  <2>3. CASE i > Len(s)
    <3>1. i - Len(s) \in 1 .. Len(t) /\ Len(s) + (i - Len(s)) = i
      BY <1>1, <2>3
    <3> QED
      BY <1>1, <2>1, <3>1 DEF ToSet
  <2> QED
    BY <1>1, <2>2, <2>3
<1>3. ASSUME NEW x \in ToSet(s) \cup ToSet(t) PROVE x \in ToSet(s \o t)
  <2>1. CASE x \in ToSet(s)
    BY <1>1, <2>1 DEF ToSet
  <2>2. CASE x \in ToSet(t)
    <3>1. PICK i \in 1 .. Len(t) : x = t[i]
      BY <1>1, <2>2 DEF ToSet
    <3>2. Len(s) + i \in 1 .. (Len(s) + Len(t))
      BY <1>1
    <3> QED
      BY <1>1, <3>1, <3>2 DEF ToSet
  <2> QED
    BY <2>1, <2>2
<1> QED
  BY <1>1, <1>2, <1>3

LEMMA SetOfPrefix ==
  ASSUME NEW T, NEW s \in Seq(T), NEW n \in 0 .. Len(s)
  PROVE  /\ SubSeq(s, 1, n) \in Seq(T) /\ Len(SubSeq(s, 1, n)) = n
         /\ \A i \in 1 .. n : SubSeq(s, 1, n)[i] = s[i]
         /\ ToSet(SubSeq(s, 1, n)) \subseteq ToSet(s)
<1>1. /\ Len(s) \in Nat /\ DOMAIN s = 1 .. Len(s)
      /\ SubSeq(s, 1, n) \in Seq(T) /\ DOMAIN SubSeq(s, 1, n) = 1 .. n
      /\ Len(SubSeq(s, 1, n)) = n
      /\ \A i \in 1 .. n : SubSeq(s, 1, n)[i] = s[i]
  OBVIOUS
<1> QED
  BY <1>1 DEF ToSet

LEMMA SetOfFront ==
  ASSUME NEW T, NEW s \in Seq(T), s # <<>>
  PROVE  Front(s) \in Seq(T) /\ ToSet(Front(s)) \subseteq ToSet(s)
<1>1. Len(s) \in Nat /\ Len(s) - 1 \in 0 .. Len(s)
  OBVIOUS
<1> QED
  BY <1>1, SetOfPrefix DEF Front

LEMMA SetOfTail ==
  ASSUME NEW T, NEW s \in Seq(T), s # <<>>
  PROVE  /\ Tail(s) \in Seq(T) /\ Head(s) \in T /\ Head(s) \in ToSet(s)
         /\ ToSet(Tail(s)) \subseteq ToSet(s)
         /\ ToSet(s) = {Head(s)} \cup ToSet(Tail(s))
<1>1. /\ Len(s) \in Nat /\ Len(s) > 0 /\ DOMAIN s = 1 .. Len(s)
      /\ Tail(s) \in Seq(T) /\ DOMAIN Tail(s) = 1 .. (Len(s) - 1) /\ Head(s) = s[1]
      /\ \A i \in 1 .. (Len(s) - 1) : Tail(s)[i] = s[i + 1]
  OBVIOUS
<1>2. ASSUME NEW x \in ToSet(s), x # Head(s) PROVE x \in ToSet(Tail(s))
  <2>1. PICK i \in 1 .. Len(s) : x = s[i]
    BY <1>1 DEF ToSet
  <2>2. i - 1 \in 1 .. (Len(s) - 1) /\ (i - 1) + 1 = i
    BY <1>1, <1>2, <2>1
  <2> QED
    BY <1>1, <2>1, <2>2 DEF ToSet
<1>3. ToSet(Tail(s)) \subseteq ToSet(s)
  <2>1. ASSUME NEW i \in 1 .. (Len(s) - 1) PROVE i + 1 \in 1 .. Len(s)
    BY <1>1
  <2> QED
    BY <1>1, <2>1 DEF ToSet
<1>4. 1 \in DOMAIN s
  BY <1>1
<1>5. Head(s) \in ToSet(s) /\ Head(s) \in T
  BY <1>1, <1>4 DEF ToSet
<1> QED
  BY <1>1, <1>2, <1>3, <1>5

LEMMA SetOfOne ==
  ASSUME NEW T, NEW x \in T
  PROVE  <<x>> \in Seq(T) /\ ToSet(<<x>>) = {x} /\ <<x>> # <<>> /\ Head(<<x>>) = x
         /\ Tail(<<x>>) = <<>>
<1>1. DOMAIN <<x>> = {1} /\ <<x>>[1] = x
  OBVIOUS
<1> QED
  BY <1>1 DEF ToSet

-----------------------------------------------------------------------------
(* The files of a session.                                                 *)

LEMMA SolidIsReadable ==
  ASSUME NEW d, Sane(d)
  PROVE  Solid(d) \subseteq Readable(d)
BY SetOfFront DEF Sane, Dirs, Solid, Readable

\* An append closes what was open, and loses no more than the line it joins
\* and the first of its own.
LEMMA AppendKeeps ==
  ASSUME NEW d, Sane(d), NEW new \in Seq(Line)
  PROVE  /\ Sane(AppendLines(d, new))
         /\ AppendLines(d, new).metadata = d.metadata
         /\ AppendLines(d, new).summary = d.summary
         /\ AppendLines(d, new).open = IF new = <<>> THEN d.open ELSE FALSE
         /\ Solid(d) \subseteq Solid(AppendLines(d, new))
         /\ Readable(AppendLines(d, new)) \subseteq Readable(d) \cup ToSet(new)
         /\ new # <<>> =>
              ToSet(new) \ {Garbage} \subseteq
                Solid(AppendLines(d, new)) \cup (IF d.open THEN {Head(new)} ELSE {})
<1> DEFINE f == AppendLines(d, new)
           ls == IF d.open THEN Front(d.lines) \o <<Garbage>> \o Tail(new) ELSE d.lines \o new
<1>1. CASE new = <<>>
  <2>1. f = d /\ ToSet(new) = {}
    BY <1>1 DEF AppendLines, ToSet
  <2> QED
    BY <1>1, <2>1
<1>2. CASE new # <<>>
  <2>1. /\ d \in Dirs /\ d.lines \in Seq(Line) /\ d.open \in BOOLEAN
        /\ d.open => d.lines # <<>>
    BY DEF Sane, Dirs
  <2>2. f = [d EXCEPT !.lines = ls, !.open = FALSE]
    BY <1>2 DEF AppendLines
  <2>3. /\ Tail(new) \in Seq(Line) /\ ToSet(Tail(new)) \subseteq ToSet(new)
        /\ ToSet(new) = {Head(new)} \cup ToSet(Tail(new))
    BY <1>2, SetOfTail
  <2>4. /\ ls \in Seq(Line)
        /\ ToSet(ls) = IF d.open THEN ToSet(Front(d.lines)) \cup {Garbage} \cup ToSet(Tail(new))
                       ELSE ToSet(d.lines) \cup ToSet(new)
        /\ d.open => ToSet(Front(d.lines)) \subseteq ToSet(d.lines)
    <3>1. CASE d.open
      <4>1. PICK front : front = Front(d.lines)
        OBVIOUS
      <4>2. PICK g : g = <<Garbage>>
        OBVIOUS
      <4>3. PICK tl : tl = Tail(new)
        OBVIOUS
      <4>4. front \in Seq(Line) /\ ToSet(front) \subseteq ToSet(d.lines)
        BY <2>1, <3>1, <4>1, SetOfFront
      <4>5. g \in Seq(Line) /\ ToSet(g) = {Garbage}
        BY <4>2, SetOfOne DEF Line
      <4>6. front \o g \in Seq(Line) /\ ToSet(front \o g) = ToSet(front) \cup {Garbage}
        BY <4>4, <4>5, SetOfConcat
      <4>7. PICK fg : fg = front \o g
        OBVIOUS
      <4>8. tl \in Seq(Line)
        BY <2>3, <4>3
      <4>9. fg \o tl \in Seq(Line) /\ ToSet(fg \o tl) = ToSet(fg) \cup ToSet(tl)
        BY <4>6, <4>7, <4>8, SetOfConcat, ZenonT(60)
      <4> QED
        BY <3>1, <4>1, <4>2, <4>3, <4>4, <4>6, <4>7, <4>9
    <3>2. CASE ~d.open
      BY <2>1, <3>2, SetOfConcat
    <3> QED
      BY <3>1, <3>2
  <2> HIDE DEF ls
  <2>5. f.lines = ls /\ f.open = FALSE /\ f.metadata = d.metadata /\ f.summary = d.summary /\ f \in Dirs
    BY <2>1, <2>2, <2>4 DEF Dirs
  <2> HIDE DEF f
  <2>6. Solid(f) = ToSet(ls) \ {Garbage} /\ Readable(f) = ToSet(ls) \ {Garbage}
    BY <2>5 DEF Solid, Readable
  <2>7. /\ Sane(f) /\ Solid(d) \subseteq Solid(f)
        /\ Readable(f) \subseteq Readable(d) \cup ToSet(new)
        /\ ToSet(new) \ {Garbage} \subseteq Solid(f) \cup (IF d.open THEN {Head(new)} ELSE {})
    BY <2>1, <2>3, <2>4, <2>5, <2>6 DEF Sane, Solid, Readable
  <2>8. f = AppendLines(d, new)
    BY DEF f
  <2> QED
    BY ONLY <1>2, <2>5, <2>7, <2>8
<1> QED
  BY <1>1, <1>2

\* A death in the middle of an append takes nothing that was solid.
LEMMA TornKeeps ==
  ASSUME NEW d, Sane(d), NEW new \in Seq(Event), NEW n \in 0 .. Len(new) - 1,
         NEW remnant \in Remnants
  PROVE  /\ Sane(TornAppend(d, new, n, remnant))
         /\ TornAppend(d, new, n, remnant).metadata = d.metadata
         /\ TornAppend(d, new, n, remnant).summary = d.summary
         /\ Solid(d) \subseteq Solid(TornAppend(d, new, n, remnant))
         /\ Readable(TornAppend(d, new, n, remnant)) \subseteq Readable(d) \cup ToSet(new)
         /\ remnant = "nothing" /\ TornAppend(d, new, n, remnant).open => d.open
<1> DEFINE part == SubSeq(new, 1, n)
           w == AppendLines(d, part)
           rest == IF remnant = "part" THEN Garbage ELSE new[n + 1]
           v == AppendLines(w, <<rest>>)
<1>1. /\ Len(new) \in Nat /\ n \in 0 .. Len(new) /\ n + 1 \in 1 .. Len(new)
      /\ new[n + 1] \in Event /\ new[n + 1] \in ToSet(new)
  <2>1. Len(new) \in Nat /\ n \in 0 .. Len(new) /\ n + 1 \in 1 .. Len(new)
    OBVIOUS
  <2> QED
    BY <2>1, SetOfSeq
<1>2. part \in Seq(Line) /\ ToSet(part) \subseteq ToSet(new)
  <2>1. new \in Seq(Line)
    BY DEF Line
  <2> QED
    BY <1>1, <2>1, SetOfPrefix
<1> HIDE DEF part
<1>3. /\ Sane(w) /\ w.metadata = d.metadata /\ w.summary = d.summary
      /\ w.open => d.open
      /\ Solid(d) \subseteq Solid(w) /\ Readable(w) \subseteq Readable(d) \cup ToSet(new)
  BY <1>2, AppendKeeps
<1> HIDE DEF w
<1>4. rest \in Line /\ rest \in ToSet(new) \cup {Garbage}
  BY <1>1 DEF Line
<1> HIDE DEF rest
<1>5. <<rest>> \in Seq(Line) /\ ToSet(<<rest>>) = {rest} /\ <<rest>> # <<>> /\ Tail(<<rest>>) = <<>>
  BY <1>4, SetOfOne
<1>6. /\ Sane(v) /\ v.metadata = d.metadata /\ v.summary = d.summary
      /\ Readable(v) \subseteq Readable(d) \cup ToSet(new)
  <2>1. /\ Sane(v) /\ v.metadata = w.metadata /\ v.summary = w.summary
        /\ Readable(v) \subseteq Readable(w) \cup {rest}
    BY <1>3, <1>5, AppendKeeps
  <2> QED
    BY <1>3, <1>4, <2>1 DEF Readable
<1>7. CASE remnant = "nothing"
  <2>1. TornAppend(d, new, n, remnant) = w
    BY <1>7 DEF TornAppend, w, part
  <2> QED
    BY <1>3, <1>7, <2>1
<1>8. CASE remnant # "nothing"
  <2> DEFINE u == [v EXCEPT !.open = TRUE]
  <2>1. TornAppend(d, new, n, remnant) = u
    BY <1>8 DEF TornAppend, w, part, rest
  <2>2. v.lines = IF w.open THEN Front(w.lines) \o <<Garbage>> \o <<>> ELSE w.lines \o <<rest>>
    BY <1>3, <1>5 DEF AppendLines, Sane, Dirs
  <2>3. v \in Dirs /\ w \in Dirs /\ w.lines \in Seq(Line) /\ (w.open => w.lines # <<>>)
    BY <1>3, <1>6 DEF Sane, Dirs
  <2> HIDE DEF v
  <2>4. /\ u \in Dirs /\ u.lines = v.lines /\ u.open = TRUE
        /\ u.metadata = v.metadata /\ u.summary = v.summary
    BY <2>3 DEF Dirs
  <2> HIDE DEF u
  <2>5. u.lines # <<>> /\ Front(u.lines) = IF w.open THEN Front(w.lines) ELSE w.lines
    <3>1. CASE w.open
      <4>1. Front(w.lines) \in Seq(Line)
        BY <2>3, <3>1, SetOfFront
      <4>2. u.lines = Append(Front(w.lines), Garbage)
        BY <2>2, <2>4, <3>1, <4>1
      <4> QED
        BY <3>1, <4>1, <4>2 DEF Front
    <3>2. CASE ~w.open
      <4>2. u.lines = Append(w.lines, rest)
        BY <2>2, <2>3, <2>4, <3>2
      <4> QED
        BY <2>3, <3>2, <4>2 DEF Front
    <3> QED
      BY <3>1, <3>2
  <2>6. Solid(u) = Solid(w) /\ Readable(u) = Readable(v)
    BY <2>4, <2>5 DEF Solid, Readable
  <2> QED
    BY <1>3, <1>6, <1>8, <2>1, <2>4, <2>5, <2>6 DEF Sane
<1> QED
  BY <1>7, <1>8

-----------------------------------------------------------------------------
(* Batches.                                                                *)

LEMMA EventsAre ==
  /\ \A e \in Event : e.feed \in Feed /\ e.row \in 1 .. MaxRows[e.feed]
                      /\ e = [feed |-> e.feed, row |-> e.row]
  /\ \A f \in Feed, n \in Nat : n \in 1 .. MaxRows[f] => [feed |-> f, row |-> n] \in Event
BY DEF Event

LEMMA FeedsFinite == IsFiniteSet(Feed)
<1> DEFINE n == Len(Feeds)
           h == [i \in 1 .. n |-> Feeds[i]]
<1>1. n \in Nat /\ DOMAIN Feeds = 1 .. n /\ \A i \in 1 .. n : Feeds[i] \in Feed
  BY UploadAssumption, SetOfSeq
<1>2. IsFiniteSet(1 .. n)
  BY <1>1, FS_Interval
<1>3. h \in Surjection(1 .. n, Feed)
  <2>1. h \in [1 .. n -> Feed]
    BY <1>1
  <2>2. \A f \in Feed : \E i \in 1 .. n : h[i] = f
    BY <1>1 DEF Feed, ToSet
  <2> QED
    BY <2>1, <2>2 DEF Surjection
<1> QED
  BY <1>2, <1>3, FS_Surjection

LEMMA EventsFinite == IsFiniteSet(Event)
<1> DEFINE rowsOf(f) == [feed : {f}, row : 1 .. MaxRows[f]]
           all == {rowsOf(f) : f \in Feed}
<1>1. ASSUME NEW f \in Feed PROVE IsFiniteSet(rowsOf(f))
  <2> DEFINE n == MaxRows[f]
             h == [i \in 1 .. n |-> [feed |-> f, row |-> i]]
  <2>1. n \in Nat
    BY UploadAssumption
  <2>2. IsFiniteSet(1 .. n)
    BY <2>1, FS_Interval
  <2>3. h \in [1 .. n -> rowsOf(f)]
    OBVIOUS
  <2>4. ASSUME NEW e \in rowsOf(f) PROVE \E i \in 1 .. n : h[i] = e
    <3>1. e.row \in 1 .. n /\ e = [feed |-> f, row |-> e.row]
      OBVIOUS
    <3> QED
      BY <3>1
  <2>5. h \in Surjection(1 .. n, rowsOf(f))
    BY <2>3, <2>4 DEF Surjection
  <2> HIDE DEF h, rowsOf
  <2> QED
    BY <2>2, <2>5, FS_Surjection
<1>2. IsFiniteSet(all)
  <2> DEFINE h == [f \in Feed |-> rowsOf(f)]
  <2>1. h \in Surjection(Feed, all)
    <3>1. h \in [Feed -> all]
      OBVIOUS
    <3>2. \A x \in all : \E f \in Feed : h[f] = x
      OBVIOUS
    <3> QED
      BY <3>1, <3>2 DEF Surjection
  <2> HIDE DEF h, all
  <2> QED
    BY <2>1, FeedsFinite, FS_Surjection
<1>3. \A x \in all : IsFiniteSet(x)
  BY <1>1
<1>4. IsFiniteSet(UNION all)
  <2> HIDE DEF all
  <2> QED
    BY <1>2, <1>3, FS_UNION
<1> QED
  BY <1>4 DEF Event

\* A file has one place among the files.
LEMMA PositionIs ==
  ASSUME NEW e \in Event
  PROVE  Position(e) \in 1 .. Len(Feeds) /\ Feeds[Position(e)] = e.feed /\ Position(e) \in Nat
<1>1. \E k \in DOMAIN Feeds : Feeds[k] = e.feed
  BY EventsAre DEF Feed, ToSet
<1>2. Position(e) \in DOMAIN Feeds /\ Feeds[Position(e)] = e.feed
  BY <1>1 DEF Position
<1>3. DOMAIN Feeds = 1 .. Len(Feeds) /\ Len(Feeds) \in Nat
  BY UploadAssumption, SetOfSeq
<1> QED
  BY <1>2, <1>3

LEMMA PositionSame ==
  ASSUME NEW d \in Event, NEW e \in Event
  PROVE  Position(d) = Position(e) <=> d.feed = e.feed
<1>1. d.feed = e.feed => Position(d) = Position(e)
  BY DEF Position
<1> QED
  BY <1>1, PositionIs

\* Events are read one after the other.
LEMMA PrecedesOrders ==
  /\ \A d, e \in Event : Precedes(d, e) => d # e /\ ~Precedes(e, d)
  /\ \A d, e \in Event : d = e \/ Precedes(d, e) \/ Precedes(e, d)
  /\ \A c, d, e \in Event : Precedes(c, d) /\ Precedes(d, e) => Precedes(c, e)
<1>1. ASSUME NEW d \in Event
      PROVE  Position(d) \in Nat /\ d.row \in Nat /\ d = [feed |-> d.feed, row |-> d.row]
  <2>1. MaxRows[d.feed] \in Nat
    BY EventsAre, UploadAssumption
  <2> QED
    BY <2>1, PositionIs, EventsAre
<1>2. ASSUME NEW d \in Event, NEW e \in Event
      PROVE  /\ Position(d) = Position(e) <=> d.feed = e.feed
             /\ d.feed = e.feed /\ d.row = e.row => d = e
  BY <1>1, PositionSame
<1>3. ASSUME NEW d \in Event, NEW e \in Event, Precedes(d, e) PROVE d # e /\ ~Precedes(e, d)
  BY <1>1, <1>2, <1>3 DEF Precedes
<1>4. ASSUME NEW d \in Event, NEW e \in Event PROVE d = e \/ Precedes(d, e) \/ Precedes(e, d)
  BY <1>1, <1>2 DEF Precedes
<1>5. ASSUME NEW c \in Event, NEW d \in Event, NEW e \in Event, Precedes(c, d), Precedes(d, e)
      PROVE  Precedes(c, e)
  BY <1>1, <1>2, <1>5 DEF Precedes
<1> QED
  BY <1>3, <1>4, <1>5

\* The numbers of n events are 1 .. n, one each, in order.
LEMMA Numbers ==
  ASSUME NEW rest \in SUBSET Event
  PROVE  /\ Cardinality(rest) \in Nat
         /\ \A e \in rest : Number(rest, e) \in 1 .. Cardinality(rest)
         /\ \A d, e \in rest : Precedes(d, e) => Number(rest, d) < Number(rest, e)
         /\ \A d, e \in rest : Number(rest, d) = Number(rest, e) => d = e
         /\ \A i \in 1 .. Cardinality(rest) : \E e \in rest : Number(rest, e) = i
<1> DEFINE n == Cardinality(rest)
           upTo(e) == {d \in rest : d = e \/ Precedes(d, e)}
           number == [e \in rest |-> Number(rest, e)]
<1>1. IsFiniteSet(rest) /\ n \in Nat
  BY EventsFinite, FS_Subset, FS_CardinalityType
<1>2. ASSUME NEW e \in rest
      PROVE  /\ IsFiniteSet(upTo(e))
             /\ Number(rest, e) = Cardinality(upTo(e))
             /\ Number(rest, e) \in 1 .. n
  <2>1. upTo(e) \in SUBSET rest /\ e \in upTo(e)
    OBVIOUS
  <2>2. IsFiniteSet(upTo(e)) /\ Cardinality(upTo(e)) <= n
    BY <1>1, <2>1, FS_Subset
  <2>3. Cardinality(upTo(e)) \in Nat /\ Cardinality(upTo(e)) # 0
    BY <2>1, <2>2, FS_CardinalityType, FS_EmptySet
  <2> QED
    BY <1>1, <2>2, <2>3 DEF Number
<1>3. ASSUME NEW d \in rest, NEW e \in rest, Precedes(d, e)
      PROVE  Number(rest, d) < Number(rest, e)
  <2>1. upTo(d) \in SUBSET upTo(e) /\ e \in upTo(e) /\ e \notin upTo(d)
    BY <1>3, PrecedesOrders
  <2>2. IsFiniteSet(upTo(d)) /\ IsFiniteSet(upTo(e))
    BY <1>2
  <2>3. Cardinality(upTo(d)) <= Cardinality(upTo(e)) /\ Cardinality(upTo(d)) # Cardinality(upTo(e))
    BY <2>1, <2>2, FS_Subset
  <2> QED
    BY <1>1, <1>2, <2>3, SMTT(60)
<1>4. ASSUME NEW d \in rest, NEW e \in rest, Number(rest, d) = Number(rest, e)
      PROVE  d = e
  <2>a. 1 .. n \subseteq Nat
    BY <1>1
  <2>b. Number(rest, d) \in 1 .. n /\ Number(rest, e) \in 1 .. n
    BY <1>2
  <2>1. Number(rest, d) \in Nat /\ Number(rest, e) \in Nat
    BY <2>a, <2>b
  <2>2. ~(Number(rest, d) < Number(rest, e)) /\ ~(Number(rest, e) < Number(rest, d))
    BY <1>4, <2>1
  <2>3. ~Precedes(d, e) /\ ~Precedes(e, d)
    BY <1>3, <2>2
  <2>4. d \in Event /\ e \in Event
    OBVIOUS
  <2> QED
    BY <2>3, <2>4, PrecedesOrders
<1>5. number \in Injection(rest, 1 .. n)
  <2>1. number \in [rest -> 1 .. n]
    BY <1>2
  <2> QED
    BY <1>4, <2>1, Fun_IsInj
<1>6. IsFiniteSet(1 .. n) /\ Cardinality(1 .. n) = n
  BY <1>1, FS_Interval
<1>7. number \in Surjection(rest, 1 .. n)
  BY <1>1, <1>5, <1>6, FS_Injection
<1> QED
  BY <1>1, <1>2, <1>3, <1>4, <1>7 DEF Surjection

\* A batch is the first of the rest: each once, and what is not in it comes
\* after all that is.
LEMMA FirstOfRest ==
  ASSUME NEW rest \in SUBSET Event, NEW size \in 0 .. Cardinality(rest)
  PROVE  /\ FirstOf(rest, size) \in Seq(Event) /\ Len(FirstOf(rest, size)) = size
         /\ ToSet(FirstOf(rest, size)) \subseteq rest
         /\ \A i, j \in 1 .. size : i < j => Precedes(FirstOf(rest, size)[i], FirstOf(rest, size)[j])
         /\ \A e \in rest \ ToSet(FirstOf(rest, size)) :
              \A i \in 1 .. size : Precedes(FirstOf(rest, size)[i], e)
         /\ size = Cardinality(rest) => ToSet(FirstOf(rest, size)) = rest
<1> DEFINE b == FirstOf(rest, size)
           n == Cardinality(rest)
<1>1. n \in Nat /\ size \in Nat /\ 1 .. size \subseteq 1 .. n
  BY Numbers
<1>2. \A i \in 1 .. size : b[i] \in rest /\ Number(rest, b[i]) = i
  BY <1>1, Numbers DEF FirstOf
<1>3. DOMAIN b = 1 .. size
  BY DEF FirstOf
<1>4. b \in [1 .. size -> Event]
  BY <1>2 DEF FirstOf
<1>5. b \in Seq(Event) /\ Len(b) = size
  BY <1>1, <1>4
<1>6. ToSet(b) \subseteq rest
  BY <1>2, <1>3 DEF ToSet
<1> HIDE DEF b
<1>7. ASSUME NEW i \in 1 .. size, NEW e \in rest, Number(rest, e) > i PROVE Precedes(b[i], e)
  <2>1. b[i] \in Event /\ e \in Event /\ b[i] \in rest /\ Number(rest, b[i]) = i
    BY <1>2
  <2>2. b[i] # e /\ ~Precedes(e, b[i])
    BY <1>1, <1>7, <2>1, Numbers
  <2> QED
    BY <2>1, <2>2, PrecedesOrders
<1>8. ASSUME NEW e \in rest, e \notin ToSet(b) PROVE Number(rest, e) > size /\ Number(rest, e) \in 1 .. n
  <2>1. Number(rest, e) \in 1 .. n
    BY Numbers
  <2>2. ASSUME Number(rest, e) <= size PROVE FALSE
    <3> DEFINE i == Number(rest, e)
    <3>1. i \in 1 .. size
      BY <1>1, <2>1, <2>2
    <3>2. b[i] = e
      BY <1>2, <3>1, Numbers
    <3> QED
      BY <1>3, <1>8, <3>1, <3>2 DEF ToSet
  <2> QED
    BY <1>1, <2>1, <2>2
<1>9. ASSUME NEW i \in 1 .. size, NEW j \in 1 .. size, i < j PROVE Precedes(b[i], b[j])
  BY <1>2, <1>7, <1>9
<1>10. ASSUME NEW e \in rest \ ToSet(b), NEW i \in 1 .. size PROVE Precedes(b[i], e)
  <2>1. Number(rest, e) > i
    BY <1>1, <1>8
  <2> QED
    BY <1>7, <2>1
<1>11. ASSUME size = n PROVE ToSet(b) = rest
  BY <1>1, <1>6, <1>8, <1>11
<1> QED
  BY <1>5, <1>6, <1>9, <1>10, <1>11 DEF b

-----------------------------------------------------------------------------
(* The states.                                                             *)

Pcs == {"idle", "session", "started", "ingest", "finalize", "ended"}

Clients == [pc : Pcs, todo : Seq(Session), mode : [ingest : BOOLEAN, finalize : BOOLEAN],
            failures : Nat, feed : Nat, from : Nat, code : {0, 1}]

\* Only a batch has events; it is not empty, and no larger than a batch may be.
ProperRequest(req) ==
  /\ req \in Request /\ Len(req.events) <= BatchSize
  /\ req.kind = "ingest" <=> req.events # <<>>

Typed ==
  /\ rows \in [Session -> [Feed -> Nat]]
  /\ \A s \in Session, f \in Feed : rows[s][f] <= MaxRows[f]
  /\ bad \in [Session -> SUBSET Event]
  /\ cli \in Clients
  /\ Posting => ProperRequest(post)
  /\ \A req \in late : ProperRequest(req)
  /\ dir \in [Session -> Dirs] /\ \A s \in Session : Sane(dir[s])
  /\ runs \in 0 .. MaxRuns /\ faults \in 0 .. MaxFaults
  /\ tears \in [Session -> Nat] /\ \A s \in Session : tears[s] <= faults
  /\ due \in [Session -> SUBSET Event] /\ acked \in [Session -> SUBSET Event]

\* Which request the process waits for.
Waiting ==
  /\ cli.pc \in {"started", "ingest", "finalize", "ended"} => cli.todo # <<>>
  /\ cli.pc = "started" => Posting /\ post.kind = "start"
  /\ cli.pc = "ended" => Posting /\ post.kind = "end"
  /\ Posting => /\ cli.pc \in {"started", "ingest", "finalize", "ended"}
                /\ cli.pc \in {"ingest", "finalize"} => post.kind = "ingest"
                /\ post.s = S

\* What is acknowledged and not solid, and a line left open, each cost the
\* server a death.
Paid ==
  \A s \in Session :
    Cardinality(acked[s] \ Solid(dir[s])) + (IF dir[s].open THEN 1 ELSE 0) <= tears[s]

\* Events come from the files.
Recorded ==
  /\ \A s \in Session : Readable(dir[s]) \subseteq Present(s)
  /\ \A req \in late : ToSet(req.events) \subseteq Present(req.s)
  /\ Posting => ToSet(post.events) \subseteq Present(post.s)

\* The summary that is under way counts what is stored and what may still be.
Counts ==
  cli.pc = "ended" =>
    \A e \in Event :
      /\ e.feed = Diagnostic
      /\ e \in Readable(dir[post.s]) \/ \E req \in late : req.s = post.s /\ e \in ToSet(req.events)
      => e.row <= post.frames

\* Without a failure, what was due is acknowledged, in the request, or ahead.
Sent ==
  IF cli.mode.ingest /\ cli.pc \in {"ingest", "finalize"} /\ Posting THEN ToSet(post.events) ELSE {}

Ahead == IF cli.pc \in {"started", "ingest"} THEN Rest(S, cli.feed, cli.from) ELSE {}

Behind == \A s \in Session \ ToSet(cli.todo) : Complete(s)

Begun == cli.pc \in {"ingest", "finalize", "ended"} => dir[S].metadata # Absent

Through ==
  cli.pc \in {"started", "ingest", "finalize", "ended"} /\ cli.mode.ingest =>
    due[S] \subseteq acked[S] \cup Sent \cup Ahead

Covered ==
  IF cli.pc = "idle" THEN cli.code = 0 => \A s \in Session : Complete(s)
  ELSE cli.failures = 0 => Behind /\ Begun /\ Through

UploadInv == Typed /\ Waiting /\ Paid /\ Recorded /\ Counts /\ Covered

-----------------------------------------------------------------------------
(* Storing.                                                                *)

Stored(d, req) ==
  CASE req.kind = "start"  -> record_session_start(d, "metadata")
    [] req.kind = "ingest" -> append_events(d, req.events)
    [] req.kind = "end"    -> record_session_end(d, req.frames)

Debt(A, d) == Cardinality(A \ Solid(d)) + (IF d.open THEN 1 ELSE 0)

\* What a session's directory never loses.
Keeps(d, f) ==
  /\ d.metadata # Absent => f.metadata # Absent
  /\ d.summary # Absent => f.summary # Absent

\* What a start and an end leave.
Marks(req, f) ==
  /\ req.kind = "start" => f.metadata # Absent
  /\ req.kind = "end" => f.summary = req.frames /\ f.summary # Absent

LEMMA RequestIs ==
  ASSUME NEW req, ProperRequest(req)
  PROVE  /\ req \in Request /\ req.kind \in {"start", "ingest", "end"} /\ req.s \in Session
         /\ req.events \in Seq(Event) /\ req.events \in Seq(Line) /\ ToSet(req.events) \subseteq Event
         /\ req.frames \in Frames /\ req.attempt \in 1 .. MaxRetries
         /\ (req.kind # "ingest" => req.events = <<>> /\ ToSet(req.events) = {})
         /\ (req.kind = "ingest" => req.events # <<>>)
<1>1. /\ req \in Request /\ req.kind \in {"start", "ingest", "end"} /\ req.s \in Session
      /\ req.events \in Seq(Event) /\ req.frames \in Frames /\ req.attempt \in 1 .. MaxRetries
  BY DEF ProperRequest, Request, Frames
<1>2. req.events \in Seq(Line)
  BY <1>1 DEF Line
<1>3. ToSet(req.events) \subseteq Event
  BY <1>1, SetOfSeq
<1>4. ToSet(<<>>) = {}
  BY DEF ToSet
<1> QED
  BY <1>1, <1>2, <1>3, <1>4 DEF ProperRequest

LEMMA FramesAre == Absent \notin Frames /\ "metadata" # Absent /\ Frames \subseteq Nat
<1>1. MaxRows[Diagnostic] \in Nat
  BY UploadAssumption
<1> QED
  BY <1>1, UploadAssumption DEF Frames

LEMMA StoredKeeps ==
  ASSUME NEW d, Sane(d), NEW req, ProperRequest(req)
  PROVE  /\ Sane(Stored(d, req)) /\ Keeps(d, Stored(d, req))
         /\ Solid(d) \subseteq Solid(Stored(d, req))
         /\ Readable(Stored(d, req)) \subseteq Readable(d) \cup ToSet(req.events)
         /\ Stored(d, req).open => d.open
         /\ Marks(req, Stored(d, req))
         /\ req.kind = "ingest" =>
              /\ Stored(d, req).open = FALSE
              /\ ToSet(req.events) \subseteq
                   Solid(Stored(d, req)) \cup (IF d.open THEN {Head(req.events)} ELSE {})
<1> DEFINE f == Stored(d, req)
<1>1. /\ req.kind \in {"start", "ingest", "end"} /\ req.events \in Seq(Line)
      /\ ToSet(req.events) \subseteq Event /\ req.frames \in Frames
      /\ req.kind = "ingest" => req.events # <<>>
  BY RequestIs
<1>2. d \in Dirs /\ d.lines \in Seq(Line) /\ d.open \in BOOLEAN /\ (d.open => d.lines # <<>>)
  BY DEF Sane, Dirs
<1>3. CASE req.kind = "start"
  <2>1. f = [d EXCEPT !.metadata = "metadata"]
    BY <1>3 DEF Stored, record_session_start
  <2>2. /\ f \in Dirs /\ f.lines = d.lines /\ f.open = d.open /\ f.summary = d.summary
        /\ f.metadata = "metadata"
    BY <1>2, <2>1 DEF Dirs
  <2> HIDE DEF f
  <2>3. /\ Sane(f) /\ Keeps(d, f) /\ Solid(d) \subseteq Solid(f) /\ Readable(f) = Readable(d)
        /\ f.open = d.open /\ f.metadata # Absent
    BY <1>2, <2>2, FramesAre DEF Sane, Keeps, Solid, Readable
  <2>4. f = Stored(d, req)
    BY DEF f
  <2>5. Marks(req, f)
    BY <1>3, <2>3 DEF Marks
  <2> QED
    BY ONLY <1>3, <2>3, <2>4, <2>5
<1>4. CASE req.kind = "end"
  <2>1. f = [d EXCEPT !.summary = req.frames]
    BY <1>4 DEF Stored, record_session_end
  <2>2. /\ f \in Dirs /\ f.lines = d.lines /\ f.open = d.open /\ f.summary = req.frames
        /\ f.metadata = d.metadata
    BY <1>1, <1>2, <2>1 DEF Dirs
  <2> HIDE DEF f
  <2>3. /\ Sane(f) /\ Keeps(d, f) /\ Solid(d) \subseteq Solid(f) /\ Readable(f) = Readable(d)
        /\ f.open = d.open /\ f.summary = req.frames /\ f.summary # Absent
    BY <1>1, <1>2, <2>2, FramesAre DEF Sane, Keeps, Solid, Readable
  <2>4. f = Stored(d, req)
    BY DEF f
  <2>5. Marks(req, f)
    BY <1>4, <2>3 DEF Marks
  <2> QED
    BY ONLY <1>4, <2>3, <2>4, <2>5
<1>5. CASE req.kind = "ingest"
  <2>1. f = AppendLines(d, req.events)
    BY <1>5 DEF Stored, append_events
  <2> HIDE DEF f
  <2>2. /\ Sane(f) /\ f.metadata = d.metadata /\ f.summary = d.summary
        /\ f.open = FALSE /\ Solid(d) \subseteq Solid(f)
        /\ Readable(f) \subseteq Readable(d) \cup ToSet(req.events)
        /\ ToSet(req.events) \ {Garbage} \subseteq
             Solid(f) \cup (IF d.open THEN {Head(req.events)} ELSE {})
    BY <1>1, <1>5, <2>1, AppendKeeps
  <2>3. ToSet(req.events) \ {Garbage} = ToSet(req.events)
    BY <1>1, UploadAssumption
  <2>4. f = Stored(d, req)
    BY DEF f
  <2>5. Keeps(d, f) /\ Marks(req, f)
    BY <1>5, <2>2 DEF Keeps, Marks
  <2> QED
    BY ONLY <1>5, <2>2, <2>3, <2>4, <2>5
<1> QED
  BY <1>1, <1>3, <1>4, <1>5

\* What is stored does not deepen the debt, even when it is acknowledged.
LEMMA StoredPays ==
  ASSUME NEW d, Sane(d), NEW req, ProperRequest(req), NEW A \in SUBSET Event
  PROVE  /\ Debt(A, Stored(d, req)) <= Debt(A, d)
         /\ req.kind = "ingest" => Debt(A \cup ToSet(req.events), Stored(d, req)) <= Debt(A, d)
<1> DEFINE f == Stored(d, req)
           E == ToSet(req.events)
           X == A \ Solid(d)
<1>1. /\ Sane(f) /\ Solid(d) \subseteq Solid(f) /\ f.open \in BOOLEAN /\ d.open \in BOOLEAN
      /\ f.open => d.open
      /\ req.kind = "ingest" => /\ f.open = FALSE
                                /\ E \subseteq Solid(f) \cup (IF d.open THEN {Head(req.events)} ELSE {})
  BY StoredKeeps DEF Sane, Dirs
<1>2. E \subseteq Event
  BY RequestIs
<1> HIDE DEF f, E
<1>3. /\ IsFiniteSet(X) /\ Cardinality(X) \in Nat
      /\ IsFiniteSet(A \ Solid(f)) /\ Cardinality(A \ Solid(f)) \in Nat
      /\ Cardinality(A \ Solid(f)) <= Cardinality(X)
  <2>1. X \in SUBSET Event /\ A \ Solid(f) \in SUBSET X
    BY <1>1
  <2>2. IsFiniteSet(X)
    BY <2>1, EventsFinite, FS_Subset
  <2> QED
    BY <2>1, <2>2, FS_Subset, FS_CardinalityType
<1>4. Debt(A, f) <= Debt(A, d)
  BY <1>1, <1>3 DEF Debt
<1>5. ASSUME req.kind = "ingest" PROVE Debt(A \cup E, f) <= Debt(A, d)
  <2> DEFINE Y == (A \cup E) \ Solid(f)
  <2>1. CASE d.open
    <3> DEFINE h == Head(req.events)
    <3>1. Y \in SUBSET (X \cup {h})
      BY <1>1, <1>5, <2>1
    <3> HIDE DEF h, Y
    <3>a. IsFiniteSet(X \cup {h})
          /\ Cardinality(X \cup {h}) = IF h \in X THEN Cardinality(X) ELSE Cardinality(X) + 1
      BY <1>3, FS_AddElement
    <3>2. IsFiniteSet(X \cup {h}) /\ Cardinality(X \cup {h}) <= Cardinality(X) + 1
          /\ Cardinality(X \cup {h}) \in Nat
      <4> HIDE DEF X
      <4> QED
        BY <1>3, <3>a
    <3>3. Cardinality(Y) <= Cardinality(X \cup {h}) /\ Cardinality(Y) \in Nat
      BY <3>1, <3>2, FS_Subset, FS_CardinalityType
    <3>4. Cardinality(Y) + 0 <= Cardinality(X) + 1
      BY <1>3, <3>2, <3>3
    <3> QED
      BY <1>1, <1>5, <2>1, <3>4 DEF Debt, Y
  <2>2. CASE ~d.open
    <3>1. Y \in SUBSET X
      BY <1>1, <1>5, <2>2
    <3> HIDE DEF Y
    <3>2. Cardinality(Y) <= Cardinality(X) /\ Cardinality(Y) \in Nat
      BY <1>3, <3>1, FS_Subset, FS_CardinalityType
    <3>3. Cardinality(Y) + 0 <= Cardinality(X) + 0
      BY <1>3, <3>2
    <3> QED
      BY <1>1, <1>5, <2>2, <3>3 DEF Debt, Y
  <2> QED
    BY <1>1, <2>1, <2>2
<1> QED
  BY <1>4, <1>5 DEF f, E

LEMMA TornPays ==
  ASSUME NEW d, Sane(d), NEW new \in Seq(Event), NEW n \in 0 .. Len(new) - 1,
         NEW remnant \in Remnants, NEW A \in SUBSET Event
  PROVE  Debt(A, TornAppend(d, new, n, remnant))
           <= Debt(A, d) + (IF remnant = "nothing" THEN 0 ELSE 1)
<1> DEFINE f == TornAppend(d, new, n, remnant)
           X == A \ Solid(d)
           Y == A \ Solid(f)
<1>1. /\ Solid(d) \subseteq Solid(f) /\ f.open \in BOOLEAN /\ d.open \in BOOLEAN
      /\ remnant = "nothing" /\ f.open => d.open
  BY TornKeeps DEF Sane, Dirs
<1> HIDE DEF f
<1>2. X \in SUBSET Event /\ Y \in SUBSET X
  BY <1>1
<1>3. IsFiniteSet(X) /\ Cardinality(X) \in Nat /\ Cardinality(Y) \in Nat /\ Cardinality(Y) <= Cardinality(X)
  BY <1>2, EventsFinite, FS_Subset, FS_CardinalityType
<1>4. Debt(A, f) = Cardinality(Y) + (IF f.open THEN 1 ELSE 0)
      /\ Debt(A, d) = Cardinality(X) + (IF d.open THEN 1 ELSE 0)
  BY DEF Debt
<1> HIDE DEF X, Y
<1>5. Debt(A, f) <= Debt(A, d) + (IF remnant = "nothing" THEN 0 ELSE 1)
  BY <1>1, <1>3, <1>4
<1> QED
  BY <1>5 DEF f

\* Only the request's own directory changes.
LEMMA StoreIs ==
  ASSUME dir \in [Session -> Dirs], NEW req, ProperRequest(req), Sane(dir[req.s])
  PROVE  /\ Store(dir, req) \in [Session -> Dirs]
         /\ \A s \in Session :
              Store(dir, req)[s] = IF s = req.s THEN Stored(dir[s], req) ELSE dir[s]
<1>1. req.kind \in {"start", "ingest", "end"} /\ req.s \in Session
  BY RequestIs
<1>2. Store(dir, req) = [dir EXCEPT ![req.s] = Stored(dir[req.s], req)]
  BY <1>1 DEF Store, Stored
<1>3. Stored(dir[req.s], req) \in Dirs
  BY StoredKeeps DEF Sane
<1> HIDE DEF Sane
<1> QED
  BY <1>1, <1>2, <1>3

-----------------------------------------------------------------------------
(* What a step does to the process, to its request and to the directories.  *)

\* `post` is what it was, but for the attempt.
Again ==
  /\ Posting' /\ ProperRequest(post')
  /\ post'.kind = post.kind /\ post'.s = post.s /\ post'.events = post.events
  /\ post'.frames = post.frames /\ post'.attempt = post.attempt + 1

LEMMA ReturnedDoes ==
  ASSUME Typed, Waiting, Posting, NEW ok \in BOOLEAN, Returned(ok)
  PROVE  /\ post' = None /\ ~Posting'
         /\ cli' \in Clients /\ cli'.mode = cli.mode /\ cli'.code = cli.code
         /\ cli'.feed = cli.feed /\ cli'.from = cli.from
         /\ cli'.failures = cli.failures + (IF ok THEN 0 ELSE 1)
         /\ cli.pc = "started" => cli'.pc = (IF cli.mode.ingest THEN "ingest" ELSE "finalize")
         /\ cli.pc \in {"ingest", "finalize"} => cli'.pc = cli.pc
         /\ cli.pc = "ended" => cli'.pc = "session" /\ cli'.todo = Tail(cli.todo)
         /\ cli.pc # "ended" => cli'.todo = cli.todo
         /\ acked' \in [Session -> SUBSET Event]
         /\ \A s \in Session : acked'[s] = IF ok /\ post.kind = "ingest" /\ s = post.s
                                          THEN acked[s] \cup ToSet(post.events) ELSE acked[s]
<1> DEFINE failed == IF ok THEN 0 ELSE 1
<1>1. /\ cli \in Clients /\ cli.todo \in Seq(Session) /\ cli.failures \in Nat
      /\ cli.pc \in {"started", "ingest", "finalize", "ended"} /\ cli.todo # <<>>
      /\ cli.mode \in [ingest : BOOLEAN, finalize : BOOLEAN]
      /\ Tail(cli.todo) \in Seq(Session)
  BY DEF Typed, Waiting, Clients
<1>2. failed \in Nat /\ cli.failures + failed \in Nat
  BY <1>1
<1>3. post' = None /\ ~Posting'
  BY DEF Returned, Posting
<1>4. /\ acked' \in [Session -> SUBSET Event]
      /\ \A s \in Session : acked'[s] = IF ok /\ post.kind = "ingest" /\ s = post.s
                                       THEN acked[s] \cup ToSet(post.events) ELSE acked[s]
  <2>1. ProperRequest(post) /\ acked \in [Session -> SUBSET Event]
    BY DEF Typed
  <2>2. post.s \in Session /\ ToSet(post.events) \subseteq Event
    BY <2>1, RequestIs
  <2>3. acked' = IF ok /\ post.kind = "ingest"
                 THEN [acked EXCEPT ![post.s] = @ \cup ToSet(post.events)] ELSE acked
    BY DEF Returned
  <2> QED
    BY <2>1, <2>2, <2>3
<1> HIDE DEF failed
<1>5. CASE cli.pc = "started"
  <2>1. cli' = [cli EXCEPT !.pc = IF cli.mode.ingest THEN "ingest" ELSE "finalize",
                           !.failures = @ + failed]
    BY <1>5 DEF Returned, failed
  <2>2. /\ cli' \in Clients /\ cli'.mode = cli.mode /\ cli'.code = cli.code
        /\ cli'.feed = cli.feed /\ cli'.from = cli.from /\ cli'.todo = cli.todo
        /\ cli'.failures = cli.failures + failed
        /\ cli'.pc = (IF cli.mode.ingest THEN "ingest" ELSE "finalize")
    BY <1>1, <1>2, <2>1 DEF Clients, Pcs
  <2> QED
    BY <1>3, <1>4, <1>5, <2>2 DEF failed
<1>6. CASE cli.pc \in {"ingest", "finalize"}
  <2>1. cli' = [cli EXCEPT !.failures = @ + failed]
    BY <1>6 DEF Returned, failed
  <2>2. /\ cli' \in Clients /\ cli'.mode = cli.mode /\ cli'.code = cli.code
        /\ cli'.feed = cli.feed /\ cli'.from = cli.from /\ cli'.todo = cli.todo
        /\ cli'.failures = cli.failures + failed /\ cli'.pc = cli.pc
    BY <1>1, <1>2, <2>1 DEF Clients
  <2> QED
    BY <1>3, <1>4, <1>6, <2>2 DEF failed
<1>7. CASE cli.pc = "ended"
  <2>1. cli' = [cli EXCEPT !.pc = "session", !.todo = Tail(@), !.failures = @ + failed]
    BY <1>7 DEF Returned, NextSession, failed
  <2>2. /\ cli' \in Clients /\ cli'.mode = cli.mode /\ cli'.code = cli.code
        /\ cli'.feed = cli.feed /\ cli'.from = cli.from /\ cli'.todo = Tail(cli.todo)
        /\ cli'.failures = cli.failures + failed /\ cli'.pc = "session"
    BY <1>1, <1>2, <2>1 DEF Clients, Pcs
  <2> QED
    BY <1>3, <1>4, <1>7, <2>2 DEF failed
<1> QED
  BY <1>1, <1>5, <1>6, <1>7

\* After a failed attempt: the same request again, or on without it.
LEMMA RetryDoes ==
  ASSUME Typed, Waiting, Posting, Retry
  PROVE  \/ Again /\ cli' = cli /\ acked' = acked
         \/ Returned(FALSE)
<1>1. CASE post.attempt < MaxRetries
  <2>1. ProperRequest(post) /\ post \in Request /\ post.attempt \in 1 .. MaxRetries /\ MaxRetries \in Nat
    BY RequestIs, UploadAssumption DEF Typed
  <2>2. post' = [post EXCEPT !.attempt = @ + 1] /\ cli' = cli /\ acked' = acked
    BY <1>1 DEF Retry
  <2>3. post.attempt + 1 \in 1 .. MaxRetries
    BY <1>1, <2>1
  <2>4. /\ post' \in Request /\ post'.kind = post.kind /\ post'.s = post.s
        /\ post'.events = post.events /\ post'.frames = post.frames
        /\ post'.attempt = post.attempt + 1
    BY <2>1, <2>2, <2>3 DEF Request
  <2>5. ProperRequest(post')
    BY <2>1, <2>4 DEF ProperRequest
  <2>6. Posting'
    BY <2>4 DEF Posting, Request, None
  <2> QED
    BY <2>2, <2>4, <2>5, <2>6 DEF Again
<1>2. CASE ~(post.attempt < MaxRetries)
  BY <1>2 DEF Retry
<1> QED
  BY <1>1, <1>2

\* The request is waited for as it was.
LEMMA WaitingAfter ==
  ASSUME Typed, Waiting, Posting, (Again /\ cli' = cli) \/ (\E ok \in BOOLEAN : Returned(ok))
  PROVE  Waiting' /\ cli' \in Clients /\ (Posting' => ProperRequest(post'))
<1>1. CASE Again /\ cli' = cli
  BY <1>1 DEF Again, Waiting, S, Typed
<1>2. CASE \E ok \in BOOLEAN : Returned(ok)
  <2>1. PICK ok \in BOOLEAN : Returned(ok)
    BY <1>2
  <2>2. /\ ~Posting' /\ cli' \in Clients
        /\ cli.pc = "started" => cli'.pc \in {"ingest", "finalize"}
        /\ cli.pc \in {"ingest", "finalize"} => cli'.pc = cli.pc
        /\ cli.pc = "ended" => cli'.pc = "session"
        /\ cli.pc # "ended" => cli'.todo = cli.todo
    BY <2>1, ReturnedDoes
  <2>3. cli.pc \in {"started", "ingest", "finalize", "ended"} /\ cli.todo # <<>>
    BY DEF Waiting
  <2>4. cli'.pc \notin {"started", "ended"} /\ (cli'.pc # "session" => cli'.todo # <<>>)
    BY <2>2, <2>3
  <2> QED
    BY <2>2, <2>4 DEF Waiting
<1> QED
  BY <1>1, <1>2

LEMMA StoreDoes ==
  ASSUME Typed, NEW req, ProperRequest(req), dir' = Store(dir, req)
  PROVE  /\ dir' \in [Session -> Dirs]
         /\ \A s \in Session :
              /\ Sane(dir'[s]) /\ Keeps(dir[s], dir'[s])
              /\ Readable(dir'[s]) \subseteq
                   Readable(dir[s]) \cup (IF s = req.s THEN ToSet(req.events) ELSE {})
              /\ \A A \in SUBSET Event : Debt(A, dir'[s]) <= Debt(A, dir[s])
         /\ req.kind = "ingest" =>
              \A A \in SUBSET Event : Debt(A \cup ToSet(req.events), dir'[req.s]) <= Debt(A, dir[req.s])
         /\ Marks(req, dir'[req.s])
<1>1. req.s \in Session /\ dir \in [Session -> Dirs] /\ \A s \in Session : Sane(dir[s])
  BY RequestIs DEF Typed
<1>2. /\ dir' \in [Session -> Dirs]
      /\ \A s \in Session : dir'[s] = IF s = req.s THEN Stored(dir[s], req) ELSE dir[s]
  <2>1. /\ Store(dir, req) \in [Session -> Dirs]
        /\ \A s \in Session :
             Store(dir, req)[s] = IF s = req.s THEN Stored(dir[s], req) ELSE dir[s]
    BY <1>1, StoreIs
  <2> QED
    BY <2>1
<1>3. PICK d : d = dir[req.s]
  OBVIOUS
<1>4. dir'[req.s] = Stored(d, req) /\ Sane(d)
  BY <1>1, <1>2, <1>3
<1>a. Sane(d)
  BY <1>4
<1>5. /\ Sane(Stored(d, req)) /\ Keeps(d, Stored(d, req))
      /\ Readable(Stored(d, req)) \subseteq Readable(d) \cup ToSet(req.events)
      /\ Marks(req, Stored(d, req))
  BY <1>a, StoredKeeps
<1>6. \A A \in SUBSET Event :
        /\ Debt(A, Stored(d, req)) <= Debt(A, d)
        /\ req.kind = "ingest" => Debt(A \cup ToSet(req.events), Stored(d, req)) <= Debt(A, d)
  BY <1>4, StoredPays
<1>7. ASSUME NEW s \in Session, s # req.s
      PROVE  /\ dir'[s] = dir[s] /\ Sane(dir[s]) /\ Keeps(dir[s], dir[s])
             /\ \A A \in SUBSET Event : Debt(A, dir[s]) <= Debt(A, dir[s])
  <2>1. dir'[s] = dir[s] /\ Sane(dir[s]) /\ dir[s].open \in BOOLEAN
    BY <1>1, <1>2, <1>7 DEF Sane, Dirs
  <2>2. ASSUME NEW A \in SUBSET Event PROVE Debt(A, dir[s]) <= Debt(A, dir[s])
    <3>1. A \ Solid(dir[s]) \in SUBSET Event
      OBVIOUS
    <3>2. Cardinality(A \ Solid(dir[s])) \in Nat
      BY <3>1, EventsFinite, FS_Subset, FS_CardinalityType
    <3> QED
      BY <3>2 DEF Debt
  <2> QED
    BY <2>1, <2>2 DEF Keeps
<1>8. ASSUME NEW s \in Session
      PROVE  /\ Sane(dir'[s]) /\ Keeps(dir[s], dir'[s])
             /\ Readable(dir'[s]) \subseteq
                  Readable(dir[s]) \cup (IF s = req.s THEN ToSet(req.events) ELSE {})
             /\ \A A \in SUBSET Event : Debt(A, dir'[s]) <= Debt(A, dir[s])
  <2>1. CASE s = req.s
    BY <1>3, <1>4, <1>5, <1>6, <2>1
  <2>2. CASE s # req.s
    BY <1>7, <2>2
  <2> QED
    BY <2>1, <2>2
<1> QED
  BY <1>2, <1>3, <1>4, <1>5, <1>6, <1>8

\* A death in the middle of a batch: each line it leaves open is one tear.
LEMMA DiesDoes ==
  ASSUME Typed, ServerDies
  PROVE  /\ dir' \in [Session -> Dirs]
         /\ tears' \in [Session -> Nat] /\ faults' = faults + 1 /\ faults' \in 0 .. MaxFaults
         /\ \A s \in Session :
              /\ Sane(dir'[s]) /\ Keeps(dir[s], dir'[s])
              /\ Readable(dir'[s]) \subseteq
                   Readable(dir[s]) \cup (IF s = post.s THEN ToSet(post.events) ELSE {})
              /\ tears'[s] <= faults'
              /\ \A A \in SUBSET Event :
                   Debt(A, dir[s]) <= tears[s] => Debt(A, dir'[s]) <= tears'[s]
<1>1. /\ ProperRequest(post) /\ post.s \in Session /\ post.events \in Seq(Event)
      /\ dir \in [Session -> Dirs] /\ \A s \in Session : Sane(dir[s])
      /\ tears \in [Session -> Nat] /\ \A s \in Session : tears[s] <= faults
      /\ faults \in 0 .. MaxFaults /\ MaxFaults \in Nat
  BY RequestIs, UploadAssumption DEF Typed, ServerDies
<1>2. faults < MaxFaults /\ faults' = faults + 1
  BY DEF ServerDies, Fault
<1>3. PICK n \in 0 .. (Len(post.events) - 1), remnant \in Remnants :
        /\ dir' = [dir EXCEPT ![post.s] = TornAppend(@, post.events, n, remnant)]
        /\ tears' = [tears EXCEPT ![post.s] = @ + IF remnant = "nothing" THEN 0 ELSE 1]
  BY DEF ServerDies
<1> DEFINE cost == IF remnant = "nothing" THEN 0 ELSE 1
<1>4. PICK d : d = dir[post.s]
  OBVIOUS
<1>5. PICK ev : ev = post.events
  OBVIOUS
<1>6. PICK f : f = TornAppend(d, ev, n, remnant)
  OBVIOUS
<1>7. Sane(d) /\ ev \in Seq(Event) /\ n \in 0 .. Len(ev) - 1
  BY <1>1, <1>4, <1>5
<1>8. Sane(f) /\ f.metadata = d.metadata /\ f.summary = d.summary
      /\ Readable(f) \subseteq Readable(d) \cup ToSet(ev)
  BY <1>6, <1>7, TornKeeps
<1>9. \A A \in SUBSET Event : Debt(A, f) <= Debt(A, d) + cost
  BY <1>6, <1>7, TornPays
<1>10. cost \in {0, 1}
  OBVIOUS
<1>11. \A s \in Session : tears'[s] = IF s = post.s THEN tears[s] + cost ELSE tears[s]
  BY <1>1, <1>3
<1>12. \A s \in Session : dir'[s] = IF s = post.s THEN f ELSE dir[s]
  BY <1>1, <1>3, <1>4, <1>5, <1>6
<1>13. dir' \in [Session -> Dirs]
  BY <1>1, <1>3, <1>4, <1>5, <1>6, <1>8 DEF Sane
<1> HIDE DEF cost
<1>14. tears' \in [Session -> Nat]
  <2>1. tears' = [tears EXCEPT ![post.s] = @ + cost]
    BY <1>3 DEF cost
  <2> QED
    BY <1>1, <1>10, <2>1
<1>15. faults' \in 0 .. MaxFaults
  BY <1>1, <1>2
<1>16. ASSUME NEW s \in Session
       PROVE  /\ Sane(dir'[s]) /\ Keeps(dir[s], dir'[s])
              /\ Readable(dir'[s]) \subseteq
                   Readable(dir[s]) \cup (IF s = post.s THEN ToSet(post.events) ELSE {})
              /\ tears'[s] <= faults'
  <2>1. CASE s = post.s
    BY <1>1, <1>2, <1>4, <1>5, <1>8, <1>10, <1>11, <1>12, <2>1 DEF Keeps
  <2>2. CASE s # post.s
    BY <1>1, <1>2, <1>11, <1>12, <2>2 DEF Keeps
  <2> QED
    BY <2>1, <2>2
<1>17. ASSUME NEW s \in Session, NEW A \in SUBSET Event, Debt(A, dir[s]) <= tears[s]
       PROVE  Debt(A, dir'[s]) <= tears'[s]
  <2>1. CASE s = post.s
    <3>1. Debt(A, f) <= Debt(A, d) + cost /\ dir'[s] = f /\ tears'[s] = tears[s] + cost
          /\ Debt(A, d) <= tears[s]
      BY <1>4, <1>9, <1>11, <1>12, <1>17, <2>1
    <3>2. Debt(A, f) \in Int /\ Debt(A, d) \in Int /\ tears[s] \in Int /\ cost \in Int
      <4>1. A \ Solid(f) \in SUBSET Event /\ A \ Solid(d) \in SUBSET Event
        OBVIOUS
      <4>2. Cardinality(A \ Solid(f)) \in Nat /\ Cardinality(A \ Solid(d)) \in Nat
        BY <4>1, EventsFinite, FS_Subset, FS_CardinalityType
      <4>3. tears[s] \in Nat
        BY <1>1
      <4> QED
        BY <1>10, <4>2, <4>3 DEF Debt
    <3> QED
      BY <3>1, <3>2
  <2>2. CASE s # post.s
    BY <1>11, <1>12, <1>17, <2>2
  <2> QED
    BY <2>1, <2>2
<1> QED
  BY <1>2, <1>13, <1>14, <1>15, <1>16, <1>17

\* The next batch is the beginning of the rest; when it is full, the cursor
\* stands at its end and what is left lies ahead of it.
LEMMA BatchIs ==
  ASSUME NEW s \in Session, NEW feed \in Nat, NEW from \in Nat
  PROVE  /\ iter_batches(s, feed, from).events \in Seq(Event)
         /\ Len(iter_batches(s, feed, from).events) <= BatchSize
         /\ ToSet(iter_batches(s, feed, from).events) \subseteq Present(s)
         /\ ~iter_batches(s, feed, from).more =>
              ToSet(iter_batches(s, feed, from).events) = Rest(s, feed, from)
         /\ iter_batches(s, feed, from).more =>
              \E last \in Event :
                /\ iter_batches(s, feed, from).events # <<>>
                /\ last = Last(iter_batches(s, feed, from).events)
                /\ Position(last) \in Nat /\ last.row \in Nat
                /\ Rest(s, feed, from) \subseteq
                     ToSet(iter_batches(s, feed, from).events)
                       \cup Rest(s, Position(last), last.row)
<1> DEFINE rest == Rest(s, feed, from)
           n == Cardinality(rest)
           size == Smaller(n, BatchSize)
           b == FirstOf(rest, size)
<1>1. rest \in SUBSET Event /\ rest \subseteq Present(s)
  BY DEF Rest, Present
<1>2. iter_batches(s, feed, from).events = b /\ iter_batches(s, feed, from).more = (Len(b) = BatchSize)
  BY DEF iter_batches
<1> HIDE DEF rest
<1>3. n \in Nat /\ BatchSize \in Nat /\ BatchSize > 0
  BY <1>1, Numbers, UploadAssumption
<1> HIDE DEF n
<1>4. /\ size \in 0 .. n /\ size <= BatchSize /\ size \in Nat
      /\ size = BatchSize \/ size = n
  BY <1>3 DEF Smaller
<1> HIDE DEF size
<1>5. /\ b \in Seq(Event) /\ Len(b) = size /\ ToSet(b) \subseteq rest
      /\ \A e \in rest \ ToSet(b) : \A i \in 1 .. size : Precedes(b[i], e)
      /\ size = n => ToSet(b) = rest
  BY <1>1, <1>4, FirstOfRest DEF n
<1> HIDE DEF b
<1>6. ASSUME Len(b) # BatchSize PROVE ToSet(b) = rest
  BY <1>4, <1>5, <1>6
<1>7. ASSUME Len(b) = BatchSize
      PROVE  \E last \in Event :
               /\ b # <<>> /\ last = Last(b) /\ Position(last) \in Nat /\ last.row \in Nat
               /\ rest \subseteq ToSet(b) \cup Rest(s, Position(last), last.row)
  <2>1. size \in 1 .. size /\ b # <<>> /\ Last(b) = b[size] /\ b[size] \in Event
    BY <1>3, <1>4, <1>5, <1>7 DEF Last
  <2>2. PICK last \in Event : last = b[size]
    BY <2>1
  <2>3. Position(last) \in Nat /\ last.row \in Nat
    <3>1. MaxRows[last.feed] \in Nat
      BY EventsAre, UploadAssumption
    <3> QED
      BY <3>1, PositionIs, EventsAre
  <2>4. ASSUME NEW e \in rest, e \notin ToSet(b) PROVE e \in Rest(s, Position(last), last.row)
    <3>1. Precedes(last, e) /\ e \in Event /\ e \in Present(s)
      BY <1>1, <1>5, <2>1, <2>2, <2>4
    <3>2. last.feed = e.feed => Position(last) = Position(e)
      BY <3>1, PositionSame
    <3>3. Position(e) \in Nat
      BY <3>1, PositionIs
    <3>4. e.row \in Nat
      <4>1. MaxRows[e.feed] \in Nat
        BY <3>1, EventsAre, UploadAssumption
      <4> QED
        BY <3>1, <4>1, EventsAre
    <3> QED
      BY <2>3, <3>1, <3>2, <3>3, <3>4 DEF Precedes, Rest
  <2> QED
    BY <2>1, <2>2, <2>3, <2>4
<1> QED
  BY <1>1, <1>2, <1>4, <1>5, <1>6, <1>7 DEF rest

-----------------------------------------------------------------------------
(* Types, and which request is waited for.                                 *)

\* What stays where it is.
LEMMA TypedSame ==
  ASSUME Typed, UNCHANGED <<rows, bad>>,
         cli' \in Clients, Posting' => ProperRequest(post'),
         \A req \in late' : ProperRequest(req),
         dir' \in [Session -> Dirs], \A s \in Session : Sane(dir'[s]),
         runs' \in 0 .. MaxRuns, faults' \in 0 .. MaxFaults,
         tears' \in [Session -> Nat], \A s \in Session : tears'[s] <= faults',
         due' \in [Session -> SUBSET Event], acked' \in [Session -> SUBSET Event]
  PROVE  Typed'
BY DEF Typed

\* A request that is given up is the same request.
LEMMA GivenUpIs ==
  ASSUME Typed, Posting
  PROVE  /\ ProperRequest([post EXCEPT !.attempt = 1])
         /\ [post EXCEPT !.attempt = 1].s = post.s
         /\ [post EXCEPT !.attempt = 1].events = post.events
<1>1. ProperRequest(post) /\ post \in Request /\ 1 \in 1 .. MaxRetries
  BY UploadAssumption DEF Typed, ProperRequest
<1>2. PICK again : again = [post EXCEPT !.attempt = 1]
  OBVIOUS
<1>3. /\ again \in Request /\ again.kind = post.kind /\ again.s = post.s
      /\ again.events = post.events
  BY <1>1, <1>2 DEF Request
<1>4. ProperRequest(again)
  BY <1>1, <1>3 DEF ProperRequest
<1> QED
  BY <1>2, <1>3, <1>4

LEMMA PostIs ==
  ASSUME Typed, cli.todo # <<>>, NEW kind \in {"start", "ingest", "end"},
         NEW events \in Seq(Event), Len(events) <= BatchSize, kind = "ingest" <=> events # <<>>,
         NEW frames \in Frames, Post(kind, events, frames)
  PROVE  /\ Posting' /\ ProperRequest(post')
         /\ post'.kind = kind /\ post'.s = S /\ post'.events = events /\ post'.frames = frames
         /\ post'.attempt = 1
<1>1. S \in Session /\ 1 \in 1 .. MaxRetries
  BY UploadAssumption, SetOfTail DEF Typed, Clients, S
<1>2. post' = [kind |-> kind, s |-> S, events |-> events, frames |-> frames, attempt |-> 1]
  BY DEF Post, S
<1>3. /\ post' \in Request /\ post'.kind = kind /\ post'.s = S /\ post'.events = events
      /\ post'.frames = frames /\ post'.attempt = 1
  BY <1>1, <1>2 DEF Request, Frames
<1>4. Posting'
  BY <1>3 DEF Posting, None, Request
<1> QED
  BY <1>3, <1>4 DEF ProperRequest

LEMMA SessionsListed ==
  /\ SetToSeq(Session) \in Seq(Session)
  /\ ToSet(SetToSeq(Session)) = Session
  /\ IsInjective(SetToSeq(Session))
<1> DEFINE n == Cardinality(Session)
<1>1. IsFiniteSet(Session) /\ n \in Nat /\ ExistsBijection(1 .. n, Session)
  BY UploadAssumption, FS_CardinalityType
<1>2. PICK g \in Bijection(1 .. n, Session) : TRUE
  BY <1>1 DEF ExistsBijection
<1>3. g \in [1 .. n -> Session] /\ IsInjective(g)
  BY <1>2 DEF Bijection, Injection, IsInjective
<1>4. PICK f : f = SetToSeq(Session)
  OBVIOUS
<1>5. f \in [1 .. n -> Session] /\ IsInjective(f)
  BY <1>3, <1>4 DEF SetToSeq
<1>6. IsFiniteSet(1 .. n) /\ Cardinality(1 .. n) = n
  BY <1>1, FS_Interval
<1>7. f \in Injection(1 .. n, Session)
  BY <1>5 DEF Injection, IsInjective
<1>8. f \in Surjection(1 .. n, Session)
  BY <1>1, <1>6, <1>7, FS_Injection
<1>9. ToSet(f) = Session
  BY <1>5, <1>8 DEF ToSet, Surjection
<1>10. f \in Seq(Session)
  BY <1>1, <1>5
<1> QED
  BY <1>4, <1>5, <1>9, <1>10

LEMMA InvokeTyped ==
  ASSUME Typed, Waiting, Invoke
  PROVE  Typed' /\ Waiting'
<1>1. PICK mode \in Mode :
        cli' = [NotStarted EXCEPT !.pc = "session", !.todo = SetToSeq(Session), !.mode = mode]
  BY DEF Invoke
<1>2. mode \in [ingest : BOOLEAN, finalize : BOOLEAN]
  BY UploadAssumption
<1>3. cli' \in Clients /\ cli'.pc = "session"
  BY <1>1, <1>2, SessionsListed DEF NotStarted, Clients, Pcs
<1>4. ~Posting
  BY DEF Invoke, Waiting
<1>5. ~Posting'
  BY <1>4 DEF Invoke, Posting
<1>6. runs' \in 0 .. MaxRuns
  BY UploadAssumption DEF Invoke, Typed
<1>7. UNCHANGED <<rows, bad, late, dir, faults, tears, acked>> /\ due' \in [Session -> SUBSET Event]
  BY DEF Invoke
<1>8. Typed'
  BY <1>3, <1>5, <1>6, <1>7, TypedSame DEF Typed
<1> QED
  BY <1>3, <1>5, <1>8 DEF Waiting

LEMMA UploaderTyped ==
  ASSUME Typed, Waiting, Uploader
  PROVE  Typed' /\ Waiting'
<1>1. /\ cli \in Clients /\ cli.todo \in Seq(Session) /\ cli.feed \in Nat /\ cli.from \in Nat
      /\ cli.failures \in Nat /\ cli.mode \in [ingest : BOOLEAN, finalize : BOOLEAN]
      /\ cli.todo # <<>> => S \in Session /\ Tail(cli.todo) \in Seq(Session)
  BY SetOfTail DEF Typed, Clients, S
<1>2. UNCHANGED <<rows, bad, late, dir, runs, faults, tears, acked>>
  BY DEF Uploader, session_start, Exit, ingest_batch, session_end
<1>3. ASSUME cli' \in Clients, Posting' => ProperRequest(post'), due' \in [Session -> SUBSET Event]
      PROVE  Typed'
  BY <1>2, <1>3, TypedSame DEF Typed
<1>4. /\ <<>> \in Seq(Event) /\ Len(<<>>) <= BatchSize /\ 0 \in Frames
  BY UploadAssumption DEF Frames
<1>5. ASSUME NEW failures \in {0, 1}, NextSession(failures), cli.todo # <<>>
      PROVE  cli' \in Clients /\ cli'.pc = "session"
  <2>1. cli.failures + failures \in Nat /\ Tail(cli.todo) \in Seq(Session)
    BY <1>1, <1>5
  <2>2. cli' = [cli EXCEPT !.pc = "session", !.todo = Tail(@), !.failures = @ + failures]
    BY <1>5 DEF NextSession
  <2> QED
    BY <1>1, <2>1, <2>2 DEF Clients, Pcs
<1>6. CASE session_start
  <2>1. /\ cli.pc = "session" /\ cli.todo # <<>>
        /\ cli' = [cli EXCEPT !.pc = "started", !.feed = 1, !.from = 0]
        /\ Post("start", <<>>, 0) /\ due' = [due EXCEPT ![S] = Present(S)]
    BY <1>6 DEF session_start
  <2>2. cli' \in Clients /\ cli'.pc = "started" /\ cli'.todo = cli.todo
    BY <1>1, <2>1 DEF Clients, Pcs
  <2>3. Posting' /\ ProperRequest(post') /\ post'.kind = "start" /\ post'.s = S
    BY <1>4, <2>1, PostIs
  <2>4. due' \in [Session -> SUBSET Event]
    BY <2>1 DEF Typed, Present
  <2>5. S' = S
    BY <2>2 DEF S
  <2> QED
    BY <1>3, <2>1, <2>2, <2>3, <2>4, <2>5 DEF Waiting
<1>7. CASE Exit
  <2>1. /\ cli.pc = "session" /\ UNCHANGED <<post, due>>
        /\ cli' = [cli EXCEPT !.pc = "idle", !.code = IF cli.failures = 0 THEN 0 ELSE 1]
    BY <1>7 DEF Exit
  <2>2. cli' \in Clients /\ cli'.pc = "idle"
    BY <1>1, <2>1 DEF Clients, Pcs
  <2>3. ~Posting /\ ~Posting'
    BY <2>1 DEF Waiting, Posting
  <2>4. Typed'
    BY <1>3, <2>1, <2>2, <2>3 DEF Typed
  <2> QED
    BY <2>2, <2>3, <2>4 DEF Waiting
<1>8. CASE ingest_batch
  <2> DEFINE b == iter_batches(S, cli.feed, cli.from)
  <2>1. cli.pc = "ingest" /\ ~Posting /\ due' = due /\ cli.todo # <<>> /\ S \in Session
    BY <1>1, <1>8 DEF ingest_batch, Waiting
  <2>2. /\ b.events \in Seq(Event) /\ Len(b.events) <= BatchSize
        /\ b.more => \E last \in Event : /\ last = Last(b.events)
                                         /\ Position(last) \in Nat /\ last.row \in Nat
    BY <1>1, <2>1, BatchIs
  <2>3. CASE NextSession(1) /\ UNCHANGED post
    <3>1. cli' \in Clients /\ cli'.pc = "session" /\ ~Posting'
      BY <1>5, <2>1, <2>3 DEF Posting
    <3> QED
      BY <1>3, <2>1, <3>1 DEF Waiting, Typed
  <2>4. CASE /\ b.events # <<>> /\ Post("ingest", b.events, 0)
             /\ cli' = IF b.more
                       THEN [cli EXCEPT !.feed = Position(Last(b.events)), !.from = Last(b.events).row]
                       ELSE [cli EXCEPT !.pc = "finalize"]
    <3>1. Posting' /\ ProperRequest(post') /\ post'.kind = "ingest" /\ post'.s = S
      <4>1. PICK ev : ev = b.events
        OBVIOUS
      <4>2. ev \in Seq(Event) /\ Len(ev) <= BatchSize /\ ev # <<>> /\ Post("ingest", ev, 0)
        BY <2>2, <2>4, <4>1
      <4> QED
        BY <1>4, <2>1, <4>2, PostIs
    <3>2. cli' \in Clients /\ cli'.pc \in {"ingest", "finalize"} /\ cli'.todo = cli.todo
      <4>1. CASE b.more
        BY <1>1, <2>1, <2>2, <2>4, <4>1 DEF Clients, Pcs
      <4>2. CASE ~b.more
        BY <1>1, <2>1, <2>4, <4>2 DEF Clients, Pcs
      <4> QED
        BY <4>1, <4>2
    <3>3. S' = S
      BY <3>2 DEF S
    <3> QED
      BY <1>3, <2>1, <3>1, <3>2, <3>3 DEF Waiting, Typed
  <2>5. CASE cli' = [cli EXCEPT !.pc = "finalize"] /\ UNCHANGED post
    <3>1. cli' \in Clients /\ cli'.pc = "finalize" /\ cli'.todo = cli.todo /\ ~Posting'
      BY <1>1, <2>1, <2>5 DEF Clients, Pcs, Posting
    <3> QED
      BY <1>3, <2>1, <3>1 DEF Waiting, Typed
  <2> HIDE DEF b
  <2> QED
    BY <1>8, <2>3, <2>4, <2>5 DEF ingest_batch, b
<1>9. CASE session_end
  <2>1. cli.pc = "finalize" /\ ~Posting /\ due' = due /\ cli.todo # <<>> /\ S \in Session
    BY <1>1, <1>9 DEF session_end, Waiting
  <2>2. ASSUME NEW failures \in {0, 1}, NextSession(failures), UNCHANGED post
        PROVE  Typed' /\ Waiting'
    <3>1. cli' \in Clients /\ cli'.pc = "session" /\ ~Posting'
      BY <1>5, <2>1, <2>2 DEF Posting
    <3> QED
      BY <1>3, <2>1, <3>1 DEF Waiting, Typed
  <2>3. CASE /\ Post("end", <<>>, build_session_summary(S))
             /\ cli' = [cli EXCEPT !.pc = "ended"]
    <3>1. build_session_summary(S) \in Frames
      BY <2>1, UploadAssumption DEF build_session_summary, Frames, Typed
    <3>2. Posting' /\ ProperRequest(post') /\ post'.kind = "end" /\ post'.s = S
      BY <1>4, <2>1, <2>3, <3>1, PostIs
    <3>3. cli' \in Clients /\ cli'.pc = "ended" /\ cli'.todo = cli.todo
      BY <1>1, <2>3 DEF Clients, Pcs
    <3>4. S' = S
      BY <3>3 DEF S
    <3> QED
      BY <1>3, <2>1, <3>2, <3>3, <3>4 DEF Waiting, Typed
  <2> QED
    BY <1>9, <2>2, <2>3 DEF session_end
<1> QED
  BY <1>6, <1>7, <1>8, <1>9 DEF Uploader

\* Accepted, Rejected, Unreachable, AnswerLost, GivenUp, ServerDies: the
\* request is there again, has failed, or was stored and acknowledged.
Ending == Outcome \/ AnswerLost \/ GivenUp \/ ServerDies

Answered ==
  \/ Again /\ UNCHANGED <<cli, acked>>
  \/ Returned(FALSE)
  \/ Returned(TRUE) /\ dir' = Store(dir, post) /\ tears' = tears

LEMMA EndingIs ==
  ASSUME Typed, Waiting, Ending
  PROVE  /\ Posting /\ ProperRequest(post) /\ UNCHANGED <<rows, bad, runs, due>>
         /\ Answered
         /\ \/ ServerDies
            \/ /\ dir' = Store(dir, post) \/ dir' = dir
               /\ tears' = tears /\ faults' \in {faults, faults + 1} /\ faults' \in 0 .. MaxFaults
         /\ late' = late \/ late' = late \cup {[post EXCEPT !.attempt = 1]}
         /\ late' = late \/ dir' = dir
<1>1. Posting /\ ProperRequest(post) /\ UNCHANGED <<rows, bad, runs, due>>
  BY DEF Ending, Outcome, Accepted, Rejected, Unreachable, AnswerLost, GivenUp, ServerDies, Typed
<1>2. faults \in 0 .. MaxFaults /\ MaxFaults \in Nat /\ faults \in Nat
  BY UploadAssumption DEF Typed
<1>3. faults < MaxFaults => faults + 1 \in 0 .. MaxFaults
  BY <1>2
<1>4. Retry => Answered
  BY <1>1, RetryDoes DEF Answered
<1>5. CASE Accepted
  BY <1>1, <1>2, <1>5 DEF Accepted, Answered
<1>6. CASE Rejected
  BY <1>1, <1>2, <1>6 DEF Rejected, Answered
<1>7. CASE Unreachable
  BY <1>1, <1>2, <1>4, <1>7 DEF Unreachable
<1>8. CASE AnswerLost
  BY <1>1, <1>2, <1>3, <1>4, <1>8 DEF AnswerLost, Fault
<1>9. CASE GivenUp
  BY <1>1, <1>2, <1>3, <1>4, <1>9 DEF GivenUp, Fault
<1>10. CASE ServerDies
  BY <1>1, <1>4, <1>10 DEF ServerDies
<1> QED
  BY <1>5, <1>6, <1>7, <1>8, <1>9, <1>10 DEF Ending, Outcome

LEMMA EndingTyped ==
  ASSUME Typed, Waiting, Ending
  PROVE  Typed' /\ Waiting'
<1>1. /\ Posting /\ ProperRequest(post) /\ UNCHANGED <<rows, bad, runs, due>> /\ Answered
      /\ late' = late \/ late' = late \cup {[post EXCEPT !.attempt = 1]}
  BY EndingIs
<1>2. Waiting' /\ cli' \in Clients /\ (Posting' => ProperRequest(post'))
  BY <1>1, WaitingAfter DEF Answered
<1>3. acked' \in [Session -> SUBSET Event]
  BY <1>1, ReturnedDoes DEF Answered, Typed
<1>4. \A req \in late' : ProperRequest(req)
  BY <1>1, GivenUpIs DEF Typed
<1>5. /\ dir' \in [Session -> Dirs] /\ \A s \in Session : Sane(dir'[s])
      /\ faults' \in 0 .. MaxFaults
      /\ tears' \in [Session -> Nat] /\ \A s \in Session : tears'[s] <= faults'
  <2>1. CASE ServerDies
    BY <2>1, DiesDoes
  <2>2. CASE /\ dir' = Store(dir, post) \/ dir' = dir
             /\ tears' = tears /\ faults' \in {faults, faults + 1} /\ faults' \in 0 .. MaxFaults
    <3>1. dir' \in [Session -> Dirs] /\ \A s \in Session : Sane(dir'[s])
      BY <1>1, <2>2, StoreDoes DEF Typed
    <3>2. tears \in [Session -> Nat] /\ faults \in Nat /\ \A s \in Session : tears[s] <= faults
      BY DEF Typed
    <3>3. \A s \in Session : tears'[s] <= faults'
      BY <2>2, <3>2
    <3> QED
      BY <2>2, <3>1, <3>2, <3>3
  <2> QED
    BY <2>1, <2>2, EndingIs
<1>6. runs' \in 0 .. MaxRuns /\ due' \in [Session -> SUBSET Event]
  BY <1>1 DEF Typed
<1> QED
  BY <1>1, <1>2, <1>3, <1>4, <1>5, <1>6, TypedSame

LEMMA LateTyped ==
  ASSUME Typed, Waiting, Late
  PROVE  Typed' /\ Waiting'
<1>1. PICK req \in late : dir' = Store(dir, req) /\ late' = late \ {req}
  BY DEF Late
<1>2. UNCHANGED <<rows, bad, cli, post, runs, faults, tears, due, acked>>
  BY DEF Late
<1>3. ProperRequest(req) /\ \A r \in late' : ProperRequest(r)
  BY <1>1 DEF Typed
<1>4. dir' \in [Session -> Dirs] /\ \A s \in Session : Sane(dir'[s])
  BY <1>1, <1>3, StoreDoes
<1>5. Typed'
  BY <1>2, <1>3, <1>4, TypedSame DEF Typed, Posting
<1> QED
  BY <1>2, <1>5 DEF Waiting, Posting, S

LEMMA KillTyped ==
  ASSUME Typed, Waiting, Kill
  PROVE  Typed' /\ Waiting'
<1>1. /\ cli' = NotStarted /\ post' = None /\ faults < MaxFaults /\ faults' = faults + 1
      /\ late' = late \/ (Posting /\ late' = late \cup {[post EXCEPT !.attempt = 1]})
      /\ UNCHANGED <<rows, bad, dir, runs, tears, due, acked>>
  BY DEF Kill, Fault
<1>2. cli' \in Clients /\ cli'.pc = "idle" /\ ~Posting'
  BY <1>1 DEF NotStarted, Clients, Pcs, Posting
<1>3. \A req \in late' : ProperRequest(req)
  BY <1>1, GivenUpIs DEF Typed
<1>4. faults' \in 0 .. MaxFaults /\ \A s \in Session : tears'[s] <= faults'
  <2>1. /\ tears \in [Session -> Nat] /\ faults \in 0 .. MaxFaults /\ MaxFaults \in Nat
        /\ \A s \in Session : tears[s] <= faults
    BY UploadAssumption DEF Typed
  <2> QED
    BY <1>1, <2>1
<1>5. Typed'
  BY <1>1, <1>2, <1>3, <1>4, TypedSame DEF Typed
<1> QED
  BY <1>2, <1>5 DEF Waiting

\* A file only grows.
LEMMA RecordDoes ==
  ASSUME Typed, Record
  PROVE  /\ UNCHANGED <<bad, cli, post, late, dir, runs, faults, tears, due, acked>>
         /\ rows' \in [Session -> [Feed -> Nat]]
         /\ \A s \in Session, f \in Feed : rows'[s][f] <= MaxRows[f] /\ rows[s][f] <= rows'[s][f]
         /\ \A s \in Session : Present(s) \subseteq Present(s)'
<1>1. PICK s \in Session, f \in Feed :
        rows[s][f] < MaxRows[f] /\ rows' = [rows EXCEPT ![s][f] = @ + 1]
  BY DEF Record
<1>2. UNCHANGED <<bad, cli, post, late, dir, runs, faults, tears, due, acked>>
  BY DEF Record
<1>3. rows \in [Session -> [Feed -> Nat]] /\ MaxRows \in [Feed -> Nat]
      /\ \A t \in Session, g \in Feed : rows[t][g] <= MaxRows[g]
  BY UploadAssumption DEF Typed
<1>4. rows' \in [Session -> [Feed -> Nat]]
  BY <1>1, <1>3
<1>5. ASSUME NEW t \in Session, NEW g \in Feed
      PROVE  rows'[t][g] <= MaxRows[g] /\ rows[t][g] <= rows'[t][g]
  <2>1. rows[t][g] \in Nat /\ rows[t][g] <= MaxRows[g] /\ MaxRows[g] \in Nat
    BY <1>3
  <2>2. CASE t = s /\ g = f
    BY <1>1, <1>3, <2>1, <2>2
  <2>3. CASE ~(t = s /\ g = f)
    <3>1. rows'[t][g] = rows[t][g]
      BY <1>1, <1>3, <2>3
    <3> QED
      BY <2>1, <3>1
  <2> QED
    BY <2>2, <2>3
<1>6. ASSUME NEW t \in Session, NEW e \in Event, e \in Present(t) PROVE e \in Present(t)'
  <2>1. e.feed \in Feed /\ e.row <= rows[t][e.feed]
    BY <1>6, EventsAre DEF Present
  <2>2. e.row \in Nat
    BY EventsAre, UploadAssumption
  <2>3. /\ rows[t][e.feed] <= rows'[t][e.feed] /\ rows[t][e.feed] \in Nat
        /\ rows'[t][e.feed] \in Nat
    BY <1>3, <1>4, <1>5, <2>1
  <2>4. e.row <= rows'[t][e.feed]
    BY <2>1, <2>2, <2>3
  <2> QED
    BY <2>4 DEF Present
<1>7. \A t \in Session : Present(t) \subseteq Present(t)'
  BY <1>6 DEF Present
<1> QED
  BY <1>2, <1>4, <1>5, <1>7

LEMMA RecordTyped ==
  ASSUME Typed, Waiting, Record
  PROVE  Typed' /\ Waiting'
BY RecordDoes DEF Typed, Waiting, Posting, S

LEMMA TypedInit ==
  ASSUME Init
  PROVE  Typed /\ Waiting
<1>1. rows \in [Session -> [Feed -> Nat]] /\ \A s \in Session, f \in Feed : rows[s][f] <= MaxRows[f]
  <2>1. MaxRows \in [Feed -> Nat \ {0}]
    BY UploadAssumption
  <2>2. PICK r : r = [f \in Feed |-> IF f = Diagnostic THEN 1 ELSE MaxRows[f]]
    OBVIOUS
  <2>3. r \in [Feed -> Nat] /\ \A f \in Feed : r[f] <= MaxRows[f]
    BY <2>1, <2>2
  <2>4. \A s \in Session : rows[s] = r
    BY <2>2 DEF Init
  <2>5. rows \in [Session -> {r}]
    BY <2>2 DEF Init
  <2> QED
    BY <2>3, <2>4, <2>5
<1>2. bad \in [Session -> SUBSET Event]
  <2>1. \A e \in Unreadable : {e} \subseteq Event
    BY UploadAssumption
  <2>2. bad \in [Session -> {{}} \cup {{e} : e \in Unreadable}]
    BY DEF Init
  <2> QED
    BY <2>1, <2>2
<1>3. cli \in Clients /\ cli.pc = "idle" /\ ~Posting
  BY DEF Init, NotStarted, Clients, Pcs, Posting
<1>4. dir \in [Session -> Dirs] /\ \A s \in Session : Sane(dir[s])
  BY DEF Init, NoSession, Dirs, Sane
<1>5. /\ late = {} /\ runs \in 0 .. MaxRuns /\ faults \in 0 .. MaxFaults
      /\ tears \in [Session -> Nat] /\ \A s \in Session : tears[s] <= faults
      /\ due \in [Session -> SUBSET Event] /\ acked \in [Session -> SUBSET Event]
  BY UploadAssumption DEF Init
<1> QED
  BY <1>1, <1>2, <1>3, <1>4, <1>5 DEF Typed, Waiting

LEMMA TypedStep ==
  ASSUME Typed, Waiting, [Next]_vars
  PROVE  Typed' /\ Waiting'
<1>1. CASE Next
  BY <1>1, InvokeTyped, UploaderTyped, EndingTyped, LateTyped, KillTyped, RecordTyped DEF Next, Ending
<1>2. CASE UNCHANGED vars
  BY <1>2 DEF vars, Typed, Waiting, Posting, S
<1> QED
  BY <1>1, <1>2

-----------------------------------------------------------------------------
(* What is acknowledged is there.                                          *)

LEMMA PaidIs == Paid <=> \A s \in Session : Debt(acked[s], dir[s]) <= tears[s]
BY DEF Paid, Debt

LEMMA PaidInit ==
  ASSUME Init
  PROVE  Paid
<1>1. ASSUME NEW s \in Session PROVE Debt(acked[s], dir[s]) <= tears[s]
  <2>1. acked[s] = {} /\ dir[s].open = FALSE /\ tears[s] = 0
    BY DEF Init, NoSession
  <2>2. acked[s] \ Solid(dir[s]) = {}
    BY <2>1
  <2>3. Cardinality(acked[s] \ Solid(dir[s])) = 0
    BY <2>2, FS_EmptySet
  <2> QED
    BY <2>1, <2>3 DEF Debt
<1> QED
  BY <1>1, PaidIs

LEMMA PaidEnding ==
  ASSUME Typed, Waiting, Paid, Ending
  PROVE  Paid'
<1>1. Posting /\ ProperRequest(post) /\ Answered
  BY EndingIs
<1>2. \A s \in Session : acked[s] \in SUBSET Event /\ tears[s] \in Int /\ Debt(acked[s], dir[s]) <= tears[s]
  BY PaidIs DEF Typed
<1>3. ASSUME NEW s \in Session, NEW A \in SUBSET Event
      PROVE  Debt(A, dir[s]) \in Int /\ Debt(A, dir'[s]) \in Int
  <2>1. A \ Solid(dir[s]) \in SUBSET Event /\ A \ Solid(dir'[s]) \in SUBSET Event
    OBVIOUS
  <2>2. Cardinality(A \ Solid(dir[s])) \in Nat /\ Cardinality(A \ Solid(dir'[s])) \in Nat
    BY <2>1, EventsFinite, FS_Subset, FS_CardinalityType
  <2> QED
    BY <2>2 DEF Debt
<1>4. CASE acked' = acked
  <2>1. CASE ServerDies
    <3>1. \A s \in Session : Debt(acked[s], dir'[s]) <= tears'[s]
      BY <1>2, <2>1, DiesDoes
    <3> QED
      BY <1>4, <3>1 DEF Paid, Debt
  <2>2. CASE (dir' = Store(dir, post) \/ dir' = dir) /\ tears' = tears
    <3>1. ASSUME NEW s \in Session PROVE Debt(acked[s], dir'[s]) <= tears[s]
      <4>1. CASE dir' = dir
        BY <1>2, <4>1
      <4>2. CASE dir' = Store(dir, post)
        <5>1. Debt(acked[s], dir'[s]) <= Debt(acked[s], dir[s])
          BY <1>1, <1>2, <4>2, StoreDoes
        <5> QED
          BY <1>2, <1>3, <5>1
      <4> QED
        BY <2>2, <4>1, <4>2
    <3> QED
      BY <1>4, <2>2, <3>1 DEF Paid, Debt
  <2> QED
    BY <2>1, <2>2, EndingIs
<1>5. CASE Returned(TRUE) /\ dir' = Store(dir, post) /\ tears' = tears /\ post.kind = "ingest"
  <2>1. \A s \in Session : acked'[s] = IF s = post.s THEN acked[s] \cup ToSet(post.events) ELSE acked[s]
    BY <1>1, <1>5, ReturnedDoes
  <2>2. ASSUME NEW s \in Session PROVE Debt(acked'[s], dir'[s]) <= Debt(acked[s], dir[s])
    <3>1. CASE s = post.s
      BY <1>1, <1>2, <1>5, <2>1, <3>1, StoreDoes
    <3>2. CASE s # post.s
      BY <1>1, <1>2, <1>5, <2>1, <3>2, StoreDoes
    <3> QED
      BY <3>1, <3>2
  <2>3. ASSUME NEW s \in Session PROVE Debt(acked'[s], dir'[s]) <= tears[s]
    <3>1. ToSet(post.events) \subseteq Event
      BY <1>1, RequestIs
    <3>2. acked'[s] \in SUBSET Event
      BY <1>2, <2>1, <3>1
    <3>3. Debt(acked'[s], dir'[s]) \in Int /\ Debt(acked[s], dir[s]) \in Int
      BY <1>2, <1>3, <3>2
    <3> QED
      BY <1>2, <2>2, <3>3
  <2> QED
    BY <1>5, <2>3 DEF Paid, Debt
<1>6. CASE Returned(FALSE) \/ (Returned(TRUE) /\ post.kind # "ingest")
  BY <1>4, <1>6 DEF Returned
<1> QED
  BY <1>1, <1>4, <1>5, <1>6 DEF Answered

LEMMA PaidStep ==
  ASSUME Typed, Waiting, Paid, [Next]_vars
  PROVE  Paid'
<1>1. CASE UNCHANGED <<dir, tears, acked>>
  BY <1>1 DEF Paid, Solid
<1>2. CASE Late
  <2>1. PICK req \in late : dir' = Store(dir, req)
    BY <1>2 DEF Late
  <2>2. ProperRequest(req) /\ UNCHANGED <<tears, acked>>
    BY <1>2 DEF Typed, Late
  <2>3. ASSUME NEW s \in Session PROVE Debt(acked[s], dir'[s]) <= tears[s]
    <3>1. acked[s] \in SUBSET Event /\ tears[s] \in Int /\ Debt(acked[s], dir[s]) <= tears[s]
      BY PaidIs DEF Typed
    <3>2. Debt(acked[s], dir'[s]) <= Debt(acked[s], dir[s])
      BY <2>1, <2>2, <3>1, StoreDoes
    <3>3. acked[s] \ Solid(dir[s]) \in SUBSET Event /\ acked[s] \ Solid(dir'[s]) \in SUBSET Event
      BY <3>1
    <3>4. Debt(acked[s], dir[s]) \in Int /\ Debt(acked[s], dir'[s]) \in Int
      BY <3>3, EventsFinite, FS_Subset, FS_CardinalityType DEF Debt
    <3> QED
      BY <3>1, <3>2, <3>4
  <2> QED
    BY <2>2, <2>3 DEF Paid, Debt
<1>3. CASE Ending
  BY <1>3, PaidEnding
<1>4. Invoke \/ Uploader \/ Kill \/ Record \/ UNCHANGED vars => UNCHANGED <<dir, tears, acked>>
  BY DEF Invoke, Uploader, session_start, Exit, ingest_batch, session_end, Kill, Record, vars
<1> QED
  BY <1>1, <1>2, <1>3, <1>4 DEF Next, Ending

-----------------------------------------------------------------------------
(* Where events come from, and what a summary counts.                      *)

LEMMA RecordedInit ==
  ASSUME Init
  PROVE  Recorded /\ Counts
<1>1. \A s \in Session : Readable(dir[s]) = {}
  BY DEF Init, NoSession, Readable, ToSet
<1>2. late = {} /\ ~Posting /\ cli.pc = "idle"
  BY DEF Init, Posting, NotStarted
<1> QED
  BY <1>1, <1>2 DEF Recorded, Counts

\* Present does not change unless a file does.
LEMMA PresentSame ==
  ASSUME UNCHANGED rows
  PROVE  \A s : Present(s)' = Present(s)
BY DEF Present

LEMMA RecordedUploader ==
  ASSUME Typed, Waiting, Recorded, Counts, Uploader
  PROVE  Recorded' /\ Counts'
<1>1. UNCHANGED <<rows, late, dir>> /\ \A s \in Session : Present(s)' = Present(s)
  BY PresentSame DEF Uploader, session_start, Exit, ingest_batch, session_end
<1>2. /\ cli \in Clients /\ cli.feed \in Nat /\ cli.from \in Nat
      /\ cli.todo # <<>> => S \in Session
  BY SetOfTail DEF Typed, Clients, S
<1>3. /\ <<>> \in Seq(Event) /\ Len(<<>>) <= BatchSize /\ 0 \in Frames /\ ToSet(<<>>) = {}
  BY UploadAssumption DEF Frames, ToSet
<1>4. ASSUME Posting' => post'.s \in Session /\ ToSet(post'.events) \subseteq Present(post'.s)
      PROVE  Recorded'
  <2>1. \A req \in late : req.s \in Session
    BY RequestIs DEF Typed
  <2> QED
    BY <1>1, <1>4, <2>1 DEF Recorded, Readable
<1>5. CASE session_start
  <2>1. cli.todo # <<>> /\ Post("start", <<>>, 0) /\ cli'.pc = "started"
    BY <1>2, <1>5 DEF session_start, Clients
  <2>2. post'.s = S /\ post'.events = <<>>
    BY <1>3, <2>1, PostIs
  <2> QED
    BY <1>2, <1>3, <1>4, <2>1, <2>2 DEF Counts
<1>6. CASE Exit
  <2>1. ~Posting' /\ cli'.pc = "idle"
    BY <1>2, <1>6 DEF Exit, Clients, Posting, Waiting
  <2> QED
    BY <1>4, <2>1 DEF Counts
<1>7. CASE ingest_batch
  <2> DEFINE b == iter_batches(S, cli.feed, cli.from)
  <2>1. cli.pc = "ingest" /\ ~Posting /\ cli.todo # <<>> /\ S \in Session
    BY <1>2, <1>7 DEF ingest_batch, Waiting
  <2>2. b.events \in Seq(Event) /\ Len(b.events) <= BatchSize /\ ToSet(b.events) \subseteq Present(S)
    BY <1>2, <2>1, BatchIs
  <2>3. cli'.pc # "ended"
    <3>1. ASSUME NextSession(1) PROVE cli'.pc = "session"
      BY <1>2, <3>1 DEF NextSession, Clients
    <3>2. ASSUME NEW x, NEW y, cli' = [cli EXCEPT !.feed = x, !.from = y] PROVE cli'.pc = "ingest"
      BY <1>2, <2>1, <3>2 DEF Clients
    <3>3. ASSUME cli' = [cli EXCEPT !.pc = "finalize"] PROVE cli'.pc = "finalize"
      BY <1>2, <3>3 DEF Clients
    <3> HIDE DEF b
    <3>4. \/ NextSession(1)
          \/ cli' = [cli EXCEPT !.feed = Position(Last(b.events)), !.from = Last(b.events).row]
          \/ cli' = [cli EXCEPT !.pc = "finalize"]
      BY <1>7 DEF ingest_batch, b
    <3> QED
      BY <3>1, <3>2, <3>3, <3>4
  <2>4. CASE UNCHANGED post
    BY <1>4, <2>1, <2>3, <2>4 DEF Counts, Posting
  <2>5. CASE b.events # <<>> /\ Post("ingest", b.events, 0)
    <3>1. PICK ev : ev = b.events
      OBVIOUS
    <3>2. ev \in Seq(Event) /\ Len(ev) <= BatchSize /\ ev # <<>> /\ Post("ingest", ev, 0)
      BY <2>2, <2>5, <3>1
    <3>3. post'.s = S /\ post'.events = ev
      BY <1>3, <2>1, <3>2, PostIs
    <3> QED
      BY <1>4, <2>1, <2>2, <2>3, <3>1, <3>3 DEF Counts
  <2> HIDE DEF b
  <2> QED
    BY <1>7, <2>4, <2>5 DEF ingest_batch, b
<1>8. CASE session_end
  <2>1. cli.pc = "finalize" /\ ~Posting /\ cli.todo # <<>> /\ S \in Session
    BY <1>2, <1>8 DEF session_end, Waiting
  <2>2. CASE UNCHANGED post /\ cli'.pc # "ended"
    BY <1>4, <2>1, <2>2 DEF Counts, Posting
  <2>3. CASE Post("end", <<>>, build_session_summary(S))
    <3>1. build_session_summary(S) \in Frames /\ build_session_summary(S) = rows[S][Diagnostic]
      BY <2>1, UploadAssumption DEF build_session_summary, Frames, Typed
    <3>2. post'.s = S /\ post'.events = <<>> /\ post'.frames = rows[S][Diagnostic]
      BY <1>3, <2>1, <2>3, <3>1, PostIs
    <3>3. Recorded'
      <4>1. ToSet(post'.events) = {}
        BY <1>3, <3>2
      <4> QED
        BY <1>4, <2>1, <3>2, <4>1
    <3>4. ASSUME NEW e \in Event, e.feed = Diagnostic,
                 e \in Readable(dir[S]) \/ \E req \in late : req.s = S /\ e \in ToSet(req.events)
          PROVE  e.row <= rows[S][Diagnostic]
      <4>1. e \in Present(S)
        BY <2>1, <3>4 DEF Recorded
      <4> QED
        BY <3>4, <4>1 DEF Present
    <3>5. Counts'
      BY <1>1, <3>2, <3>4 DEF Counts, Readable
    <3> QED
      BY <3>3, <3>5
  <2>4. ASSUME NEW failures \in {0, 1}, NextSession(failures) PROVE cli'.pc # "ended"
    <3>1. cli' = [cli EXCEPT !.pc = "session", !.todo = Tail(@), !.failures = @ + failures]
      BY <2>4 DEF NextSession
    <3>2. cli'.pc = "session"
      BY <1>2, <3>1 DEF Clients
    <3> QED
      BY <3>2
  <2> QED
    BY <1>8, <2>2, <2>3, <2>4 DEF session_end
<1> QED
  BY <1>5, <1>6, <1>7, <1>8 DEF Uploader

LEMMA RecordedEnding ==
  ASSUME Typed, Waiting, Recorded, Counts, Ending
  PROVE  Recorded' /\ Counts'
<1>1. /\ Posting /\ ProperRequest(post) /\ UNCHANGED <<rows, bad, runs, due>> /\ Answered
      /\ late' = late \/ late' = late \cup {[post EXCEPT !.attempt = 1]}
  BY EndingIs
<1>2. \A s \in Session : Present(s)' = Present(s)
  BY <1>1, PresentSame
<1>3. /\ post.s \in Session /\ ToSet(post.events) \subseteq Present(post.s)
      /\ post.kind # "ingest" => ToSet(post.events) = {}
  BY <1>1, RequestIs DEF Recorded
<1>4. \A s \in Session :
        Readable(dir'[s]) \subseteq Readable(dir[s]) \cup (IF s = post.s THEN ToSet(post.events) ELSE {})
  <2>1. CASE ServerDies
    BY <2>1, DiesDoes
  <2>2. CASE dir' = Store(dir, post)
    BY <1>1, <2>2, StoreDoes
  <2>3. CASE dir' = dir
    BY <2>3
  <2> QED
    BY <2>1, <2>2, <2>3, EndingIs
<1>5. \A req \in late' : req \in late \/ (req.s = post.s /\ req.events = post.events)
  BY <1>1, GivenUpIs
<1>6. /\ Posting' => post'.s = post.s /\ post'.events = post.events
      /\ cli'.pc = "ended" =>
           cli.pc = "ended" /\ post'.s = post.s /\ post'.frames = post.frames
  <2>1. CASE Again /\ UNCHANGED <<cli, acked>>
    BY <2>1 DEF Again
  <2>2. ASSUME NEW ok \in BOOLEAN, Returned(ok) PROVE ~Posting' /\ cli'.pc # "ended"
    BY <1>1, <2>2, ReturnedDoes DEF Waiting
  <2> QED
    BY <1>1, <2>1, <2>2 DEF Answered
<1>7. Recorded'
  <2>1. \A s \in Session : Readable(dir'[s]) \subseteq Present(s)
    BY <1>3, <1>4 DEF Recorded
  <2>2. \A req \in late' : ToSet(req.events) \subseteq Present(req.s) /\ req.s \in Session
    BY <1>3, <1>5, RequestIs DEF Recorded, Typed
  <2>3. Posting' => ToSet(post'.events) \subseteq Present(post'.s) /\ post'.s \in Session
    BY <1>3, <1>6
  <2> QED
    BY <1>2, <2>1, <2>2, <2>3 DEF Recorded, Readable
<1>8. Counts'
  <2>1. CASE cli'.pc # "ended"
    BY <2>1 DEF Counts
  <2>2. CASE cli'.pc = "ended"
    <3>1. /\ cli.pc = "ended" /\ post'.s = post.s /\ post'.frames = post.frames
          /\ ToSet(post.events) = {}
      BY <1>3, <1>6, <2>2 DEF Waiting
    <3>2. ASSUME NEW e \in Event, e.feed = Diagnostic,
                 e \in Readable(dir'[post.s]) \/ \E req \in late' : req.s = post.s /\ e \in ToSet(req.events)
          PROVE  e.row <= post.frames
      <4>1. e \in Readable(dir[post.s]) \/ \E req \in late : req.s = post.s /\ e \in ToSet(req.events)
        BY <1>3, <1>4, <1>5, <3>1, <3>2
      <4> QED
        BY <3>1, <3>2, <4>1 DEF Counts
    <3> QED
      BY <3>1, <3>2 DEF Counts, Readable
  <2> QED
    BY <2>1, <2>2
<1> QED
  BY <1>7, <1>8

LEMMA RecordedLate ==
  ASSUME Typed, Waiting, Recorded, Counts, Late
  PROVE  Recorded' /\ Counts'
<1>1. PICK req \in late : dir' = Store(dir, req) /\ late' = late \ {req}
  BY DEF Late
<1>2. /\ UNCHANGED <<rows, cli, post>> /\ ProperRequest(req) /\ req.s \in Session
      /\ \A s \in Session : Present(s)' = Present(s)
  BY <1>1, PresentSame, RequestIs DEF Late, Typed
<1>3. \A s \in Session :
        Readable(dir'[s]) \subseteq Readable(dir[s]) \cup (IF s = req.s THEN ToSet(req.events) ELSE {})
  BY <1>1, <1>2, StoreDoes
<1>4. Recorded'
  <2>1. \A s \in Session : Readable(dir'[s]) \subseteq Present(s)
    BY <1>2, <1>3 DEF Recorded
  <2>2. \A r \in late' : ToSet(r.events) \subseteq Present(r.s) /\ r.s \in Session
    BY <1>1, RequestIs DEF Recorded, Typed
  <2>3. Posting' => ToSet(post'.events) \subseteq Present(post'.s) /\ post'.s \in Session
    BY <1>2, RequestIs DEF Recorded, Typed, Posting
  <2> QED
    BY <1>2, <2>1, <2>2, <2>3 DEF Recorded, Readable
<1>5. Counts'
  <2>1. CASE cli.pc # "ended"
    BY <1>2, <2>1 DEF Counts
  <2>2. CASE cli.pc = "ended"
    <3>1. post.s \in Session
      BY <2>2, RequestIs DEF Waiting, Typed
    <3>2. ASSUME NEW e \in Event, e.feed = Diagnostic,
                 e \in Readable(dir'[post.s]) \/ \E r \in late' : r.s = post.s /\ e \in ToSet(r.events)
          PROVE  e.row <= post.frames
      <4>1. e \in Readable(dir[post.s]) \/ \E r \in late : r.s = post.s /\ e \in ToSet(r.events)
        BY <1>1, <1>3, <3>1, <3>2
      <4> QED
        BY <2>2, <3>2, <4>1 DEF Counts
    <3> QED
      BY <1>2, <3>2 DEF Counts, Readable
  <2> QED
    BY <2>1, <2>2
<1> QED
  BY <1>4, <1>5

LEMMA RecordedStep ==
  ASSUME Typed, Waiting, Recorded, Counts, [Next]_vars
  PROVE  Recorded' /\ Counts'
<1>1. CASE Invoke
  <2>1. /\ UNCHANGED <<rows, post, late, dir>> /\ ~Posting /\ ~Posting'
        /\ \A s \in Session : Present(s)' = Present(s)
    BY <1>1, PresentSame DEF Invoke, Waiting, Posting
  <2>2. cli'.pc = "session"
    BY <1>1 DEF Invoke, NotStarted
  <2>3. \A req \in late : req.s \in Session
    BY RequestIs DEF Typed
  <2> QED
    BY <2>1, <2>2, <2>3 DEF Recorded, Counts, Readable
<1>2. CASE Kill
  <2>1. /\ UNCHANGED <<rows, dir>> /\ ~Posting' /\ cli'.pc = "idle"
        /\ \A s \in Session : Present(s)' = Present(s)
        /\ late' = late \/ (Posting /\ late' = late \cup {[post EXCEPT !.attempt = 1]})
    BY <1>2, PresentSame DEF Kill, NotStarted, Posting
  <2>2. \A req \in late' : req \in late \/ (Posting /\ req.s = post.s /\ req.events = post.events)
    BY <2>1, GivenUpIs
  <2>3. \A req \in late' : ToSet(req.events) \subseteq Present(req.s) /\ req.s \in Session
    BY <2>2, RequestIs DEF Recorded, Typed
  <2> QED
    BY <2>1, <2>3 DEF Recorded, Counts, Readable
<1>3. CASE Record
  <2>1. /\ UNCHANGED <<cli, post, late, dir>> /\ \A s \in Session : Present(s) \subseteq Present(s)'
    BY <1>3, RecordDoes
  <2>2. \A req \in late : req.s \in Session
    BY RequestIs DEF Typed
  <2>3. Posting => post.s \in Session
    BY RequestIs DEF Typed
  <2> QED
    BY <2>1, <2>2, <2>3 DEF Recorded, Counts, Readable, Posting
<1>4. CASE UNCHANGED vars
  BY <1>4 DEF vars, Recorded, Counts, Readable, Posting, Present
<1> QED
  BY <1>1, <1>2, <1>3, <1>4, RecordedUploader, RecordedEnding, RecordedLate DEF Next, Ending

-----------------------------------------------------------------------------
(* What no failure means.                                                  *)

LEMMA CoveredInit ==
  ASSUME Init
  PROVE  Covered
BY DEF Init, NotStarted, Covered

LEMMA CompleteKept ==
  ASSUME NEW s \in Session, Complete(s), Keeps(dir[s], dir'[s]), cli'.mode = cli.mode,
         due'[s] = due[s], acked[s] \subseteq acked'[s]
  PROVE  Complete(s)'
BY DEF Complete, Keeps

LEMMA RestSame ==
  ASSUME UNCHANGED rows
  PROVE  \A s, f, from : Rest(s, f, from)' = Rest(s, f, from)
BY DEF Rest, Present

LEMMA CoveredUploader ==
  ASSUME Typed, Waiting, Covered, Uploader
  PROVE  Covered'
<1>1. /\ cli \in Clients /\ cli.todo \in Seq(Session) /\ cli.feed \in Nat /\ cli.from \in Nat
      /\ cli.failures \in Nat
      /\ cli.todo # <<>> => /\ S \in Session /\ S \in ToSet(cli.todo)
                           /\ ToSet(cli.todo) = {S} \cup ToSet(Tail(cli.todo))
  BY SetOfTail DEF Typed, Clients, S
<1>2. UNCHANGED <<rows, dir, acked>> /\ \A s, f, from : Rest(s, f, from)' = Rest(s, f, from)
  BY RestSame DEF Uploader, session_start, Exit, ingest_batch, session_end
<1>3. /\ <<>> \in Seq(Event) /\ Len(<<>>) <= BatchSize /\ 0 \in Frames /\ ToSet(<<>>) = {}
  BY UploadAssumption DEF Frames, ToSet
<1>4. ASSUME NextSession(1) PROVE Covered'
  <2>1. cli.failures + 1 \in Nat /\ cli.failures + 1 # 0
    BY <1>1
  <2>2. cli'.pc = "session" /\ cli'.failures = cli.failures + 1
    BY <1>1, <1>4 DEF NextSession, Clients
  <2> QED
    BY <2>1, <2>2 DEF Covered
<1>5. \A s \in Session : Keeps(dir[s], dir'[s])
  BY <1>2 DEF Keeps
<1>6. CASE session_start
  <2>1. /\ cli.pc = "session" /\ cli.todo # <<>>
        /\ cli' = [cli EXCEPT !.pc = "started", !.feed = 1, !.from = 0]
        /\ Post("start", <<>>, 0) /\ due' = [due EXCEPT ![S] = Present(S)]
    BY <1>6 DEF session_start
  <2>2. /\ cli'.pc = "started" /\ cli'.todo = cli.todo /\ cli'.failures = cli.failures
        /\ cli'.mode = cli.mode /\ cli'.feed = 1 /\ cli'.from = 0 /\ S' = S
    BY <1>1, <2>1 DEF Clients, S
  <2>3. due'[S] = Present(S) /\ \A s \in Session \ ToSet(cli.todo) : due'[s] = due[s]
    BY <1>1, <2>1 DEF Typed
  <2>4. Behind => Behind'
    <3>1. ASSUME NEW s \in Session \ ToSet(cli.todo), Complete(s) PROVE Complete(s)'
      BY <1>2, <1>5, <2>2, <2>3, <3>1, CompleteKept
    <3> QED
      BY <2>2, <3>1 DEF Behind
  <2>5. Present(S) \subseteq Rest(S, 1, 0)
    <3>1. ASSUME NEW e \in Event PROVE Position(e) > 1 \/ (Position(e) = 1 /\ e.row > 0)
      <4>1. Position(e) \in 1 .. Len(Feeds) /\ Position(e) \in Nat
        BY PositionIs
      <4>2. e.row \in 1 .. MaxRows[e.feed]
        BY EventsAre
      <4>3. Position(e) > 1 \/ Position(e) = 1
        BY <4>1
      <4>4. e.row > 0
        BY <4>2
      <4> QED
        BY <4>3, <4>4
    <3> QED
      BY <3>1 DEF Present, Rest
  <2>6. Ahead' = Rest(S, 1, 0)
    BY <1>2, <2>2 DEF Ahead
  <2>7. Through'
    BY <2>2, <2>3, <2>5, <2>6 DEF Through
  <2> QED
    BY <2>1, <2>2, <2>4, <2>7 DEF Covered, Begun
<1>7. CASE Exit
  <2>1. /\ cli.pc = "session" /\ cli.todo = <<>> /\ UNCHANGED due
        /\ cli' = [cli EXCEPT !.pc = "idle", !.code = IF cli.failures = 0 THEN 0 ELSE 1]
    BY <1>7 DEF Exit
  <2>2. cli'.pc = "idle" /\ cli'.mode = cli.mode /\ cli'.code = IF cli.failures = 0 THEN 0 ELSE 1
    BY <1>1, <2>1 DEF Clients
  <2>3. ASSUME cli.failures = 0, NEW s \in Session PROVE Complete(s)'
    <3>1. Complete(s)
      BY <1>3, <2>1, <2>3 DEF Covered, Behind
    <3> QED
      BY <1>2, <1>5, <2>1, <2>2, <3>1, CompleteKept
  <2> QED
    BY <2>2, <2>3 DEF Covered
<1>8. CASE ingest_batch
  <2> DEFINE b == iter_batches(S, cli.feed, cli.from)
  <2>1. cli.pc = "ingest" /\ ~Posting /\ due' = due /\ cli.todo # <<>> /\ S \in Session
    BY <1>1, <1>8 DEF ingest_batch, Waiting
  <2>2. /\ b.events \in Seq(Event) /\ Len(b.events) <= BatchSize
        /\ ~b.more => ToSet(b.events) = Rest(S, cli.feed, cli.from)
        /\ b.more => /\ b.events # <<>>
                     /\ Position(Last(b.events)) \in Nat /\ Last(b.events).row \in Nat
                     /\ Rest(S, cli.feed, cli.from) \subseteq
                          ToSet(b.events) \cup Rest(S, Position(Last(b.events)), Last(b.events).row)
    BY <1>1, <2>1, BatchIs
  <2>3. Through /\ cli.mode.ingest => due[S] \subseteq acked[S] \cup Rest(S, cli.feed, cli.from)
    BY <2>1 DEF Through, Sent, Ahead
  <2>4. CASE cli'.pc \in {"ingest", "finalize"} /\ cli'.todo = cli.todo
             /\ cli'.failures = cli.failures /\ cli'.mode = cli.mode
             /\ (cli.mode.ingest => Rest(S, cli.feed, cli.from) \subseteq Sent' \cup Ahead')
    <3>1. S' = S
      BY <2>4 DEF S
    <3>2. Behind => Behind'
      <4>1. ASSUME NEW s \in Session, Complete(s) PROVE Complete(s)'
        BY <1>2, <1>5, <2>1, <2>4, <4>1, CompleteKept
      <4> QED
        BY <2>4, <4>1 DEF Behind
    <3>3. Begun => Begun'
      BY <1>2, <2>1, <3>1 DEF Begun
    <3>4. Through => Through'
      BY <1>2, <2>1, <2>3, <2>4, <3>1 DEF Through
    <3> QED
      BY <2>1, <2>4, <3>2, <3>3, <3>4 DEF Covered
  <2>5. CASE /\ b.events # <<>> /\ Post("ingest", b.events, 0)
             /\ cli' = IF b.more
                       THEN [cli EXCEPT !.feed = Position(Last(b.events)), !.from = Last(b.events).row]
                       ELSE [cli EXCEPT !.pc = "finalize"]
    <3>1. PICK ev : ev = b.events
      OBVIOUS
    <3>2. ev \in Seq(Event) /\ Len(ev) <= BatchSize /\ ev # <<>> /\ Post("ingest", ev, 0)
      BY <2>2, <2>5, <3>1
    <3>3. Posting' /\ post'.events = ev
      BY <1>3, <2>1, <3>2, PostIs
    <3>4. CASE b.more
      <4>1. PICK x : x = Position(Last(b.events))
        OBVIOUS
      <4>2. PICK y : y = Last(b.events).row
        OBVIOUS
      <4>3. cli' = [cli EXCEPT !.feed = x, !.from = y]
        BY <2>5, <3>4, <4>1, <4>2
      <4>4. /\ cli'.pc = "ingest" /\ cli'.todo = cli.todo /\ cli'.failures = cli.failures
            /\ cli'.mode = cli.mode /\ cli'.feed = x /\ cli'.from = y /\ S' = S
        BY <1>1, <2>1, <4>3 DEF Clients, S
      <4>5. Ahead' = Rest(S, x, y) /\ (cli.mode.ingest => Sent' = ToSet(ev))
        BY <1>2, <3>3, <4>4 DEF Ahead, Sent
      <4>6. Rest(S, cli.feed, cli.from) \subseteq ToSet(ev) \cup Rest(S, x, y)
        BY <2>2, <3>1, <3>4, <4>1, <4>2
      <4> QED
        BY <2>4, <4>4, <4>5, <4>6
    <3>5. CASE ~b.more
      <4>1. /\ cli'.pc = "finalize" /\ cli'.todo = cli.todo /\ cli'.failures = cli.failures
            /\ cli'.mode = cli.mode
        BY <1>1, <2>1, <2>5, <3>5 DEF Clients
      <4>2. cli.mode.ingest => Sent' = ToSet(ev)
        BY <3>3, <4>1 DEF Sent
      <4>3. Rest(S, cli.feed, cli.from) = ToSet(ev)
        BY <2>2, <3>1, <3>5
      <4> QED
        BY <2>4, <4>1, <4>2, <4>3
    <3> QED
      BY <3>4, <3>5
  <2>6. CASE b.events = <<>> /\ cli' = [cli EXCEPT !.pc = "finalize"]
    <3>1. /\ cli'.pc = "finalize" /\ cli'.todo = cli.todo /\ cli'.failures = cli.failures
          /\ cli'.mode = cli.mode
      BY <1>1, <2>6 DEF Clients
    <3>2. ~b.more
      BY <2>2, <2>6
    <3>3. Rest(S, cli.feed, cli.from) = {}
      BY <1>3, <2>2, <2>6, <3>2
    <3> QED
      BY <2>4, <3>1, <3>3
  <2> HIDE DEF b
  <2> QED
    BY <1>4, <1>8, <2>5, <2>6 DEF ingest_batch, b
<1>9. CASE session_end
  <2>1. cli.pc = "finalize" /\ ~Posting /\ due' = due /\ cli.todo # <<>> /\ S \in Session
    BY <1>1, <1>9 DEF session_end, Waiting
  <2>2. Through /\ cli.mode.ingest => due[S] \subseteq acked[S]
    BY <2>1 DEF Through, Sent, Ahead
  <2>3. ASSUME cli'.mode = cli.mode, NEW s \in Session, Complete(s) PROVE Complete(s)'
    BY <1>2, <1>5, <2>1, <2>3, CompleteKept
  <2>4. CASE ~cli.mode.finalize /\ NextSession(0)
    <3>1. /\ cli'.pc = "session" /\ cli'.todo = Tail(cli.todo) /\ cli'.failures = cli.failures
          /\ cli'.mode = cli.mode
      BY <1>1, <2>4 DEF NextSession, Clients
    <3>2. Begun /\ Through => Complete(S)
      BY <2>1, <2>2, <2>4 DEF Begun, Complete
    <3>3. Behind /\ Begun /\ Through => Behind'
      BY <1>1, <2>1, <2>3, <3>1, <3>2 DEF Behind
    <3> QED
      BY <2>1, <3>1, <3>3 DEF Covered, Begun, Through
  <2>5. CASE cli' = [cli EXCEPT !.pc = "ended"]
    <3>1. /\ cli'.pc = "ended" /\ cli'.todo = cli.todo /\ cli'.failures = cli.failures
          /\ cli'.mode = cli.mode
      BY <1>1, <2>5 DEF Clients
    <3>2. S' = S
      BY <3>1 DEF S
    <3>3. Behind => Behind'
      BY <2>3, <3>1 DEF Behind
    <3>4. Begun => Begun'
      BY <1>2, <2>1, <3>2 DEF Begun
    <3>5. Through => Through'
      BY <1>2, <2>1, <2>2, <3>1, <3>2 DEF Through
    <3> QED
      BY <2>1, <3>1, <3>3, <3>4, <3>5 DEF Covered
  <2> QED
    BY <1>4, <1>9, <2>4, <2>5 DEF session_end
<1> QED
  BY <1>6, <1>7, <1>8, <1>9 DEF Uploader

LEMMA CoveredEnding ==
  ASSUME Typed, Waiting, Covered, Ending
  PROVE  Covered'
<1>1. /\ Posting /\ ProperRequest(post) /\ UNCHANGED <<rows, bad, runs, due>> /\ Answered
  BY EndingIs
<1>2. /\ cli \in Clients /\ cli.failures \in Nat /\ cli.todo # <<>> /\ post.s = S /\ S \in Session
      /\ cli.pc \in {"started", "ingest", "finalize", "ended"}
      /\ ToSet(cli.todo) = {S} \cup ToSet(Tail(cli.todo))
  BY <1>1, SetOfTail DEF Typed, Waiting, Clients, S
<1>3. \A s, f, from : Rest(s, f, from)' = Rest(s, f, from)
  BY <1>1, RestSame
<1>4. \A s \in Session : Keeps(dir[s], dir'[s])
  <2>1. CASE ServerDies
    BY <2>1, DiesDoes
  <2>2. CASE dir' = Store(dir, post)
    BY <1>1, <2>2, StoreDoes
  <2>3. CASE dir' = dir
    BY <2>3 DEF Keeps
  <2> QED
    BY <2>1, <2>2, <2>3, EndingIs
<1>5. CASE Again /\ UNCHANGED <<cli, acked>>
  <2>1. ASSUME NEW s \in Session, Complete(s) PROVE Complete(s)'
    BY <1>1, <1>4, <1>5, <2>1, CompleteKept
  <2>2. Behind => Behind'
    BY <1>5, <2>1 DEF Behind
  <2>3. S' = S
    BY <1>5 DEF S
  <2>4. Begun => Begun'
    BY <1>2, <1>4, <1>5, <2>3 DEF Begun, Keeps
  <2>5. Sent' = Sent /\ Ahead' = Ahead
    <3>1. Posting' /\ post'.events = post.events
      BY <1>5 DEF Again
    <3> QED
      BY <1>1, <1>3, <1>5, <2>3, <3>1 DEF Sent, Ahead
  <2>6. Through => Through'
    BY <1>1, <1>5, <2>3, <2>5 DEF Through
  <2> QED
    BY <1>2, <1>5, <2>2, <2>4, <2>6 DEF Covered
<1>6. CASE Returned(FALSE)
  <2>1. cli'.failures = cli.failures + 1 /\ cli'.pc # "idle"
    BY <1>1, <1>2, <1>6, ReturnedDoes
  <2>2. cli'.failures # 0
    BY <1>2, <2>1
  <2> QED
    BY <2>1, <2>2 DEF Covered
<1>7. CASE Returned(TRUE) /\ dir' = Store(dir, post)
  <2>1. /\ ~Posting'
        /\ cli'.mode = cli.mode /\ cli'.feed = cli.feed /\ cli'.from = cli.from
        /\ cli'.failures = cli.failures + 0
        /\ cli.pc = "started" => cli'.pc = (IF cli.mode.ingest THEN "ingest" ELSE "finalize")
        /\ cli.pc \in {"ingest", "finalize"} => cli'.pc = cli.pc
        /\ cli.pc = "ended" => cli'.pc = "session" /\ cli'.todo = Tail(cli.todo)
        /\ cli.pc # "ended" => cli'.todo = cli.todo
        /\ \A s \in Session : acked'[s] = IF post.kind = "ingest" /\ s = post.s
                                         THEN acked[s] \cup ToSet(post.events) ELSE acked[s]
    BY <1>1, <1>7, ReturnedDoes
  <2>2. cli'.failures = cli.failures
    BY <1>2, <2>1
  <2>3. Marks(post, dir'[S])
    BY <1>1, <1>2, <1>7, StoreDoes
  <2>4. ASSUME NEW s \in Session, Complete(s) PROVE Complete(s)'
    BY <1>1, <1>4, <2>1, <2>4, CompleteKept
  <2>5. CASE cli.pc = "started"
    <3>1. cli'.todo = cli.todo /\ S' = S /\ cli'.pc = (IF cli.mode.ingest THEN "ingest" ELSE "finalize")
      BY <2>1, <2>5 DEF S
    <3>2. Behind => Behind'
      BY <2>4, <3>1 DEF Behind
    <3>3. Begun'
      BY <2>3, <2>5, <3>1 DEF Begun, Marks, Waiting
    <3>4. Through => Through'
      <4>1. ASSUME cli.mode.ingest PROVE Sent = {} /\ Ahead = Rest(S, cli.feed, cli.from) /\ Ahead' = Ahead
        BY <1>3, <2>1, <2>5, <3>1, <4>1 DEF Sent, Ahead
      <4>2. acked[S] \subseteq acked'[S]
        BY <1>2, <2>1
      <4> QED
        BY <1>1, <2>1, <2>5, <3>1, <4>1, <4>2 DEF Through
    <3> QED
      BY <2>2, <2>5, <3>1, <3>2, <3>3, <3>4 DEF Covered
  <2>6. CASE cli.pc \in {"ingest", "finalize"}
    <3>1. cli'.todo = cli.todo /\ S' = S /\ cli'.pc = cli.pc /\ post.kind = "ingest"
      BY <1>1, <2>1, <2>6 DEF S, Waiting
    <3>2. Behind => Behind'
      BY <2>4, <3>1 DEF Behind
    <3>3. Begun => Begun'
      BY <1>2, <1>4, <3>1 DEF Begun, Keeps
    <3>4. Through => Through'
      <4>1. ASSUME cli.mode.ingest PROVE Sent = ToSet(post.events) /\ Ahead' = Ahead
        BY <1>1, <1>3, <2>1, <2>6, <3>1, <4>1 DEF Sent, Ahead
      <4>2. acked'[S] = acked[S] \cup ToSet(post.events)
        BY <1>2, <2>1, <3>1
      <4> QED
        BY <1>1, <2>1, <2>6, <3>1, <4>1, <4>2 DEF Through
    <3> QED
      BY <2>2, <2>6, <3>1, <3>2, <3>3, <3>4 DEF Covered
  <2>7. CASE cli.pc = "ended"
    <3>1. cli'.pc = "session" /\ cli'.todo = Tail(cli.todo)
      BY <2>1, <2>7
    <3>a. PICK u : u = S
      OBVIOUS
    <3>2. ASSUME Begun, Through PROVE Complete(u)'
      <4>1. dir[u].metadata # Absent /\ dir'[u].metadata # Absent
        BY <1>2, <1>4, <2>7, <3>2, <3>a DEF Begun, Keeps
      <4>2. cli.mode.ingest => due[u] \subseteq acked[u]
        BY <2>7, <3>2, <3>a DEF Through, Sent, Ahead
      <4>3. dir'[u].summary # Absent
        BY <2>3, <2>7, <3>a DEF Marks, Waiting
      <4>4. acked[u] \subseteq acked'[u]
        BY <1>2, <2>1, <3>a
      <4> QED
        BY <1>1, <2>1, <4>1, <4>2, <4>3, <4>4 DEF Complete
    <3>3. Behind /\ Begun /\ Through => Behind'
      <4>1. ASSUME Behind, Begun, Through, NEW s \in Session, s \notin ToSet(cli'.todo) PROVE Complete(s)'
        <5>1. CASE s = S
          BY <3>2, <3>a, <4>1, <5>1
        <5>2. CASE s # S
          BY <1>2, <2>4, <3>1, <4>1, <5>2 DEF Behind
        <5> QED
          BY <5>1, <5>2
      <4> QED
        BY <4>1 DEF Behind
    <3> QED
      BY <2>2, <2>7, <3>1, <3>3 DEF Covered, Begun, Through
  <2> QED
    BY <1>2, <2>5, <2>6, <2>7
<1> QED
  BY <1>1, <1>5, <1>6, <1>7 DEF Answered

LEMMA CoveredStep ==
  ASSUME Typed, Waiting, Covered, [Next]_vars
  PROVE  Covered'
<1>1. CASE Invoke
  <2>1. cli'.pc = "session" /\ cli'.todo = SetToSeq(Session)
    BY <1>1 DEF Invoke, NotStarted
  <2>2. Session \ ToSet(cli'.todo) = {}
    BY <2>1, SessionsListed
  <2> QED
    BY <2>1, <2>2 DEF Covered, Behind, Begun, Through
<1>2. CASE Kill
  BY <1>2 DEF Kill, NotStarted, Covered
<1>3. CASE Late
  <2>1. PICK req \in late : dir' = Store(dir, req)
    BY <1>3 DEF Late
  <2>2. /\ UNCHANGED <<rows, cli, post, due, acked>> /\ ProperRequest(req)
        /\ S' = S /\ (cli.pc \in {"ingest", "finalize", "ended"} => S \in Session)
    <3>1. cli.todo # <<>> => S \in Session
      BY SetOfTail DEF Typed, Clients, S
    <3> QED
      BY <1>3, <3>1 DEF Typed, Late, S, Waiting
  <2>3. \A s \in Session : Keeps(dir[s], dir'[s])
    BY <2>1, <2>2, StoreDoes
  <2>4. ASSUME NEW s \in Session, Complete(s) PROVE Complete(s)'
    BY <2>2, <2>3, <2>4, CompleteKept
  <2>5. Behind => Behind'
    BY <2>2, <2>4 DEF Behind
  <2>6. Begun => Begun'
    BY <2>2, <2>3 DEF Begun, Keeps
  <2>7. Sent' = Sent /\ Ahead' = Ahead
    BY <2>2, RestSame DEF Sent, Ahead, Posting
  <2>8. Through => Through'
    BY <2>2, <2>7 DEF Through
  <2> QED
    BY <2>2, <2>4, <2>5, <2>6, <2>8 DEF Covered
<1>4. CASE Record
  <2>1. /\ UNCHANGED <<bad, cli, post, late, dir, runs, faults, tears, due, acked>>
        /\ \A s \in Session : Present(s) \subseteq Present(s)'
    BY <1>4, RecordDoes
  <2>2. S' = S /\ (cli.todo # <<>> => S \in Session)
    BY <2>1, SetOfTail DEF Typed, Clients, S
  <2>3. \A s \in Session : Complete(s)' <=> Complete(s)
    BY <2>1 DEF Complete
  <2>4. Sent' = Sent
    BY <2>1 DEF Sent, Posting
  <2>5. cli.todo # <<>> => Ahead \subseteq Ahead'
    BY <2>1, <2>2 DEF Ahead, Rest
  <2>6. Through => Through'
    BY <2>1, <2>2, <2>4, <2>5 DEF Through, Waiting
  <2> QED
    BY <2>1, <2>2, <2>3, <2>6 DEF Covered, Behind, Begun
<1>5. CASE UNCHANGED vars
  <2>1. S' = S /\ Sent' = Sent /\ Ahead' = Ahead
    BY <1>5, RestSame DEF vars, S, Sent, Ahead, Posting
  <2>2. \A s \in Session : Complete(s)' <=> Complete(s)
    BY <1>5 DEF vars, Complete
  <2> QED
    BY <1>5, <2>1, <2>2 DEF vars, Covered, Behind, Begun, Through
<1> QED
  BY <1>1, <1>2, <1>3, <1>4, <1>5, CoveredUploader, CoveredEnding DEF Next, Ending

-----------------------------------------------------------------------------
(* The theorems.                                                           *)

THEOREM UploadInvariance == Spec => []UploadInv
<1>1. Init => UploadInv
  BY TypedInit, PaidInit, RecordedInit, CoveredInit DEF UploadInv
<1>2. UploadInv /\ [Next]_vars => UploadInv'
  BY TypedStep, PaidStep, RecordedStep, CoveredStep DEF UploadInv
<1> QED
  BY <1>1, <1>2, PTL DEF Spec

\* Type correctness of the uploader, its requests and the directories.
THEOREM UploadTyped == Spec => []TypeOK
<1>1. UploadInv => TypeOK
  <2> SUFFICES ASSUME Typed, Waiting PROVE TypeOK
    BY DEF UploadInv
  <2>1. \A s \in Session : Present(s) \subseteq Event
    BY DEF Present
  <2>2. cli.pc \in Pcs /\ cli.code \in {0, 1}
    BY DEF Typed, Clients
  <2>3. Posting => post \in Request /\ Len(post.events) <= BatchSize
    BY DEF Typed, ProperRequest
  <2>4. late \subseteq Request
    BY DEF Typed, ProperRequest
  <2>5. \A s \in Session : /\ dir[s].lines \in Seq(Event \cup {Garbage})
                           /\ dir[s].summary \in {Absent} \cup 0 .. MaxRows[Diagnostic]
                           /\ dir[s].metadata \in {Absent, "metadata"}
    BY DEF Typed, Dirs, Line, Frames
  <2>6. tears \in [Session -> 0 .. MaxFaults]
    <3>1. /\ tears \in [Session -> Nat] /\ faults \in 0 .. MaxFaults /\ MaxFaults \in Nat
          /\ \A s \in Session : tears[s] <= faults
      BY UploadAssumption DEF Typed
    <3>2. \A s \in Session : tears[s] \in 0 .. MaxFaults
      BY <3>1
    <3> QED
      BY <3>1, <3>2
  <2> QED
    BY <2>1, <2>2, <2>3, <2>4, <2>5, <2>6 DEF TypeOK, Typed, Pcs
<1> QED
  BY <1>1, UploadInvariance, PTL

\* An event of a batch that was acknowledged can be read back, but for one for
\* each death of the server in the middle of a batch.
THEOREM AcknowledgedIsThere == Spec => []AckedReadable
<1>1. UploadInv => AckedReadable
  <2> SUFFICES ASSUME Typed, Paid, NEW s \in Session
               PROVE  Cardinality(acked[s] \ Readable(dir[s])) <= tears[s]
    BY DEF UploadInv, AckedReadable
  <2> DEFINE X == acked[s] \ Solid(dir[s])
             Y == acked[s] \ Readable(dir[s])
  <2>1. Sane(dir[s]) /\ acked[s] \subseteq Event /\ tears[s] \in Nat
    BY DEF Typed
  <2>2. Y \in SUBSET X /\ X \in SUBSET Event
    BY <2>1, SolidIsReadable
  <2>3. Cardinality(X) + (IF dir[s].open THEN 1 ELSE 0) <= tears[s]
    BY DEF Paid
  <2> HIDE DEF X, Y
  <2>4. IsFiniteSet(X) /\ Cardinality(X) \in Nat /\ Cardinality(Y) \in Nat /\ Cardinality(Y) <= Cardinality(X)
    BY <2>2, EventsFinite, FS_Subset, FS_CardinalityType
  <2>5. Cardinality(Y) <= tears[s]
    BY <2>1, <2>3, <2>4
  <2> QED
    BY <2>5 DEF Y
<1> QED
  BY <1>1, UploadInvariance, PTL

\* Exit code 0 means the cloud has the metadata, the events that were due and
\* the summary of every session.
THEOREM ExitZeroIsTrue == Spec => []ExitZeroIsComplete
<1>1. UploadInv => ExitZeroIsComplete
  BY DEF UploadInv, Covered, ExitZeroIsComplete
<1> QED
  BY <1>1, UploadInvariance, PTL

\* A summary that is acknowledged counts all that is stored, from whichever run.
THEOREM SummariesCover == Spec => SummaryCoversEvents
<1>1. ASSUME UploadInv, Next, cli.pc = "ended", cli'.pc = "session", cli'.failures = cli.failures
      PROVE  \A e \in Readable(dir[post.s]) : e.feed = Diagnostic => e.row <= dir'[post.s].summary
  <2>1. Typed /\ Waiting /\ Counts /\ Recorded /\ cli \in Clients /\ cli.failures \in Nat
        /\ Posting /\ post.kind = "end" /\ ProperRequest(post) /\ post.s \in Session
    BY <1>1, RequestIs DEF UploadInv, Typed, Waiting, Clients
  <2>2. ~Invoke /\ ~Uploader /\ ~Kill /\ ~(Late \/ Record)
    BY <1>1 DEF Invoke, Uploader, session_start, Exit, ingest_batch, session_end, Kill, NotStarted,
                Late, Record
  <2>3. Ending
    BY <1>1, <2>2 DEF Next, Ending
  <2>4. Answered
    BY <2>1, <2>3, EndingIs
  <2>5. ASSUME Returned(FALSE) PROVE FALSE
    <3>1. cli'.failures = cli.failures + 1
      BY <2>1, <2>5, ReturnedDoes
    <3> QED
      BY <1>1, <2>1, <3>1
  <2>6. dir' = Store(dir, post)
    BY <1>1, <2>4, <2>5 DEF Answered
  <2>7. dir'[post.s].summary = post.frames
    BY <2>1, <2>6, StoreDoes DEF Marks
  <2>8. \A e \in Readable(dir[post.s]) : e \in Event
    BY <2>1 DEF Recorded, Present
  <2> QED
    BY <1>1, <2>1, <2>7, <2>8 DEF Counts
<1>2. UploadInv /\ [Next]_vars =>
        [cli.pc = "ended" /\ cli'.pc = "session" /\ cli'.failures = cli.failures
           => \A e \in Readable(dir[post.s]) : e.feed = Diagnostic => e.row <= dir'[post.s].summary]_vars
  BY <1>1
<1> QED
  BY <1>2, UploadInvariance, PTL DEF Spec, SummaryCoversEvents

-----------------------------------------------------------------------------
(* Copies of an event.                                                     *)

Count(ls, e) == Cardinality({i \in DOMAIN ls : ls[i] = e})

LEMMA CountIs ==
  ASSUME NEW T, NEW ls \in Seq(T), NEW e
  PROVE  IsFiniteSet({i \in DOMAIN ls : ls[i] = e}) /\ Count(ls, e) \in Nat
<1>1. Len(ls) \in Nat /\ DOMAIN ls = 1 .. Len(ls)
  OBVIOUS
<1>2. IsFiniteSet(1 .. Len(ls))
  BY <1>1, FS_Interval
<1>3. {i \in DOMAIN ls : ls[i] = e} \in SUBSET (1 .. Len(ls))
  BY <1>1
<1> QED
  BY <1>2, <1>3, FS_Subset, FS_CardinalityType DEF Count

LEMMA CountConcat ==
  ASSUME NEW T, NEW s \in Seq(T), NEW t \in Seq(T), NEW e
  PROVE  Count(s \o t, e) <= Count(s, e) + Count(t, e)
<1> DEFINE n == Len(s)
           A == {i \in DOMAIN s : s[i] = e}
           B == {i \in DOMAIN t : t[i] = e}
           C == {i \in DOMAIN (s \o t) : (s \o t)[i] = e}
           D == {n + i : i \in B}
           h == [i \in B |-> n + i]
<1>1. /\ s \o t \in Seq(T) /\ n \in Nat /\ Len(t) \in Nat
      /\ DOMAIN s = 1 .. n /\ DOMAIN t = 1 .. Len(t)
      /\ DOMAIN (s \o t) = 1 .. (n + Len(t))
      /\ \A i \in 1 .. n : (s \o t)[i] = s[i]
      /\ \A i \in 1 .. Len(t) : (s \o t)[n + i] = t[i]
  OBVIOUS
<1>2. IsFiniteSet(A) /\ IsFiniteSet(B) /\ IsFiniteSet(C)
  BY <1>1, CountIs
<1>3. C \in SUBSET (A \cup D)
  <2>1. ASSUME NEW i \in C, i > n PROVE i \in D
    <3>1. i - n \in 1 .. Len(t) /\ n + (i - n) = i
      BY <1>1, <2>1
    <3>2. t[i - n] = e
      BY <1>1, <3>1
    <3> QED
      BY <1>1, <3>1, <3>2
  <2>2. ASSUME NEW i \in C, ~(i > n) PROVE i \in A
    BY <1>1, <2>2
  <2> QED
    BY <2>1, <2>2
<1>4. h \in Surjection(B, D)
  <2>1. h \in [B -> D]
    OBVIOUS
  <2>2. \A d \in D : \E i \in B : h[i] = d
    OBVIOUS
  <2> QED
    BY <2>1, <2>2 DEF Surjection
<1> HIDE DEF A, B, C, D, h
<1>5. IsFiniteSet(D) /\ Cardinality(D) <= Cardinality(B)
  BY <1>2, <1>4, FS_Surjection
<1>6. /\ IsFiniteSet(A \cup D)
      /\ Cardinality(A \cup D) = Cardinality(A) + Cardinality(D) - Cardinality(A \cap D)
      /\ Cardinality(A \cap D) \in Nat
  BY <1>2, <1>5, FS_Union, FS_Intersection, FS_CardinalityType
<1>7. Cardinality(C) <= Cardinality(A \cup D)
  BY <1>3, <1>6, FS_Subset
<1>8. /\ Cardinality(A) \in Nat /\ Cardinality(B) \in Nat /\ Cardinality(C) \in Nat
      /\ Cardinality(D) \in Nat
  BY <1>2, <1>5, FS_CardinalityType
<1>9. Cardinality(C) <= Cardinality(A) + Cardinality(B)
  BY <1>5, <1>6, <1>7, <1>8
<1> QED
  BY <1>9 DEF Count, A, B, C

LEMMA CountPrefix ==
  ASSUME NEW T, NEW s \in Seq(T), NEW n \in 0 .. Len(s), NEW e
  PROVE  Count(SubSeq(s, 1, n), e) <= Count(s, e)
<1>1. /\ Len(s) \in Nat /\ DOMAIN s = 1 .. Len(s) /\ DOMAIN SubSeq(s, 1, n) = 1 .. n
      /\ \A i \in 1 .. n : SubSeq(s, 1, n)[i] = s[i]
  OBVIOUS
<1> DEFINE A == {i \in DOMAIN s : s[i] = e}
           B == {i \in DOMAIN SubSeq(s, 1, n) : SubSeq(s, 1, n)[i] = e}
<1>2. B \in SUBSET A
  BY <1>1
<1>3. IsFiniteSet(A)
  BY CountIs
<1> HIDE DEF A, B
<1>4. Cardinality(B) <= Cardinality(A)
  BY <1>2, <1>3, FS_Subset
<1> QED
  BY <1>4 DEF Count, A, B

LEMMA CountTail ==
  ASSUME NEW T, NEW s \in Seq(T), s # <<>>, NEW e
  PROVE  Count(Tail(s), e) <= Count(s, e)
<1> DEFINE A == {i \in DOMAIN s : s[i] = e}
           B == {i \in A : i # 1}
           C == {i \in DOMAIN Tail(s) : Tail(s)[i] = e}
           h == [i \in B |-> i - 1]
<1>1. /\ Len(s) \in Nat /\ Len(s) > 0 /\ DOMAIN s = 1 .. Len(s)
      /\ DOMAIN Tail(s) = 1 .. (Len(s) - 1)
      /\ \A i \in 1 .. (Len(s) - 1) : Tail(s)[i] = s[i + 1]
  OBVIOUS
<1>2. IsFiniteSet(A) /\ B \in SUBSET A
  BY CountIs
<1>3. h \in Surjection(B, C)
  <2>1. h \in [B -> C]
    <3>1. ASSUME NEW i \in B PROVE i - 1 \in C
      <4>1. i - 1 \in 1 .. (Len(s) - 1) /\ (i - 1) + 1 = i
        BY <1>1
      <4>2. Tail(s)[i - 1] = s[i]
        BY <1>1, <4>1
      <4> QED
        BY <1>1, <4>1, <4>2
    <3> QED
      BY <3>1
  <2>2. ASSUME NEW j \in C PROVE \E i \in B : h[i] = j
    <3>1. j \in 1 .. (Len(s) - 1) /\ s[j + 1] = e
      BY <1>1
    <3>2. j + 1 \in 1 .. Len(s) /\ j + 1 # 1 /\ (j + 1) - 1 = j
      BY <1>1, <3>1
    <3>3. j + 1 \in B
      BY <1>1, <3>1, <3>2
    <3> QED
      BY <3>2, <3>3
  <2> HIDE DEF h, B, C
  <2> QED
    BY <2>1, <2>2 DEF Surjection
<1> HIDE DEF A, B, C, h
<1>4. IsFiniteSet(B) /\ Cardinality(B) <= Cardinality(A)
  BY <1>2, FS_Subset
<1>5. IsFiniteSet(C) /\ Cardinality(C) <= Cardinality(B)
  BY <1>3, <1>4, FS_Surjection
<1>6. Cardinality(A) \in Nat /\ Cardinality(B) \in Nat /\ Cardinality(C) \in Nat
  BY <1>2, <1>4, <1>5, FS_CardinalityType
<1>7. Cardinality(C) <= Cardinality(A)
  BY <1>4, <1>5, <1>6
<1> QED
  BY <1>7 DEF Count, A, C

\* In a batch an event is there once at most.
LEMMA CountOnce ==
  ASSUME NEW T, NEW s \in Seq(T), IsInjective(s), NEW e
  PROVE  Count(s, e) <= (IF e \in ToSet(s) THEN 1 ELSE 0)
<1> DEFINE A == {i \in DOMAIN s : s[i] = e}
<1>1. CASE e \in ToSet(s)
  <2>1. PICK i \in DOMAIN s : s[i] = e
    BY <1>1 DEF ToSet
  <2>2. A = {i}
    BY <2>1 DEF IsInjective
  <2> HIDE DEF A
  <2>3. Cardinality(A) = 1
    BY <2>2, FS_Singleton
  <2> QED
    BY <1>1, <2>3 DEF Count, A
<1>2. CASE e \notin ToSet(s)
  <2>1. A = {}
    BY <1>2 DEF ToSet
  <2> HIDE DEF A
  <2>2. Cardinality(A) = 0
    BY <2>1, FS_EmptySet
  <2> QED
    BY <1>2, <2>2 DEF Count, A
<1> QED
  BY <1>1, <1>2

LEMMA CountOne ==
  ASSUME NEW T, NEW x \in T, NEW e
  PROVE  Count(<<x>>, e) <= (IF e = x THEN 1 ELSE 0)
<1>1. PICK s : s = <<x>>
  OBVIOUS
<1>2. s \in Seq(T) /\ ToSet(s) = {x}
  BY <1>1, SetOfOne
<1>3. IsInjective(s)
  BY <1>1 DEF IsInjective
<1>4. Count(s, e) <= (IF e \in ToSet(s) THEN 1 ELSE 0)
  BY <1>2, <1>3, CountOnce
<1> QED
  BY <1>1, <1>2, <1>4

\* An append adds the copies it brings, and no more.
LEMMA AppendCopies ==
  ASSUME NEW d, Sane(d), NEW new \in Seq(Line), NEW e \in Event
  PROVE  Count(AppendLines(d, new).lines, e) <= Count(d.lines, e) + Count(new, e)
<1>1. /\ d \in Dirs /\ d.lines \in Seq(Line) /\ d.open \in BOOLEAN
      /\ d.open => d.lines # <<>>
  BY DEF Sane, Dirs
<1>2. Count(d.lines, e) \in Nat /\ Count(new, e) \in Nat
  BY <1>1, CountIs
<1>3. CASE new = <<>>
  <2>1. AppendLines(d, new) = d
    BY <1>3 DEF AppendLines
  <2> QED
    BY <1>2, <2>1
<1>4. CASE new # <<>> /\ d.open
  <2>1. PICK front : front = Front(d.lines)
    OBVIOUS
  <2>2. PICK g : g = <<Garbage>>
    OBVIOUS
  <2>3. PICK tl : tl = Tail(new)
    OBVIOUS
  <2>4. PICK fg : fg = front \o g
    OBVIOUS
  <2>5. AppendLines(d, new).lines = fg \o tl
    BY <1>1, <1>4, <2>1, <2>2, <2>3, <2>4 DEF AppendLines, Dirs
  <2>6. front \in Seq(Line) /\ g \in Seq(Line) /\ tl \in Seq(Line) /\ fg \in Seq(Line)
    <3>1. front \in Seq(Line) /\ tl \in Seq(Line)
      BY <1>1, <1>4, <2>1, <2>3, SetOfFront, SetOfTail
    <3>2. g \in Seq(Line)
      BY <2>2, SetOfOne DEF Line
    <3> QED
      BY <2>4, <3>1, <3>2, SetOfConcat
  <2>7. /\ Count(fg \o tl, e) <= Count(fg, e) + Count(tl, e)
        /\ Count(fg, e) <= Count(front, e) + Count(g, e)
    BY <2>4, <2>6, CountConcat
  <2>8. Count(front, e) <= Count(d.lines, e)
    <3>1. Len(d.lines) - 1 \in 0 .. Len(d.lines)
      BY <1>1, <1>4
    <3> QED
      BY <1>1, <2>1, <3>1, CountPrefix DEF Front
  <2>9. Count(tl, e) <= Count(new, e)
    BY <1>4, <2>3, CountTail
  <2>10. Count(g, e) <= 0
    <3>1. Garbage \in Line /\ e # Garbage
      BY UploadAssumption DEF Line
    <3>2. Count(<<Garbage>>, e) <= (IF e = Garbage THEN 1 ELSE 0)
      BY <3>1, CountOne
    <3> QED
      BY <2>2, <3>1, <3>2
  <2>11. /\ Count(fg \o tl, e) \in Nat /\ Count(fg, e) \in Nat /\ Count(tl, e) \in Nat
         /\ Count(front, e) \in Nat /\ Count(g, e) \in Nat
    <3>1. fg \o tl \in Seq(Line)
      BY <2>6, SetOfConcat
    <3> QED
      BY <2>6, <3>1, CountIs
  <2>12. Count(fg \o tl, e) <= Count(d.lines, e) + Count(new, e)
    BY <1>2, <2>7, <2>8, <2>9, <2>10, <2>11
  <2> QED
    BY <2>5, <2>12
<1>5. CASE new # <<>> /\ ~d.open
  <2>1. AppendLines(d, new).lines = d.lines \o new
    BY <1>1, <1>5 DEF AppendLines, Dirs
  <2> QED
    BY <1>1, <2>1, CountConcat
<1> QED
  BY <1>3, <1>4, <1>5

LEMMA TornCopies ==
  ASSUME NEW d, Sane(d), NEW new \in Seq(Event), IsInjective(new), NEW n \in 0 .. Len(new) - 1,
         NEW remnant \in Remnants, NEW e \in Event
  PROVE  Count(TornAppend(d, new, n, remnant).lines, e)
           <= Count(d.lines, e) + (IF e \in ToSet(new) THEN 1 ELSE 0)
<1> DEFINE part == SubSeq(new, 1, n)
           w == AppendLines(d, part)
           rest == IF remnant = "part" THEN Garbage ELSE new[n + 1]
           v == AppendLines(w, <<rest>>)
<1>1. /\ Len(new) \in Nat /\ DOMAIN new = 1 .. Len(new) /\ n \in 0 .. Len(new) /\ n + 1 \in 1 .. Len(new)
      /\ \A i \in 1 .. n : i \in 1 .. Len(new) /\ i # n + 1
  OBVIOUS
<1>2. /\ part \in Seq(Line) /\ part \in Seq(Event) /\ DOMAIN part = 1 .. n
      /\ \A i \in 1 .. n : part[i] = new[i]
  <2>1. part \in Seq(Event) /\ DOMAIN part = 1 .. n /\ \A i \in 1 .. n : part[i] = new[i]
    BY <1>1, SetOfPrefix
  <2> QED
    BY <2>1 DEF Line
<1> HIDE DEF part
<1>3. IsInjective(part) /\ ToSet(part) \subseteq ToSet(new) /\ new[n + 1] \notin ToSet(part)
  BY <1>1, <1>2 DEF IsInjective, ToSet
<1>4. Sane(w)
  BY <1>2, AppendKeeps
<1>5. Count(w.lines, e) <= Count(d.lines, e) + Count(part, e)
  BY <1>2, AppendCopies
<1>6. Count(part, e) <= (IF e \in ToSet(part) THEN 1 ELSE 0)
  BY <1>2, <1>3, CountOnce
<1>7. /\ rest \in Line /\ e # Garbage
      /\ (e = rest => e \in ToSet(new) /\ e \notin ToSet(part))
  <2>1. new[n + 1] \in Event /\ new[n + 1] \in ToSet(new)
    BY <1>1, SetOfSeq
  <2> QED
    BY <1>3, <2>1, UploadAssumption DEF Line
<1> HIDE DEF rest
<1>8. <<rest>> \in Seq(Line)
  BY <1>7, SetOfOne
<1>9. Count(v.lines, e) <= Count(w.lines, e) + Count(<<rest>>, e)
  BY <1>4, <1>8, AppendCopies
<1>10. Count(<<rest>>, e) <= (IF e = rest THEN 1 ELSE 0)
  BY <1>7, CountOne
<1>11. Sane(v)
  BY <1>4, <1>8, AppendKeeps
<1>12. /\ Count(d.lines, e) \in Nat /\ Count(w.lines, e) \in Nat /\ Count(v.lines, e) \in Nat
       /\ Count(part, e) \in Nat /\ Count(<<rest>>, e) \in Nat
  BY <1>2, <1>4, <1>8, <1>11, CountIs DEF Sane, Dirs
<1>13. TornAppend(d, new, n, remnant).lines = IF remnant = "nothing" THEN w.lines ELSE v.lines
  <2>1. v \in Dirs
    BY <1>11 DEF Sane
  <2>2. [v EXCEPT !.open = TRUE].lines = v.lines
    BY <2>1 DEF Dirs
  <2> QED
    BY <2>2 DEF TornAppend, v, w, part, rest
<1> HIDE DEF v, w
<1>14. /\ Count(w.lines, e) <= Count(d.lines, e) + (IF e \in ToSet(new) THEN 1 ELSE 0)
       /\ Count(v.lines, e) <= Count(d.lines, e) + (IF e \in ToSet(new) THEN 1 ELSE 0)
  BY <1>3, <1>5, <1>6, <1>7, <1>9, <1>10, <1>12
<1> QED
  BY <1>13, <1>14

LEMMA StoredCopies ==
  ASSUME NEW d, Sane(d), NEW req, ProperRequest(req), IsInjective(req.events), NEW e \in Event
  PROVE  Count(Stored(d, req).lines, e)
           <= Count(d.lines, e) + (IF e \in ToSet(req.events) THEN 1 ELSE 0)
<1>1. /\ req.kind \in {"start", "ingest", "end"} /\ req.events \in Seq(Line) /\ req.events \in Seq(Event)
      /\ req.frames \in Frames
  BY RequestIs
<1>2. d \in Dirs /\ d.lines \in Seq(Line) /\ Count(d.lines, e) \in Nat
  BY CountIs DEF Sane, Dirs
<1>3. CASE req.kind = "start"
  <2>1. Stored(d, req) = [d EXCEPT !.metadata = "metadata"]
    BY <1>3 DEF Stored, record_session_start
  <2>2. Stored(d, req).lines = d.lines
    BY <1>2, <2>1 DEF Dirs
  <2> QED
    BY <1>2, <2>2
<1>4. CASE req.kind = "end"
  <2>1. Stored(d, req) = [d EXCEPT !.summary = req.frames]
    BY <1>4 DEF Stored, record_session_end
  <2>2. Stored(d, req).lines = d.lines
    BY <1>2, <2>1 DEF Dirs
  <2> QED
    BY <1>2, <2>2
<1>5. CASE req.kind = "ingest"
  <2>1. Stored(d, req) = AppendLines(d, req.events)
    BY <1>5 DEF Stored, append_events
  <2>2. Count(Stored(d, req).lines, e) <= Count(d.lines, e) + Count(req.events, e)
    BY <1>1, <2>1, AppendCopies
  <2>3. Count(req.events, e) <= (IF e \in ToSet(req.events) THEN 1 ELSE 0) /\ Count(req.events, e) \in Nat
    BY <1>1, CountOnce, CountIs
  <2>4. Count(Stored(d, req).lines, e) \in Nat
    <3>1. Sane(Stored(d, req))
      BY StoredKeeps
    <3> QED
      BY <3>1, CountIs DEF Sane, Dirs
  <2> QED
    BY <1>2, <2>2, <2>3, <2>4
<1> QED
  BY <1>1, <1>3, <1>4, <1>5

-----------------------------------------------------------------------------
(* An event is stored as often as it is sent.                              *)

\* A batch has an event once, and a session is done once in a run.
Once ==
  /\ Posting => IsInjective(post.events)
  /\ \A req \in late : IsInjective(req.events)
  /\ IsFiniteSet(late)
  /\ IsInjective(cli.todo)

Pending(s, e) == {req \in late : req.s = s /\ e \in ToSet(req.events)}

\* The attempts the request still has.
Left(s, e) ==
  IF Posting /\ post.s = s /\ e \in ToSet(post.events) THEN (MaxRetries - post.attempt) + 1 ELSE 0

\* The run has not come to the event.
After(e, f, from) == Position(e) > f \/ (Position(e) = f /\ e.row > from)

Unsent(s, e) ==
  \/ cli.pc = "session" /\ s \in ToSet(cli.todo)
  \/ cli.pc \in {"started", "ingest", "finalize", "ended"} /\ s \in ToSet(Tail(cli.todo))
  \/ cli.pc \in {"started", "ingest"} /\ s = S /\ After(e, cli.feed, cli.from)


Potential(s, e) ==
  Count(dir[s].lines, e) + Cardinality(Pending(s, e)) + Left(s, e)
    + (IF Unsent(s, e) THEN MaxRetries ELSE 0)

Sparing == \A s \in Session, e \in Event : Potential(s, e) <= MaxRetries * runs

LEMMA PartsAre ==
  ASSUME Typed, IsFiniteSet(late), NEW s \in Session, NEW e \in Event
  PROVE  /\ MaxRetries \in Nat /\ MaxRetries > 0 /\ runs \in Nat /\ MaxRetries * runs \in Nat
         /\ Count(dir[s].lines, e) \in Nat
         /\ IsFiniteSet(Pending(s, e)) /\ Cardinality(Pending(s, e)) \in Nat
         /\ Left(s, e) \in Nat
         /\ (Posting /\ post.s = s /\ e \in ToSet(post.events) => Left(s, e) >= 1)
<1>1. MaxRetries \in Nat /\ MaxRetries > 0 /\ runs \in Nat
  BY UploadAssumption DEF Typed
<1>2. MaxRetries * runs \in Nat
  BY <1>1
<1>3. Count(dir[s].lines, e) \in Nat
  BY CountIs DEF Typed, Sane, Dirs
<1>4. IsFiniteSet(Pending(s, e)) /\ Cardinality(Pending(s, e)) \in Nat
  <2>1. Pending(s, e) \in SUBSET late
    BY DEF Pending
  <2> QED
    BY <2>1, FS_Subset, FS_CardinalityType
<1>5. Posting => post.attempt \in 1 .. MaxRetries
  BY RequestIs DEF Typed
<1>6. Left(s, e) \in Nat /\ (Posting /\ post.s = s /\ e \in ToSet(post.events) => Left(s, e) >= 1)
  BY <1>1, <1>5 DEF Left
<1> QED
  BY <1>1, <1>2, <1>3, <1>4, <1>6

LEMMA TailOnce ==
  ASSUME NEW T, NEW s \in Seq(T), s # <<>>, IsInjective(s)
  PROVE  IsInjective(Tail(s)) /\ Head(s) \notin ToSet(Tail(s))
<1>1. /\ Len(s) \in Nat /\ Len(s) > 0 /\ DOMAIN s = 1 .. Len(s) /\ Head(s) = s[1]
      /\ DOMAIN Tail(s) = 1 .. (Len(s) - 1)
      /\ \A i \in 1 .. (Len(s) - 1) : Tail(s)[i] = s[i + 1]
  OBVIOUS
<1>2. \A i \in 1 .. (Len(s) - 1) : i + 1 \in 1 .. Len(s) /\ i + 1 # 1
  BY <1>1
<1>3. ASSUME NEW i \in 1 .. (Len(s) - 1), NEW j \in 1 .. (Len(s) - 1), Tail(s)[i] = Tail(s)[j]
      PROVE  i = j
  <2>1. i + 1 = j + 1
    BY <1>1, <1>2, <1>3 DEF IsInjective
  <2> QED
    BY <1>1, <2>1
<1>4. ASSUME NEW i \in 1 .. (Len(s) - 1), Tail(s)[i] = Head(s) PROVE FALSE
  <2>1. s[i + 1] = s[1] /\ i + 1 \in DOMAIN s /\ 1 \in DOMAIN s
    BY <1>1, <1>2, <1>4
  <2> QED
    BY <1>2, <2>1 DEF IsInjective
<1> QED
  BY <1>1, <1>3, <1>4 DEF IsInjective, ToSet

\* A batch is of events the run has not come to, and brings it past them.
LEMMA BatchSpares ==
  ASSUME NEW s \in Session, NEW feed \in Nat, NEW from \in Nat
  PROVE  /\ IsInjective(iter_batches(s, feed, from).events)
         /\ \A e \in ToSet(iter_batches(s, feed, from).events) : e \in Event /\ After(e, feed, from)
         /\ iter_batches(s, feed, from).more =>
              \E last \in Event :
                /\ last = Last(iter_batches(s, feed, from).events)
                /\ Position(last) \in Nat /\ last.row \in Nat /\ After(last, feed, from)
                /\ \A e \in ToSet(iter_batches(s, feed, from).events) :
                     ~After(e, Position(last), last.row)
<1> DEFINE rest == Rest(s, feed, from)
           n == Cardinality(rest)
           size == Smaller(n, BatchSize)
           b == FirstOf(rest, size)
<1>1. rest \in SUBSET Event /\ \A e \in rest : After(e, feed, from)
  BY DEF Rest, Present, After
<1>2. iter_batches(s, feed, from).events = b /\ iter_batches(s, feed, from).more = (Len(b) = BatchSize)
  BY DEF iter_batches
<1> HIDE DEF rest
<1>3. n \in Nat /\ BatchSize \in Nat /\ BatchSize > 0
  BY <1>1, Numbers, UploadAssumption
<1> HIDE DEF n
<1>4. size \in 0 .. n /\ size \in Nat
  BY <1>3 DEF Smaller
<1> HIDE DEF size
<1>5. /\ b \in Seq(Event) /\ Len(b) = size /\ ToSet(b) \subseteq rest
      /\ \A i, j \in 1 .. size : i < j => Precedes(b[i], b[j])
  BY <1>1, <1>4, FirstOfRest DEF n
<1> HIDE DEF b
<1>6. DOMAIN b = 1 .. size /\ \A i \in 1 .. size : b[i] \in Event /\ b[i] \in ToSet(b)
  BY <1>5, SetOfSeq
<1>7. ASSUME NEW i \in 1 .. size, NEW j \in 1 .. size, b[i] = b[j] PROVE i = j
  <2>1. ~(i < j) /\ ~(j < i)
    BY <1>5, <1>6, <1>7, PrecedesOrders
  <2> QED
    BY <1>4, <2>1
<1>8. IsInjective(b)
  BY <1>6, <1>7 DEF IsInjective
<1>9. ASSUME Len(b) = BatchSize
      PROVE  \E last \in Event :
               /\ last = Last(b) /\ Position(last) \in Nat /\ last.row \in Nat /\ After(last, feed, from)
               /\ \A e \in ToSet(b) : ~After(e, Position(last), last.row)
  <2>1. size \in 1 .. size /\ Last(b) = b[size]
    BY <1>3, <1>4, <1>5, <1>9 DEF Last
  <2>2. PICK last \in Event : last = b[size]
    BY <1>6, <2>1
  <2>3. \A e \in Event : Position(e) \in Nat /\ e.row \in Nat
    <3>1. ASSUME NEW e \in Event PROVE MaxRows[e.feed] \in Nat /\ e.row \in 1 .. MaxRows[e.feed]
      BY EventsAre, UploadAssumption
    <3> QED
      BY <3>1, PositionIs
  <2>4. After(last, feed, from)
    BY <1>1, <1>5, <1>6, <2>1, <2>2
  <2>5. ASSUME NEW e \in ToSet(b) PROVE ~After(e, Position(last), last.row)
    <3>1. PICK i \in 1 .. size : e = b[i]
      BY <1>6 DEF ToSet
    <3>2. e \in Event
      BY <1>6, <3>1
    <3>3. CASE i = size
      BY <2>2, <2>3, <3>1, <3>2, <3>3 DEF After
    <3>4. CASE i # size
      <4>1. i < size
        BY <1>4, <3>4
      <4>2. Precedes(e, last)
        BY <1>5, <2>1, <2>2, <3>1, <4>1
      <4>3. e.feed = last.feed => Position(e) = Position(last)
        BY <3>2, PositionSame
      <4> QED
        BY <2>3, <3>2, <4>2, <4>3 DEF After, Precedes
    <3> QED
      BY <3>3, <3>4
  <2> QED
    BY <2>1, <2>2, <2>3, <2>4, <2>5
<1> QED
  BY <1>1, <1>2, <1>5, <1>8, <1>9

LEMMA AfterAfter ==
  ASSUME NEW d \in Event, NEW e \in Event, NEW feed \in Nat, NEW from \in Nat,
         After(d, feed, from), After(e, Position(d), d.row)
  PROVE  After(e, feed, from)
<1>1. /\ Position(d) \in Nat /\ Position(e) \in Nat
  BY PositionIs
<1>2. d.row \in Nat /\ e.row \in Nat
  <2>1. MaxRows[d.feed] \in Nat /\ d.row \in 1 .. MaxRows[d.feed]
    BY EventsAre, UploadAssumption
  <2>2. MaxRows[e.feed] \in Nat /\ e.row \in 1 .. MaxRows[e.feed]
    BY EventsAre, UploadAssumption
  <2> QED
    BY <2>1, <2>2
<1> QED
  BY <1>1, <1>2 DEF After

\* What a step may do to the parts of the potential, in a run.
LEMMA SparingKept ==
  ASSUME Typed, Once, Sparing, Typed', Once', runs' = runs,
         \A s \in Session, e \in Event :
           /\ Count(dir'[s].lines, e) + Cardinality(Pending(s, e)') + Left(s, e)'
                <= Count(dir[s].lines, e) + Cardinality(Pending(s, e)) + Left(s, e)
           /\ Unsent(s, e)' => Unsent(s, e)
  PROVE  Sparing'
<1>1. ASSUME NEW s \in Session, NEW e \in Event PROVE Potential(s, e)' <= MaxRetries * runs'
  <2> DEFINE c == Count(dir[s].lines, e)
             p == Cardinality(Pending(s, e))
             l == Left(s, e)
             cc == Count(dir'[s].lines, e)
             pp == Cardinality(Pending(s, e)')
             ll == Left(s, e)'
             u == IF Unsent(s, e) THEN MaxRetries ELSE 0
             uu == IF Unsent(s, e)' THEN MaxRetries ELSE 0
             m == MaxRetries * runs
  <2>1. MaxRetries \in Nat /\ m \in Nat /\ c \in Nat /\ p \in Nat /\ l \in Nat
    BY PartsAre DEF Once
  <2>2. cc \in Nat /\ pp \in Nat /\ ll \in Nat
    <3>1. cc \in Nat
      BY CountIs DEF Typed, Sane, Dirs
    <3>2. Pending(s, e)' \in SUBSET late' /\ IsFiniteSet(late')
      BY DEF Pending, Once
    <3>3. pp \in Nat
      BY <3>2, FS_Subset, FS_CardinalityType
    <3>4. Posting' => post'.attempt \in 1 .. MaxRetries
      BY RequestIs DEF Typed
    <3>5. ll \in Nat
      BY <2>1, <3>4 DEF Left
    <3> QED
      BY <3>1, <3>3, <3>5
  <2>3. u \in Nat /\ uu \in Nat /\ uu <= u
    BY <2>1
  <2>4. cc + pp + ll <= c + p + l
    OBVIOUS
  <2>5. c + p + l + u <= m
    BY DEF Sparing, Potential
  <2> HIDE DEF c, p, l, cc, pp, ll, u, uu, m
  <2>6. cc + pp + ll + uu <= m
    BY <2>1, <2>2, <2>3, <2>4, <2>5
  <2> QED
    BY <2>6 DEF Potential, Count, cc, pp, ll, uu, m
<1> QED
  BY <1>1 DEF Sparing

LEMMA SparingUploader ==
  ASSUME Typed, Waiting, Once, Sparing, Uploader, Typed'
  PROVE  Once' /\ Sparing'
<1>1. /\ cli \in Clients /\ cli.todo \in Seq(Session) /\ cli.feed \in Nat /\ cli.from \in Nat
      /\ cli.todo # <<>> => /\ S \in Session /\ S \in ToSet(cli.todo)
                           /\ ToSet(cli.todo) = {S} \cup ToSet(Tail(cli.todo))
                           /\ IsInjective(Tail(cli.todo)) /\ S \notin ToSet(Tail(cli.todo))
  BY SetOfTail, TailOnce DEF Typed, Clients, S, Once
<1>2. /\ UNCHANGED <<late, dir, runs>>
      /\ \A s, e : Pending(s, e)' = Pending(s, e)
  BY DEF Uploader, session_start, Exit, ingest_batch, session_end, Pending
<1>3. /\ <<>> \in Seq(Event) /\ Len(<<>>) <= BatchSize /\ 0 \in Frames /\ ToSet(<<>>) = {}
      /\ IsInjective(<<>>)
  BY UploadAssumption DEF Frames, ToSet, IsInjective
<1>4. ASSUME IsInjective(cli'.todo), Posting' => IsInjective(post'.events),
             \A s \in Session, e \in Event :
               /\ Left(s, e)' <= Left(s, e)
               /\ Unsent(s, e)' => Unsent(s, e)
      PROVE  Once' /\ Sparing'
  <2>1. Once'
    BY <1>2, <1>4 DEF Once
  <2>2. ASSUME NEW s \in Session, NEW e \in Event
        PROVE  Count(dir'[s].lines, e) + Cardinality(Pending(s, e)') + Left(s, e)'
                 <= Count(dir[s].lines, e) + Cardinality(Pending(s, e)) + Left(s, e)
    <3> DEFINE c == Count(dir[s].lines, e)
               p == Cardinality(Pending(s, e))
    <3>1. c \in Nat /\ p \in Nat /\ Left(s, e) \in Nat
      BY PartsAre DEF Once
    <3>2. Left(s, e)' \in Nat
      <4>1. Posting' => post'.attempt \in 1 .. MaxRetries
        BY RequestIs DEF Typed
      <4>2. MaxRetries \in Nat
        BY UploadAssumption
      <4> QED
        BY <4>1, <4>2 DEF Left
    <3>3. Left(s, e)' <= Left(s, e)
      BY <1>4
    <3>4. dir'[s] = dir[s] /\ Pending(s, e)' = Pending(s, e)
      BY <1>2
    <3>5. c + p + Left(s, e)' <= c + p + Left(s, e)
      <4> HIDE DEF c, p
      <4> QED
        BY <3>1, <3>2, <3>3
    <3> QED
      BY <3>4, <3>5
  <2> QED
    BY <1>2, <1>4, <2>1, <2>2, SparingKept
<1>5. ASSUME cli.todo # <<>>, cli.pc \in {"ingest", "finalize"},
             cli'.pc = "session", cli'.todo = Tail(cli.todo), ~Posting'
      PROVE  Once' /\ Sparing'
  <2>1. \A s \in Session, e \in Event : Left(s, e)' = 0 /\ (Unsent(s, e)' => Unsent(s, e))
    BY <1>5 DEF Left, Unsent
  <2>2. \A s \in Session, e \in Event : Left(s, e)' <= Left(s, e)
    BY <2>1, PartsAre DEF Once
  <2> QED
    BY <1>1, <1>4, <1>5, <2>1, <2>2
<1>6. ASSUME NEW failures \in {0, 1}, NextSession(failures)
      PROVE  cli'.pc = "session" /\ cli'.todo = Tail(cli.todo)
  <2>1. cli' = [cli EXCEPT !.pc = "session", !.todo = Tail(@), !.failures = @ + failures]
    BY <1>6 DEF NextSession
  <2> QED
    BY <1>1, <2>1 DEF Clients
\* Posts without events.
<1>7. ASSUME cli.todo # <<>>, cli'.todo = cli.todo, Posting', post'.events = <<>>,
             \A s \in Session, e \in Event : Unsent(s, e)' => Unsent(s, e)
      PROVE  Once' /\ Sparing'
  <2>1. \A s \in Session, e \in Event : Left(s, e)' = 0
    <3>1. ToSet(post'.events) = {}
      BY <1>3, <1>7
    <3> QED
      BY <3>1 DEF Left
  <2>2. \A s \in Session, e \in Event : Left(s, e)' <= Left(s, e)
    BY <2>1, PartsAre DEF Once
  <2> QED
    BY <1>3, <1>4, <1>7, <2>2 DEF Once
<1>8. CASE session_start
  <2>1. /\ cli.pc = "session" /\ cli.todo # <<>>
        /\ cli' = [cli EXCEPT !.pc = "started", !.feed = 1, !.from = 0]
        /\ Post("start", <<>>, 0)
    BY <1>8 DEF session_start
  <2>2. cli'.pc = "started" /\ cli'.todo = cli.todo /\ S' = S
    BY <1>1, <2>1 DEF Clients, S
  <2>3. Posting' /\ post'.events = <<>>
    BY <1>3, <2>1, PostIs
  <2>4. \A s \in Session, e \in Event : Unsent(s, e)' => Unsent(s, e)
    BY <1>1, <2>1, <2>2 DEF Unsent
  <2> QED
    BY <1>7, <2>1, <2>2, <2>3, <2>4
<1>9. CASE Exit
  <2>1. /\ cli.pc = "session" /\ cli.todo = <<>> /\ UNCHANGED post
        /\ cli' = [cli EXCEPT !.pc = "idle", !.code = IF cli.failures = 0 THEN 0 ELSE 1]
    BY <1>9 DEF Exit
  <2>2. cli'.pc = "idle" /\ cli'.todo = cli.todo /\ ~Posting'
    BY <1>1, <2>1 DEF Clients, Waiting, Posting
  <2>3. \A s \in Session, e \in Event : Left(s, e)' = 0 /\ ~Unsent(s, e)'
    BY <2>2 DEF Left, Unsent
  <2>4. \A s \in Session, e \in Event : Left(s, e)' <= Left(s, e)
    BY <2>3, PartsAre DEF Once
  <2> QED
    BY <1>4, <2>2, <2>3, <2>4 DEF Once
<1>10. CASE ingest_batch
  <2> DEFINE b == iter_batches(S, cli.feed, cli.from)
  <2>1. cli.pc = "ingest" /\ ~Posting /\ cli.todo # <<>> /\ S \in Session
    BY <1>1, <1>10 DEF ingest_batch, Waiting
  <2>2. /\ b.events \in Seq(Event) /\ Len(b.events) <= BatchSize /\ IsInjective(b.events)
        /\ \A e \in ToSet(b.events) : After(e, cli.feed, cli.from)
        /\ b.more => \E last \in Event :
                       /\ last = Last(b.events)
                       /\ Position(last) \in Nat /\ last.row \in Nat
                       /\ After(last, cli.feed, cli.from)
                       /\ \A e \in ToSet(b.events) : ~After(e, Position(last), last.row)
    BY <1>1, <2>1, BatchIs, BatchSpares
  <2>3. CASE NextSession(1) /\ UNCHANGED post
    <3>1. ~Posting'
      BY <2>1, <2>3 DEF Posting
    <3>2. cli'.pc = "session" /\ cli'.todo = Tail(cli.todo)
      BY <1>6, <2>3
    <3> QED
      BY <1>5, <2>1, <3>1, <3>2
  <2>4. CASE cli' = [cli EXCEPT !.pc = "finalize"] /\ UNCHANGED post
    <3>1. cli'.pc = "finalize" /\ cli'.todo = cli.todo /\ ~Posting'
      BY <1>1, <2>1, <2>4 DEF Clients, Posting
    <3>2. \A s \in Session, e \in Event : Left(s, e)' = 0 /\ (Unsent(s, e)' => Unsent(s, e))
      BY <2>1, <3>1 DEF Left, Unsent
    <3>3. \A s \in Session, e \in Event : Left(s, e)' <= Left(s, e)
      BY <3>2, PartsAre DEF Once
    <3> QED
      BY <1>4, <3>1, <3>2, <3>3 DEF Once
  <2>5. CASE /\ b.events # <<>> /\ Post("ingest", b.events, 0)
             /\ cli' = IF b.more
                       THEN [cli EXCEPT !.feed = Position(Last(b.events)), !.from = Last(b.events).row]
                       ELSE [cli EXCEPT !.pc = "finalize"]
    <3>1. PICK ev : ev = b.events
      OBVIOUS
    <3>2. ev \in Seq(Event) /\ Len(ev) <= BatchSize /\ ev # <<>> /\ Post("ingest", ev, 0)
      BY <2>2, <2>5, <3>1
    <3>3. Posting' /\ post'.s = S /\ post'.events = ev /\ post'.attempt = 1
      BY <1>3, <2>1, <3>2, PostIs
    <3>4. /\ cli'.todo = cli.todo
          /\ \A s \in Session, e \in Event :
               /\ Unsent(s, e)' => Unsent(s, e)
               /\ s = S /\ e \in ToSet(ev) => Unsent(s, e) /\ ~Unsent(s, e)'
      <4>1. \A s \in Session, e \in Event : s = S /\ e \in ToSet(ev) => Unsent(s, e)
        BY <2>1, <2>2, <3>1 DEF Unsent
      <4>2. CASE b.more
        <5>1. PICK last \in Event :
                /\ last = Last(b.events) /\ Position(last) \in Nat /\ last.row \in Nat
                /\ After(last, cli.feed, cli.from)
                /\ \A e \in ToSet(ev) : ~After(e, Position(last), last.row)
          BY <2>2, <3>1, <4>2
        <5>2. PICK x : x = Position(last)
          OBVIOUS
        <5>3. PICK y : y = last.row
          OBVIOUS
        <5>4. cli' = [cli EXCEPT !.feed = x, !.from = y]
          BY <2>5, <4>2, <5>1, <5>2, <5>3
        <5>5. cli'.pc = "ingest" /\ cli'.todo = cli.todo /\ cli'.feed = x /\ cli'.from = y /\ S' = S
          BY <1>1, <2>1, <5>4 DEF Clients, S
        <5>6. \A e \in Event : After(e, x, y) => After(e, cli.feed, cli.from)
          BY <1>1, <5>1, <5>2, <5>3, AfterAfter
        <5>7. \A e : After(e, x, y)' <=> After(e, x, y)
          BY DEF After, Position
        <5>8. \A s \in Session, e \in Event :
                Unsent(s, e)' <=> s \in ToSet(Tail(cli.todo)) \/ (s = S /\ After(e, x, y))
          BY <5>5, <5>7 DEF Unsent, After
        <5>9. \A s \in Session, e \in Event :
                Unsent(s, e) <=> s \in ToSet(Tail(cli.todo)) \/ (s = S /\ After(e, cli.feed, cli.from))
          BY <2>1 DEF Unsent
        <5> QED
          BY <1>1, <2>1, <4>1, <5>1, <5>2, <5>3, <5>5, <5>6, <5>8, <5>9
      <4>3. CASE ~b.more
        <5>1. cli' = [cli EXCEPT !.pc = "finalize"]
          BY <2>5, <4>3
        <5>2. cli'.pc = "finalize" /\ cli'.todo = cli.todo
          BY <1>1, <5>1 DEF Clients
        <5>3. \A s \in Session, e \in Event : Unsent(s, e)' <=> s \in ToSet(Tail(cli.todo))
          BY <5>2 DEF Unsent
        <5>4. \A s \in Session, e \in Event : s \in ToSet(Tail(cli.todo)) => Unsent(s, e)
          BY <2>1 DEF Unsent
        <5> QED
          BY <1>1, <2>1, <4>1, <5>2, <5>3, <5>4
      <4> QED
        BY <4>2, <4>3
    <3>5. Once'
      BY <1>2, <2>2, <3>1, <3>3, <3>4 DEF Once
    <3>6. ASSUME NEW s \in Session, NEW e \in Event PROVE Potential(s, e)' <= MaxRetries * runs'
      <4> DEFINE c == Count(dir[s].lines, e)
                 p == Cardinality(Pending(s, e))
                 m == MaxRetries * runs
      <4>1. c \in Nat /\ p \in Nat /\ m \in Nat /\ MaxRetries \in Nat
        BY PartsAre DEF Once
      <4>2. Left(s, e) = 0
        BY <2>1 DEF Left
      <4>3. c + p + 0 + (IF Unsent(s, e) THEN MaxRetries ELSE 0) <= m
        BY <4>2 DEF Sparing, Potential
      <4>4. Potential(s, e)' = c + p + Left(s, e)' + (IF Unsent(s, e)' THEN MaxRetries ELSE 0)
        BY <1>2 DEF Potential, Count
      <4>5. Left(s, e)' = IF s = S /\ e \in ToSet(ev) THEN (MaxRetries - 1) + 1 ELSE 0
        BY <2>1, <3>3 DEF Left
      <4> HIDE DEF c, p, m
      <4>6. CASE s = S /\ e \in ToSet(ev)
        <5>1. Unsent(s, e) /\ ~Unsent(s, e)'
          BY <3>4, <4>6
        <5>2. Left(s, e)' = MaxRetries
          BY <4>1, <4>5, <4>6
        <5>3. Potential(s, e)' = c + p + MaxRetries + 0
          BY <4>4, <5>1, <5>2
        <5> QED
          BY <1>2, <4>1, <4>3, <5>1, <5>3 DEF m
      <4>7. CASE ~(s = S /\ e \in ToSet(ev))
        <5>1. Left(s, e)' = 0 /\ (Unsent(s, e)' => Unsent(s, e))
          BY <3>4, <4>5, <4>7
        <5>2. Potential(s, e)' = c + p + 0 + (IF Unsent(s, e)' THEN MaxRetries ELSE 0)
          BY <4>4, <5>1
        <5>3. Potential(s, e)' <= m
          BY <4>1, <4>3, <5>1, <5>2
        <5> QED
          BY <1>2, <5>3 DEF m
      <4> QED
        BY <4>6, <4>7
    <3> QED
      BY <3>5, <3>6 DEF Sparing
  <2> HIDE DEF b
  <2> QED
    BY <1>10, <2>3, <2>4, <2>5 DEF ingest_batch, b
<1>11. CASE session_end
  <2>1. cli.pc = "finalize" /\ ~Posting /\ cli.todo # <<>> /\ S \in Session
    BY <1>1, <1>11 DEF session_end, Waiting
  <2>2. ASSUME NEW failures \in {0, 1}, NextSession(failures), UNCHANGED post PROVE Once' /\ Sparing'
    <3>1. ~Posting'
      BY <2>1, <2>2 DEF Posting
    <3>2. cli'.pc = "session" /\ cli'.todo = Tail(cli.todo)
      BY <1>6, <2>2
    <3> QED
      BY <1>5, <2>1, <3>1, <3>2
  <2>3. CASE Post("end", <<>>, build_session_summary(S)) /\ cli' = [cli EXCEPT !.pc = "ended"]
    <3>1. build_session_summary(S) \in Frames
      BY <2>1, UploadAssumption DEF build_session_summary, Frames, Typed
    <3>2. Posting' /\ post'.events = <<>>
      BY <1>3, <2>1, <2>3, <3>1, PostIs
    <3>3. cli'.pc = "ended" /\ cli'.todo = cli.todo
      BY <1>1, <2>3 DEF Clients
    <3>4. \A s \in Session, e \in Event : Unsent(s, e)' => Unsent(s, e)
      BY <2>1, <3>3 DEF Unsent
    <3> QED
      BY <1>7, <2>1, <3>2, <3>3, <3>4
  <2> QED
    BY <1>11, <2>2, <2>3 DEF session_end
<1> QED
  BY <1>8, <1>9, <1>10, <1>11 DEF Uploader

\* A request that is stored adds a copy of each of its events.
LEMMA StoreCopies ==
  ASSUME Typed, NEW req, ProperRequest(req), IsInjective(req.events), dir' = Store(dir, req),
         NEW s \in Session, NEW e \in Event
  PROVE  Count(dir'[s].lines, e)
           <= Count(dir[s].lines, e) + (IF s = req.s /\ e \in ToSet(req.events) THEN 1 ELSE 0)
<1>1. req.s \in Session /\ dir \in [Session -> Dirs] /\ \A u \in Session : Sane(dir[u])
  BY RequestIs DEF Typed
<1>2. Store(dir, req)[s] = IF s = req.s THEN Stored(dir[s], req) ELSE dir[s]
  BY <1>1, StoreIs
<1>3. PICK d : d = dir[s]
  OBVIOUS
<1>4. Sane(d) /\ Count(d.lines, e) \in Nat
  BY <1>1, <1>3, CountIs DEF Sane, Dirs
<1>5. CASE s = req.s
  <2>1. Count(Stored(d, req).lines, e) <= Count(d.lines, e) + (IF e \in ToSet(req.events) THEN 1 ELSE 0)
    BY <1>4, StoredCopies
  <2> QED
    BY <1>2, <1>3, <1>5, <2>1
<1>6. CASE s # req.s
  BY <1>2, <1>3, <1>4, <1>6
<1> QED
  BY <1>5, <1>6

LEMMA DiesCopies ==
  ASSUME Typed, Once, ServerDies, NEW s \in Session, NEW e \in Event
  PROVE  Count(dir'[s].lines, e)
           <= Count(dir[s].lines, e) + (IF s = post.s /\ e \in ToSet(post.events) THEN 1 ELSE 0)
<1>1. /\ ProperRequest(post) /\ post.s \in Session /\ post.events \in Seq(Event)
      /\ IsInjective(post.events)
      /\ dir \in [Session -> Dirs] /\ \A u \in Session : Sane(dir[u])
  BY RequestIs DEF Typed, ServerDies, Once
<1>2. PICK n \in 0 .. (Len(post.events) - 1), remnant \in Remnants :
        dir' = [dir EXCEPT ![post.s] = TornAppend(@, post.events, n, remnant)]
  BY DEF ServerDies
<1>3. PICK d : d = dir[s]
  OBVIOUS
<1>4. PICK ev : ev = post.events
  OBVIOUS
<1>5. Sane(d) /\ Count(d.lines, e) \in Nat /\ ev \in Seq(Event) /\ IsInjective(ev) /\ n \in 0 .. Len(ev) - 1
  BY <1>1, <1>3, <1>4, CountIs DEF Sane, Dirs
<1>6. CASE s = post.s
  <2>1. dir'[s] = TornAppend(d, ev, n, remnant)
    BY <1>1, <1>2, <1>3, <1>4, <1>6
  <2>2. Count(TornAppend(d, ev, n, remnant).lines, e) <= Count(d.lines, e) + (IF e \in ToSet(ev) THEN 1 ELSE 0)
    BY <1>5, TornCopies
  <2> QED
    BY <1>3, <1>4, <1>6, <2>1, <2>2
<1>7. CASE s # post.s
  <2>1. dir'[s] = d
    BY <1>1, <1>2, <1>3, <1>7
  <2> QED
    BY <1>3, <1>5, <1>7, <2>1
<1> QED
  BY <1>6, <1>7

\* A request that was given up may add one to what is pending.
LEMMA PendingGrows ==
  ASSUME Typed, Posting, IsFiniteSet(late), late' = late \cup {[post EXCEPT !.attempt = 1]},
         NEW s \in Session, NEW e \in Event
  PROVE  Cardinality(Pending(s, e)')
           <= Cardinality(Pending(s, e)) + (IF s = post.s /\ e \in ToSet(post.events) THEN 1 ELSE 0)
<1>1. PICK r : r = [post EXCEPT !.attempt = 1]
  OBVIOUS
<1>2. r.s = post.s /\ r.events = post.events
  BY <1>1, GivenUpIs
<1> DEFINE A == Pending(s, e)
           B == Pending(s, e)'
<1>3. IsFiniteSet(A) /\ Cardinality(A) \in Nat
  BY PartsAre
<1>4. B = IF s = post.s /\ e \in ToSet(post.events) THEN A \cup {r} ELSE A
  BY <1>1, <1>2 DEF Pending
<1> HIDE DEF A, B
<1>5. Cardinality(A \cup {r}) = IF r \in A THEN Cardinality(A) ELSE Cardinality(A) + 1
  BY <1>3, FS_AddElement
<1>6. Cardinality(B) <= Cardinality(A) + (IF s = post.s /\ e \in ToSet(post.events) THEN 1 ELSE 0)
  BY <1>3, <1>4, <1>5
<1> QED
  BY <1>6 DEF A, B

LEMMA SparingEnding ==
  ASSUME Typed, Waiting, Once, Sparing, Ending, Typed'
  PROVE  Once' /\ Sparing'
<1>1. /\ Posting /\ ProperRequest(post) /\ UNCHANGED <<rows, bad, runs, due>> /\ Answered
      /\ late' = late \/ late' = late \cup {[post EXCEPT !.attempt = 1]}
      /\ late' = late \/ dir' = dir
  BY EndingIs
<1>2. /\ cli \in Clients /\ cli.todo \in Seq(Session) /\ cli.todo # <<>>
      /\ cli.pc \in {"started", "ingest", "finalize", "ended"}
      /\ S \in Session /\ S \in ToSet(cli.todo)
      /\ ToSet(cli.todo) = {S} \cup ToSet(Tail(cli.todo))
      /\ IsInjective(Tail(cli.todo))
  BY <1>1, SetOfTail, TailOnce DEF Typed, Waiting, Clients, S, Once
<1>3. /\ Posting' => post'.s = post.s /\ post'.events = post.events /\ post'.attempt = post.attempt + 1
      /\ IsInjective(cli'.todo)
      /\ \A s \in Session, e \in Event : Unsent(s, e)' => Unsent(s, e)
  <2>1. CASE Again /\ UNCHANGED <<cli, acked>>
    <3>1. S' = S
      BY <2>1 DEF S
    <3>2. \A s \in Session, e \in Event : Unsent(s, e)' <=> Unsent(s, e)
      BY <2>1, <3>1 DEF Unsent, After, Position
    <3> QED
      BY <2>1, <3>2 DEF Again, Once
  <2>2. ASSUME NEW ok \in BOOLEAN, Returned(ok)
        PROVE  /\ ~Posting' /\ IsInjective(cli'.todo)
               /\ \A s \in Session, e \in Event : Unsent(s, e)' => Unsent(s, e)
    <3>1. /\ ~Posting' /\ cli'.feed = cli.feed /\ cli'.from = cli.from
          /\ cli.pc = "started" => cli'.pc = (IF cli.mode.ingest THEN "ingest" ELSE "finalize")
          /\ cli.pc \in {"ingest", "finalize"} => cli'.pc = cli.pc
          /\ cli.pc = "ended" => cli'.pc = "session" /\ cli'.todo = Tail(cli.todo)
          /\ cli.pc # "ended" => cli'.todo = cli.todo
      BY <1>1, <2>2, ReturnedDoes
    <3>2. CASE cli.pc = "ended"
      <4>1. cli'.pc = "session" /\ cli'.todo = Tail(cli.todo)
        BY <3>1, <3>2
      <4>2. \A s \in Session, e \in Event : Unsent(s, e)' => Unsent(s, e)
        BY <3>2, <4>1 DEF Unsent
      <4> QED
        BY <1>2, <3>1, <4>1, <4>2
    <3>3. CASE cli.pc # "ended"
      <4>1. /\ cli'.todo = cli.todo /\ S' = S /\ cli'.pc \in {"ingest", "finalize"}
            /\ cli'.pc = "ingest" => cli.pc \in {"started", "ingest"}
        BY <1>2, <3>1, <3>3 DEF S
      <4>2. \A e : After(e, cli'.feed, cli'.from) <=> After(e, cli.feed, cli.from)
        BY <3>1
      <4>3. \A s \in Session, e \in Event : Unsent(s, e)' => Unsent(s, e)
        BY <1>2, <3>1, <4>1, <4>2 DEF Unsent, After, Position
      <4> QED
        BY <3>1, <4>1, <4>3 DEF Once
    <3> QED
      BY <3>2, <3>3
  <2> QED
    BY <1>1, <2>1, <2>2 DEF Answered
<1>4. Once'
  <2>1. IsFiniteSet(late')
    BY <1>1, FS_AddElement DEF Once
  <2>2. \A req \in late' : IsInjective(req.events)
    BY <1>1, GivenUpIs DEF Once
  <2> QED
    BY <1>1, <1>3, <2>1, <2>2 DEF Once
<1>5. ASSUME NEW s \in Session, NEW e \in Event
      PROVE  Count(dir'[s].lines, e) + Cardinality(Pending(s, e)') + Left(s, e)'
               <= Count(dir[s].lines, e) + Cardinality(Pending(s, e)) + Left(s, e)
  <2> DEFINE H == s = post.s /\ e \in ToSet(post.events)
             h == IF H THEN 1 ELSE 0
             c == Count(dir[s].lines, e)
             p == Cardinality(Pending(s, e))
             l == Left(s, e)
             cc == Count(dir'[s].lines, e)
             pp == Cardinality(Pending(s, e)')
             ll == Left(s, e)'
  <2>1. c \in Nat /\ p \in Nat /\ l \in Nat
    BY PartsAre DEF Once
  <2>2. cc \in Nat /\ pp \in Nat /\ ll \in Nat
    <3>1. cc \in Nat
      BY CountIs DEF Typed, Sane, Dirs
    <3>2. Pending(s, e)' \in SUBSET late' /\ IsFiniteSet(late')
      BY <1>4 DEF Pending, Once
    <3>3. pp \in Nat
      BY <3>2, FS_Subset, FS_CardinalityType
    <3>4. (Posting' => post'.attempt \in 1 .. MaxRetries) /\ MaxRetries \in Nat
      BY RequestIs, UploadAssumption DEF Typed
    <3>5. ll \in Nat
      BY <3>4 DEF Left
    <3> QED
      BY <3>1, <3>3, <3>5
  <2>3. ll + h <= l
    <3>1. post.attempt \in 1 .. MaxRetries /\ MaxRetries \in Nat
      BY <1>1, RequestIs, UploadAssumption
    <3>2. l = IF H THEN (MaxRetries - post.attempt) + 1 ELSE 0
      BY <1>1 DEF Left
    <3>3. ll = IF Posting' /\ H THEN (MaxRetries - (post.attempt + 1)) + 1 ELSE 0
      BY <1>3 DEF Left
    <3> HIDE DEF H, l, ll
    <3> QED
      BY <3>1, <3>2, <3>3
  <2>4. (cc <= c /\ pp <= p + h) \/ (cc <= c + h /\ pp <= p)
    <3>1. late' = late => pp = p
      BY DEF Pending
    <3>2. dir' = dir => cc = c
      OBVIOUS
    <3>3. CASE ServerDies
      <4>1. late' = late
        BY <3>3 DEF ServerDies
      <4>2. cc <= c + h
        BY <3>3, DiesCopies
      <4> QED
        BY <2>1, <3>1, <4>1, <4>2
    <3>4. CASE late' = late /\ (dir' = Store(dir, post) \/ dir' = dir)
      <4>1. cc <= c + h
        <5>1. CASE dir' = Store(dir, post)
          BY <1>1, <5>1, StoreCopies DEF Once
        <5>2. CASE dir' = dir
          <6> HIDE DEF c, cc, H
          <6> QED
            BY <2>1, <3>2, <5>2
        <5> QED
          BY <3>4, <5>1, <5>2
      <4> QED
        BY <2>1, <3>1, <3>4, <4>1
    <3>5. CASE dir' = dir /\ late' = late \cup {[post EXCEPT !.attempt = 1]}
      <4>1. pp <= p + h
        BY <1>1, <3>5, PendingGrows DEF Once
      <4> QED
        BY <2>1, <3>2, <3>5, <4>1
    <3> QED
      BY <1>1, <3>3, <3>4, <3>5, EndingIs
  <2>5. h \in {0, 1}
    OBVIOUS
  <2> HIDE DEF H, h, c, p, l, cc, pp, ll
  <2>6. cc + pp + ll <= c + p + l
    BY <2>1, <2>2, <2>3, <2>4, <2>5
  <2> QED
    BY <2>6 DEF c, p, l, cc, pp, ll
<1> QED
  BY <1>1, <1>3, <1>4, <1>5, SparingKept

LEMMA SparingLate ==
  ASSUME Typed, Waiting, Once, Sparing, Late, Typed'
  PROVE  Once' /\ Sparing'
<1>1. PICK req \in late : dir' = Store(dir, req) /\ late' = late \ {req}
  BY DEF Late
<1>2. UNCHANGED <<rows, bad, cli, post, runs, faults, tears, due, acked>>
  BY DEF Late
<1>3. ProperRequest(req) /\ IsInjective(req.events)
  BY <1>1 DEF Typed, Once
<1>4. Once'
  <2>1. IsFiniteSet(late')
    BY <1>1, FS_RemoveElement DEF Once
  <2> QED
    BY <1>1, <1>2, <2>1 DEF Once, Posting
<1>5. ASSUME NEW s \in Session, NEW e \in Event
      PROVE  Count(dir'[s].lines, e) + Cardinality(Pending(s, e)') + Left(s, e)'
               <= Count(dir[s].lines, e) + Cardinality(Pending(s, e)) + Left(s, e)
  <2> DEFINE H == s = req.s /\ e \in ToSet(req.events)
             h == IF H THEN 1 ELSE 0
             A == Pending(s, e)
             B == Pending(s, e)'
             c == Count(dir[s].lines, e)
             cc == Count(dir'[s].lines, e)
  <2>1. c \in Nat /\ IsFiniteSet(A) /\ Cardinality(A) \in Nat /\ Left(s, e) \in Nat
    BY PartsAre DEF Once
  <2>2. cc <= c + h
    BY <1>1, <1>3, StoreCopies
  <2>3. cc \in Nat
    BY CountIs DEF Typed, Sane, Dirs
  <2>4. B = A \ {req} /\ (req \in A <=> H)
    BY <1>1 DEF Pending
  <2>5. Left(s, e)' = Left(s, e)
    BY <1>2 DEF Left, Posting
  <2> HIDE DEF A, B, c, cc, H
  <2>6. Cardinality(B) = IF req \in A THEN Cardinality(A) - 1 ELSE Cardinality(A)
    BY <2>1, <2>4, FS_RemoveElement
  <2>7. cc + Cardinality(B) + Left(s, e) <= c + Cardinality(A) + Left(s, e)
    BY <2>1, <2>2, <2>3, <2>4, <2>6
  <2> QED
    BY <2>5, <2>7 DEF A, B, c, cc
<1>6. \A s \in Session, e \in Event : Unsent(s, e)' => Unsent(s, e)
  BY <1>2 DEF Unsent, S, After, Position
<1> QED
  BY <1>2, <1>4, <1>5, <1>6, SparingKept

LEMMA SparingKill ==
  ASSUME Typed, Waiting, Once, Sparing, Kill, Typed'
  PROVE  Once' /\ Sparing'
<1>1. /\ cli' = NotStarted /\ post' = None /\ dir' = dir /\ runs' = runs
      /\ late' = late \/ (Posting /\ late' = late \cup {[post EXCEPT !.attempt = 1]})
  BY DEF Kill
<1>2. ~Posting' /\ cli'.pc = "idle" /\ cli'.todo = <<>>
  BY <1>1 DEF Posting, NotStarted
<1>3. Once'
  <2>1. IsFiniteSet(late')
    BY <1>1, FS_AddElement DEF Once
  <2>2. \A req \in late' : IsInjective(req.events)
    BY <1>1, GivenUpIs DEF Once
  <2>3. IsInjective(<<>>)
    BY DEF IsInjective
  <2> QED
    BY <1>2, <2>1, <2>2, <2>3 DEF Once
<1>4. ASSUME NEW s \in Session, NEW e \in Event
      PROVE  Count(dir'[s].lines, e) + Cardinality(Pending(s, e)') + Left(s, e)'
               <= Count(dir[s].lines, e) + Cardinality(Pending(s, e)) + Left(s, e)
  <2> DEFINE c == Count(dir[s].lines, e)
             p == Cardinality(Pending(s, e))
             pp == Cardinality(Pending(s, e)')
  <2>1. c \in Nat /\ p \in Nat /\ Left(s, e) \in Nat
        /\ (Posting /\ post.s = s /\ e \in ToSet(post.events) => Left(s, e) >= 1)
    BY PartsAre DEF Once
  <2>2. Left(s, e)' = 0 /\ dir'[s] = dir[s]
    BY <1>1, <1>2 DEF Left
  <2>3. pp <= p + Left(s, e) /\ pp \in Nat
    <3>1. Pending(s, e)' \in SUBSET late' /\ IsFiniteSet(late')
      BY <1>3 DEF Pending, Once
    <3>2. pp \in Nat
      BY <3>1, FS_Subset, FS_CardinalityType
    <3>3. CASE late' = late
      <4>1. pp = p
        BY <3>3 DEF Pending
      <4> HIDE DEF p, pp
      <4> QED
        BY <2>1, <3>2, <4>1
    <3>4. CASE Posting /\ late' = late \cup {[post EXCEPT !.attempt = 1]}
      <4>1. pp <= p + (IF s = post.s /\ e \in ToSet(post.events) THEN 1 ELSE 0)
        BY <3>4, PendingGrows DEF Once
      <4> HIDE DEF p, pp
      <4> QED
        BY <2>1, <3>2, <3>4, <4>1
    <3> QED
      BY <1>1, <3>3, <3>4
  <2>4. c + pp + 0 <= c + p + Left(s, e)
    <3> HIDE DEF c, p, pp
    <3> QED
      BY <2>1, <2>3
  <2> QED
    BY <2>2, <2>4
<1>5. \A s \in Session, e \in Event : Unsent(s, e)' => Unsent(s, e)
  BY <1>2 DEF Unsent
<1> QED
  BY <1>1, <1>3, <1>4, <1>5, SparingKept

LEMMA SparingInvoke ==
  ASSUME Typed, Waiting, Once, Sparing, Invoke
  PROVE  Once' /\ Sparing'
<1>1. /\ cli.pc = "idle" /\ runs' = runs + 1 /\ UNCHANGED <<post, late, dir>>
      /\ cli'.pc = "session" /\ cli'.todo = SetToSeq(Session)
  BY DEF Invoke, NotStarted
<1>2. ~Posting /\ ~Posting'
  BY <1>1 DEF Waiting, Posting
<1>3. Once'
  BY <1>1, <1>2, SessionsListed DEF Once
<1>4. ASSUME NEW s \in Session, NEW e \in Event PROVE Potential(s, e)' <= MaxRetries * runs'
  <2> DEFINE c == Count(dir[s].lines, e)
             p == Cardinality(Pending(s, e))
             m == MaxRetries * runs
             u == IF Unsent(s, e)' THEN MaxRetries ELSE 0
  <2>1. c \in Nat /\ p \in Nat /\ m \in Nat /\ MaxRetries \in Nat /\ runs \in Nat
    BY PartsAre DEF Once
  <2>2. Left(s, e) = 0 /\ Left(s, e)' = 0 /\ ~Unsent(s, e)
    BY <1>1, <1>2 DEF Left, Unsent
  <2>3. c + p + 0 + 0 <= m
    BY <2>2 DEF Sparing, Potential
  <2>4. Potential(s, e)' = c + p + 0 + u
    BY <1>1, <2>2 DEF Potential, Count, Pending
  <2>5. u <= MaxRetries /\ u \in Nat
    BY <2>1
  <2>6. MaxRetries * runs' = m + MaxRetries
    BY <1>1, <2>1
  <2> HIDE DEF c, p, m, u
  <2> QED
    BY <2>1, <2>3, <2>4, <2>5, <2>6
<1> QED
  BY <1>3, <1>4 DEF Sparing

LEMMA SparingSame ==
  ASSUME Once, Sparing, UNCHANGED <<cli, post, late, dir, runs>>
  PROVE  Once' /\ Sparing'
<1>1. \A s, e : Potential(s, e)' = Potential(s, e)
  BY DEF Potential, Count, Pending, Left, Unsent, S, After, Position, Posting
<1> QED
  BY <1>1 DEF Once, Sparing, Posting

LEMMA SparingStep ==
  ASSUME Typed, Waiting, Once, Sparing, [Next]_vars
  PROVE  Once' /\ Sparing'
<1>1. Typed'
  BY TypedStep
<1>2. CASE Record \/ UNCHANGED vars
  BY <1>2, SparingSame DEF Record, vars
<1> QED
  BY <1>1, <1>2, SparingUploader, SparingEnding, SparingLate, SparingKill, SparingInvoke DEF Next, Ending

LEMMA SparingInit ==
  ASSUME Init
  PROVE  Once /\ Sparing
<1>1. Typed
  BY TypedInit
<1>2. late = {} /\ post = None /\ cli.pc = "idle" /\ cli.todo = <<>> /\ runs = 0
  BY DEF Init, NotStarted
<1>3. Once
  BY <1>2, FS_EmptySet DEF Once, IsInjective, Posting
<1>4. ASSUME NEW s \in Session, NEW e \in Event PROVE Potential(s, e) <= MaxRetries * runs
  <2>1. Pending(s, e) = {} /\ Left(s, e) = 0 /\ ~Unsent(s, e)
    BY <1>2 DEF Pending, Left, Unsent, Posting
  <2>2. {i \in DOMAIN dir[s].lines : dir[s].lines[i] = e} = {}
    BY DEF Init, NoSession
  <2>3. Count(dir[s].lines, e) = 0 /\ Cardinality(Pending(s, e)) = 0
    BY <2>1, <2>2, FS_EmptySet DEF Count
  <2>4. MaxRetries * runs = 0
    BY <1>2, UploadAssumption
  <2> QED
    BY <2>1, <2>3, <2>4 DEF Potential
<1> QED
  BY <1>3, <1>4 DEF Sparing

\* Sending again is all that duplicates an event: it is stored no more often
\* than each run may post it.
THEOREM DuplicatesAreRetries == Spec => []DuplicatesBounded
<1> DEFINE Inv == UploadInv /\ Once /\ Sparing
<1>1. Init => Inv
  BY TypedInit, PaidInit, RecordedInit, CoveredInit, SparingInit DEF UploadInv
<1>2. Inv /\ [Next]_vars => Inv'
  BY TypedStep, PaidStep, RecordedStep, CoveredStep, SparingStep DEF UploadInv
<1>3. Inv => DuplicatesBounded
  <2> SUFFICES ASSUME Inv, NEW s \in Session, NEW e \in Readable(dir[s])
               PROVE  Copies(s, e) <= MaxRetries * runs
    BY DEF DuplicatesBounded
  <2>1. e \in Event /\ Typed /\ IsFiniteSet(late)
    BY DEF UploadInv, Recorded, Present, Once
  <2> DEFINE c == Count(dir[s].lines, e)
             p == Cardinality(Pending(s, e))
             m == MaxRetries * runs
  <2>2. c \in Nat /\ p \in Nat /\ Left(s, e) \in Nat /\ m \in Nat /\ MaxRetries \in Nat
    BY <2>1, PartsAre
  <2>3. c + p + Left(s, e) + (IF Unsent(s, e) THEN MaxRetries ELSE 0) <= m
    BY <2>1 DEF Sparing, Potential
  <2>4. Copies(s, e) = c
    BY DEF Copies, Count
  <2> HIDE DEF c, p, m
  <2>5. c <= m
    BY <2>2, <2>3
  <2> QED
    BY <2>4, <2>5 DEF m
<1> HIDE DEF Inv
<1> QED
  BY <1>1, <1>2, <1>3, PTL DEF Spec

\* All of UploadDelivers follows from the specification but the ending, which
\* needs the process and requests.post to go on and is the hypothesis here.
THEOREM UploadDeliversOnceItEnds == Spec /\ UploadEnds => UploadDelivers
BY UploadTyped, AcknowledgedIsThere, ExitZeroIsTrue, DuplicatesAreRetries, SummariesCover, PTL
   DEF UploadDelivers

=============================================================================
