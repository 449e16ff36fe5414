--------------------------- MODULE PipelineProofs ---------------------------
(***************************************************************************)
(* A recording that lacks anything is taken for whole by no reader; what   *)
(* a reader is told of a whole one is what the install did, and a          *)
(* comparison attributes to the package only that: for any deeds, hosts,   *)
(* recorders, catalog and number of losses.                                *)
(*                                                                         *)
(* The argument: only End writes a session_end, and it says complete only  *)
(* when nothing was lost (FileInv); every reader goes by the last          *)
(* session_end of the file, each in a place of its own.                    *)
(*                                                                         *)
(* A file begins with its session_start, tells of nothing that was not     *)
(* done, and of all that was done unless something was lost (TellInv).     *)
(* What the events of one deed are read as is shown by cases, once for     *)
(* profiles (Tells), once for findings (Answers) and once for the other    *)
(* recorder (Explained); reading a file only puts those together.          *)
(***************************************************************************)
EXTENDS Pipeline, FiniteSetTheorems, WellFoundedInduction, TLAPS

-----------------------------------------------------------------------------
(* Streams                                                                 *)

IsStream(s) == s \in Seq(Range(s))

\* The two sequences of a concatenation, by their places.
LEMMA Concatenation ==
    ASSUME NEW s, NEW t, IsStream(s), IsStream(t)
    PROVE  /\ IsStream(s \o t)
           /\ Len(s) \in Nat /\ Len(t) \in Nat
           /\ DOMAIN s = 1 .. Len(s) /\ DOMAIN t = 1 .. Len(t)
           /\ DOMAIN (s \o t) = 1 .. (Len(s) + Len(t))
           /\ \A i \in 1 .. Len(s) : (s \o t)[i] = s[i]
           /\ \A i \in 1 .. Len(t) : (s \o t)[Len(s) + i] = t[i]
<1> DEFINE S == Range(s) \cup Range(t)
<1>1. s \in Seq(S) /\ t \in Seq(S)
  BY DEF IsStream
<1> HIDE DEF S
<1>2. s \o t \in Seq(S)
  BY <1>1
<1>3. /\ Len(s) \in Nat /\ Len(t) \in Nat
      /\ DOMAIN s = 1 .. Len(s) /\ DOMAIN t = 1 .. Len(t)
      /\ Len(s \o t) = Len(s) + Len(t)
      /\ DOMAIN (s \o t) = 1 .. Len(s \o t)
  BY <1>1, <1>2
<1>4. \A i \in 1 .. Len(s) : (s \o t)[i] = s[i]
  BY <1>1
<1>5. \A i \in 1 .. Len(t) : (s \o t)[Len(s) + i] = t[i]
  BY <1>1
<1>6. s \o t \in Seq(Range(s \o t))
  <2> DEFINE u == s \o t
  <2>1. u \in Seq(S)
    BY <1>2
  <2> HIDE DEF u
  <2>2. u \in [1 .. Len(u) -> Range(u)] /\ Len(u) \in Nat
    BY <2>1 DEF Range
  <2>3. u \in Seq(Range(u))
    BY <2>2
  <2> QED BY <2>3 DEF u
<1> QED BY <1>3, <1>4, <1>5, <1>6 DEF IsStream

\* What holds no session_end leaves the ends of a stream where they are.
LEMMA NoNewEnd ==
    ASSUME NEW s, NEW t, IsStream(s), IsStream(t), ~Terminated(s), ~Terminated(t)
    PROVE  IsStream(s \o t) /\ ~Terminated(s \o t)
<1>1. \A i \in 1 .. Len(s) : s[i].op # "session_end"
  BY Concatenation DEF Terminated, SessionEnds
<1>2. \A i \in 1 .. Len(t) : t[i].op # "session_end"
  BY Concatenation DEF Terminated, SessionEnds
<1>3. ASSUME NEW i \in DOMAIN (s \o t) PROVE (s \o t)[i].op # "session_end"
  <2>1. PICK m \in Nat, n \in Nat : m = Len(s) /\ n = Len(t)
    BY Concatenation
  <2>2. i \in 1 .. (m + n)
    BY <2>1, Concatenation
  <2>3. i \in 1 .. m \/ \E k \in 1 .. n : i = m + k
    <3>1. CASE i <= m
      BY <3>1, <2>2
    <3>2. CASE i > m
      <4>1. i - m \in 1 .. n /\ i = m + (i - m)
        BY <3>2, <2>2
      <4> QED BY <4>1
    <3> QED BY <3>1, <3>2, <2>2
  <2>4. CASE i \in 1 .. m
    BY <2>4, <2>1, <1>1, Concatenation
  <2>5. CASE \E k \in 1 .. n : i = m + k
    BY <2>5, <2>1, <1>2, Concatenation
  <2> QED BY <2>3, <2>4, <2>5
<1> QED BY <1>3, Concatenation DEF Terminated, SessionEnds

\* A stream of one event, and one of two.
LEMMA ShortStreams ==
    /\ \A a : IsStream(<<a>>) /\ (a.op # "session_end" => ~Terminated(<<a>>))
    /\ \A a, b : IsStream(<<a, b>>)
                 /\ (a.op # "session_end" /\ b.op # "session_end" => ~Terminated(<<a, b>>))
    /\ IsStream(<<>>) /\ ~Terminated(<<>>)
<1>1. ASSUME NEW a PROVE IsStream(<<a>>) /\ (a.op # "session_end" => ~Terminated(<<a>>))
  <2>1. <<a>> \in Seq({a}) /\ Range(<<a>>) = {a}
    BY DEF Range
  <2> QED BY <2>1 DEF IsStream, Terminated, SessionEnds
<1>2. ASSUME NEW a, NEW b
      PROVE  IsStream(<<a, b>>)
             /\ (a.op # "session_end" /\ b.op # "session_end" => ~Terminated(<<a, b>>))
  <2>1. <<a, b>> \in Seq({a, b}) /\ Range(<<a, b>>) = {a, b}
    BY DEF Range
  <2> QED BY <2>1 DEF IsStream, Terminated, SessionEnds
<1>3. IsStream(<<>>) /\ ~Terminated(<<>>)
  BY DEF IsStream, Terminated, SessionEnds
<1> QED BY <1>1, <1>2, <1>3

\* A stream that had no end and is given one has that one as its last.
LEMMA OneEnd ==
    ASSUME NEW s, NEW e, IsStream(s), ~Terminated(s), e.op = "session_end"
    PROVE  IsStream(s \o <<e>>) /\ Terminated(s \o <<e>>) /\ LastEnd(s \o <<e>>) = e
<1> DEFINE t == s \o <<e>>
<1>1. IsStream(<<e>>) /\ Len(<<e>>) = 1 /\ <<e>>[1] = e
  BY ShortStreams
<1>2. PICK n \in Nat : n = Len(s)
  BY <1>1, Concatenation
<1>3. IsStream(t) /\ DOMAIN t = 1 .. (n + 1) /\ t[n + 1] = e /\ \A i \in 1 .. n : t[i] = s[i]
  BY <1>1, <1>2, Concatenation
<1>4. \A i \in 1 .. n : s[i].op # "session_end"
  BY <1>1, <1>2, Concatenation DEF Terminated, SessionEnds
<1> HIDE DEF t
<1>5. SessionEnds(t) = {n + 1}
  <2>1. n + 1 \in SessionEnds(t)
    BY <1>3 DEF SessionEnds
  <2>2. ASSUME NEW i \in SessionEnds(t) PROVE i = n + 1
    <3>1. i \in 1 .. (n + 1) /\ t[i].op = "session_end"
      BY <1>3 DEF SessionEnds
    <3>2. i \notin 1 .. n
      BY <3>1, <1>3, <1>4
    <3> QED BY <3>1, <3>2
  <2> QED BY <2>1, <2>2
<1>6. Max({n + 1}) = n + 1
  BY DEF Max
<1>7. Terminated(t) /\ LastEnd(t) = e
  BY <1>3, <1>5, <1>6 DEF Terminated, LastEnd
<1> QED BY <1>3, <1>7 DEF t

\* No deed makes a recorder write a session_end.
LEMMA EventsEndNothing ==
    ASSUME NEW deed \in Deeds, NEW by, NEW on, NEW placed \in BOOLEAN
    PROVE  IsStream(Events(deed, by, on, placed)) /\ ~Terminated(Events(deed, by, on, placed))
<1>0. deed.does \in {"put", "alter", "consult", "connect", "lookup", "spawn"}
  BY DeedAssumption
<1> DEFINE Silent(s) == IsStream(s) /\ ~Terminated(s)
<1>1. \A b, kind, path, origin, exec, failed :
          WriteEvent(b, kind, path, origin, exec, failed).op # "session_end"
  BY DEF WriteEvent
<1>2. \A b, failed : ConnectEvent(b, deed, failed).op # "session_end"
  BY DEF ConnectEvent
<1>3. \A b : SpawnEvent(b, deed).op # "session_end"
  BY DEF SpawnEvent
<1>4. ASSUME NEW a, a.op # "session_end" PROVE Silent(<<a>>)
  BY <1>4, ShortStreams
<1>5. ASSUME NEW a, NEW b, a.op # "session_end", b.op # "session_end" PROVE Silent(<<a, b>>)
  BY <1>5, ShortStreams
<1>6. Silent(<<>>)
  BY ShortStreams
<1> HIDE DEF Silent
<1>7. Silent(StraceEvents(deed, on, placed))
  BY <1>1, <1>2, <1>3, <1>4, <1>5, <1>0 DEF StraceEvents
<1>8. Silent(AyaEvents(deed, on))
  <2>1. CASE deed.does = "put"
    <3> DEFINE path == SpelledPath(deed, on)
               origin == IF path.abs THEN "Absolute" ELSE "Unresolved"
               opened == <<WriteEvent("aya", "Open", path, origin, FALSE, deed.failed)>>
               written == IF deed.failed THEN <<>>
                          ELSE <<WriteEvent("aya", "Write", path, origin, FALSE, FALSE)>>
    <3>1. Silent(opened)
      BY <1>1, <1>4
    <3>2. Silent(written)
      BY <1>1, <1>4, <1>6
    <3>3. AyaEvents(deed, on) = opened \o written
      BY <2>1 DEF AyaEvents
    <3> HIDE DEF opened, written
    <3> QED BY <3>1, <3>2, <3>3, NoNewEnd DEF Silent
  <2>2. CASE deed.does # "put"
    BY <2>2, <1>1, <1>2, <1>3, <1>4, <1>6, <1>0 DEF AyaEvents
  <2> QED BY <2>1, <2>2
<1> QED BY <1>7, <1>8 DEF Events, Silent

\* What short streams hold.
LEMMA Ranges ==
    /\ Range(<<>>) = {}
    /\ \A a : Range(<<a>>) = {a}
    /\ \A a, b : Range(<<a, b>>) = {a, b}
  BY DEF Range

\* One event after another.
LEMMA ShortSequences == \A a, b : <<a>> \o <<>> = <<a>> /\ <<a>> \o <<b>> = <<a, b>>
<1> SUFFICES ASSUME NEW a, NEW b PROVE <<a>> \o <<>> = <<a>> /\ <<a>> \o <<b>> = <<a, b>>
  OBVIOUS
<1>1. <<a>> \o <<>> = <<a>>
  OBVIOUS
<1>2. <<a>> \o <<b>> = <<a, b>>
  <2> DEFINE u == <<a>> \o <<b>>
  <2>1. <<a>> \in Seq({a, b}) /\ <<b>> \in Seq({a, b})
    OBVIOUS
  <2>2. u \in Seq({a, b}) /\ Len(u) = 2 /\ u[1] = a /\ u[2] = b
    BY <2>1
  <2> HIDE DEF u
  <2>3. u = <<a, b>>
    BY <2>2
  <2> QED BY <2>3 DEF u
<1> QED BY <1>1, <1>2

\* A sequence of anything is a stream.
LEMMA StreamsAre == ASSUME NEW E, NEW s \in Seq(E) PROVE IsStream(s)
  BY DEF IsStream, Range

\* What a concatenation holds.
LEMMA RangeOfBoth ==
    ASSUME NEW s, NEW t, IsStream(s), IsStream(t)
    PROVE  Range(s \o t) = Range(s) \cup Range(t)
<1>1. PICK m \in Nat, n \in Nat : m = Len(s) /\ n = Len(t)
  BY Concatenation
<1>2. /\ DOMAIN s = 1 .. m /\ DOMAIN t = 1 .. n /\ DOMAIN (s \o t) = 1 .. (m + n)
      /\ \A i \in 1 .. m : (s \o t)[i] = s[i]
      /\ \A i \in 1 .. n : (s \o t)[m + i] = t[i]
  BY <1>1, Concatenation
<1> DEFINE u == s \o t
<1> HIDE DEF u
<1>3. ASSUME NEW e \in Range(u) PROVE e \in Range(s) \cup Range(t)
  <2>1. PICK i \in 1 .. (m + n) : e = u[i]
    BY <1>2, <1>3 DEF u, Range
  <2>2. CASE i <= m
    <3>1. i \in 1 .. m
      BY <2>1, <2>2
    <3> QED BY <3>1, <2>1, <1>2 DEF u, Range
  <2>3. CASE i > m
    <3>1. i - m \in 1 .. n /\ i = m + (i - m)
      BY <2>1, <2>3
    <3>2. u[m + (i - m)] = t[i - m]
      BY <1>2, <3>1 DEF u
    <3> QED BY <3>1, <3>2, <2>1, <1>2 DEF Range
  <2> QED BY <2>1, <2>2, <2>3
<1>4. ASSUME NEW e \in Range(s) PROVE e \in Range(u)
  <2>1. PICK i \in 1 .. m : e = s[i]
    BY <1>2, <1>4 DEF Range
  <2>2. i \in 1 .. (m + n)
    BY <2>1
  <2> QED BY <1>2, <2>1, <2>2 DEF u, Range
<1>5. ASSUME NEW e \in Range(t) PROVE e \in Range(u)
  <2>1. PICK i \in 1 .. n : e = t[i]
    BY <1>2, <1>5 DEF Range
  <2>2. m + i \in 1 .. (m + n)
    BY <2>1
  <2> QED BY <1>2, <2>1, <2>2 DEF u, Range
<1>6. Range(u) = Range(s) \cup Range(t)
  BY <1>3, <1>4, <1>5
<1> QED BY <1>6 DEF u

-----------------------------------------------------------------------------
(* Streams one after the other                                             *)

Less == {pair \in Nat \X Nat : pair[1] < pair[2]}

\* A set of numbers that is not empty has a least one.
LEMMA LeastElement ==
    ASSUME NEW S \in SUBSET Nat, S # {}
    PROVE  \E m \in S : \A k \in S : m <= k
<1>1. IsWellFoundedOn(Less, Nat)
  BY NatLessThanWellFounded DEF OpToRel, Less
<1>2. PICK m \in S : \A k \in S : ~(<<k, m>> \in Less)
  BY <1>1, WFMin
<1>3. \A k \in S : ~(k < m)
  BY <1>2 DEF Less
<1> QED BY <1>3

\* What the first so many streams, one after the other, come to.
Joined(f, streams, n) ==
    f = [i \in 1 .. n |-> IF i = 1 THEN streams[i] ELSE f[i-1] \o streams[i]]

HoldsThose(stream, streams, n) ==
    \A e : e \in Range(stream) <=> \E i \in 1 .. n : e \in Range(streams[i])

\* They come to something.
LEMMA JoinedExists ==
    ASSUME NEW streams, NEW n \in Nat
    PROVE  \E f : Joined(f, streams, n)
<1> DEFINE none == {k \in Nat : ~ \E f : Joined(f, streams, k)}
<1> SUFFICES ASSUME none # {} PROVE FALSE
  OBVIOUS
<1>1. none \in SUBSET Nat
  OBVIOUS
<1>2. PICK m \in none : \A k \in none : m <= k
  BY <1>1, LeastElement
<1>3. CASE m = 0
  <2>1. Joined([i \in 1 .. 0 |-> <<>>], streams, 0)
    BY DEF Joined
  <2> QED BY <1>2, <1>3, <2>1
<1>4. CASE m # 0
  <2>1. m \in Nat /\ m - 1 \in Nat /\ ~(m <= m - 1)
    BY <1>2, <1>4
  <2>2. PICK f : Joined(f, streams, m - 1)
    BY <1>2, <2>1
  <2> DEFINE g == [i \in 1 .. m |-> IF i = m THEN IF i = 1 THEN streams[i] ELSE f[i-1] \o streams[i] ELSE f[i]]
  <2>3. \A i \in 1 .. m : i # m => i \in 1 .. (m - 1) /\ f[i] = IF i = 1 THEN streams[i] ELSE f[i-1] \o streams[i]
    <3>1. \A i \in 1 .. (m - 1) : f[i] = IF i = 1 THEN streams[i] ELSE f[i-1] \o streams[i]
      BY <2>2 DEF Joined
    <3>2. \A i \in 1 .. m : i # m => i \in 1 .. (m - 1)
      BY <2>1
    <3> QED BY <3>1, <3>2
  <2>4. \A i \in 1 .. m : i # 1 => i - 1 \in 1 .. m /\ i - 1 # m /\ g[i-1] = f[i-1]
    BY <2>1
  <2>5. \A i \in 1 .. m : g[i] = IF i = 1 THEN streams[i] ELSE g[i-1] \o streams[i]
    BY <2>3, <2>4
  <2>6. g = [i \in 1 .. m |-> g[i]]
    OBVIOUS
  <2> HIDE DEF g
  <2>7. Joined(g, streams, m)
    BY <2>5, <2>6 DEF Joined
  <2> QED BY <1>2, <2>7
<1> QED BY <1>3, <1>4

\* They hold what each holds.
LEMMA JoinedHolds ==
    ASSUME NEW E, NEW streams, NEW n \in Nat, \A i \in 1 .. n : streams[i] \in Seq(E),
           NEW f, Joined(f, streams, n), NEW k \in 1 .. n
    PROVE  /\ f[k] \in Seq(E)
           /\ HoldsThose(f[k], streams, k)
<1> DEFINE holds(j) ==
               /\ f[j] \in Seq(E)
               /\ HoldsThose(f[j], streams, j)
           wrong == {j \in 1 .. n : ~holds(j)}
<1> SUFFICES ASSUME wrong # {} PROVE FALSE
  OBVIOUS
<1>1. wrong \in SUBSET Nat
  OBVIOUS
<1>2. PICK m \in wrong : \A j \in wrong : m <= j
  BY <1>1, LeastElement
<1>3. m \in 1 .. n /\ ~holds(m)
  BY <1>2
<1>4. CASE m = 1
  <2>1. f[1] = streams[1] /\ streams[1] \in Seq(E)
    BY <1>3, <1>4 DEF Joined
  <2>2. HoldsThose(streams[1], streams, 1)
    BY DEF HoldsThose
  <2> QED BY <1>3, <1>4, <2>1, <2>2
<1>5. CASE m # 1
  <2>1. m - 1 \in 1 .. n /\ ~(m <= m - 1) /\ 1 .. m = (1 .. (m - 1)) \cup {m}
    BY <1>3, <1>5
  <2>2. holds(m - 1)
    BY <1>2, <2>1
  <2>3. f[m] = f[m - 1] \o streams[m] /\ streams[m] \in Seq(E)
    BY <1>3, <1>5 DEF Joined
  <2>4. f[m - 1] \in Seq(E) /\ IsStream(f[m - 1]) /\ IsStream(streams[m])
    BY <2>2, <2>3, StreamsAre
  <2>5. Range(f[m]) = Range(f[m - 1]) \cup Range(streams[m])
    BY <2>3, <2>4, RangeOfBoth
  <2>6. f[m] \in Seq(E)
    BY <2>3, <2>4
  <2> HIDE DEF wrong
  <2>7. HoldsThose(f[m], streams, m)
    BY <2>1, <2>2, <2>5 DEF HoldsThose
  <2> QED BY <1>3, <2>6, <2>7
<1> QED BY <1>4, <1>5

\* What streams one after the other hold is what each holds.
LEMMA FlattenHolds ==
    ASSUME NEW E, NEW streams \in Seq(Seq(E))
    PROVE  /\ FlattenSeq(streams) \in Seq(E)
           /\ \A e : e \in Range(FlattenSeq(streams)) <=> \E i \in DOMAIN streams : e \in Range(streams[i])
<1>1. PICK n \in Nat : n = Len(streams) /\ DOMAIN streams = 1 .. n
  OBVIOUS
<1>2. CASE n = 0
  <2>1. FlattenSeq(streams) = streams /\ streams = <<>>
    BY <1>1, <1>2 DEF FlattenSeq
  <2>2. DOMAIN streams = {}
    BY <1>1, <1>2
  <2> QED BY <2>1, <2>2, Ranges
<1>3. CASE n # 0
  <2> DEFINE joined == CHOOSE f : f = [i \in 1 .. n |-> IF i = 1 THEN streams[i] ELSE f[i-1] \o streams[i]]
  <2>1. FlattenSeq(streams) = joined[n]
    BY <1>1, <1>3 DEF FlattenSeq
  <2>2. \E f : f = [i \in 1 .. n |-> IF i = 1 THEN streams[i] ELSE f[i-1] \o streams[i]]
    BY JoinedExists DEF Joined
  <2>3. Joined(joined, streams, n)
    BY <2>2 DEF Joined
  <2>4. n \in 1 .. n /\ \A i \in 1 .. n : streams[i] \in Seq(E)
    BY <1>1, <1>3
  <2> HIDE DEF joined
  <2>5. /\ joined[n] \in Seq(E)
        /\ HoldsThose(joined[n], streams, n)
    BY <2>3, <2>4, JoinedHolds
  <2> QED BY <1>1, <2>1, <2>5 DEF HoldsThose
<1> QED BY <1>2, <1>3

\* A path below a directory ends as it is spelled from there.
LEMMA EndsAsSpelled ==
    ASSUME NEW S, NEW s \in Seq(S), NEW t \in Seq(S)
    PROVE  IsSuffix(t, s \o t)
<1>1. PICK m \in Nat, n \in Nat : m = Len(s) /\ n = Len(t)
  OBVIOUS
<1> DEFINE u == s \o t
<1>2. u \in Seq(S) /\ Len(u) = m + n /\ \A i \in 1 .. n : u[m + i] = t[i]
  BY <1>1
<1> HIDE DEF u
<1>3. Reverse(t) = [i \in 1 .. n |-> t[(n - i) + 1]]
  BY <1>1 DEF Reverse
<1>4. Reverse(u) = [i \in 1 .. (m + n) |-> u[((m + n) - i) + 1]]
  BY <1>2 DEF Reverse
<1>5. \A i \in 1 .. n : /\ i \in 1 .. (m + n) /\ (n - i) + 1 \in 1 .. n
                        /\ ((m + n) - i) + 1 = m + ((n - i) + 1)
  OBVIOUS
<1>6. \A i \in 1 .. n : Reverse(u)[i] = Reverse(t)[i]
  BY <1>2, <1>3, <1>4, <1>5
<1>7. Reverse(t) \in Seq(S) /\ Len(Reverse(t)) = n
  <2>1. \A i \in 1 .. n : t[(n - i) + 1] \in S
    BY <1>1, <1>5
  <2> QED BY <1>3, <2>1
<1>8. Reverse(u) \in Seq(S) /\ Len(Reverse(u)) = m + n
  <2>1. \A i \in 1 .. (m + n) : ((m + n) - i) + 1 \in 1 .. (m + n)
    OBVIOUS
  <2>2. \A i \in 1 .. (m + n) : u[((m + n) - i) + 1] \in S
    BY <1>2, <2>1
  <2> QED BY <1>4, <2>2
<1> DEFINE r == Reverse(t)
           q == Reverse(u)
<1> HIDE DEF r, q
<1>9. r \in Seq(S) /\ q \in Seq(S) /\ Len(r) = n /\ Len(q) = m + n /\ \A i \in 1 .. n : q[i] = r[i]
  BY <1>6, <1>7, <1>8 DEF r, q
<1>10. SubSeq(r, 1, n) = SubSeq(q, 1, n)
  BY <1>9
<1>11. IsPrefix(r, q)
  BY <1>9, <1>10 DEF IsPrefix
<1> QED BY <1>11 DEF IsSuffix, r, q, u

-----------------------------------------------------------------------------
(* What the files hold                                                     *)

Phases == {"waiting", "recording", "ended", "killed"}

TypeOK ==
    /\ phase \in [Sides -> Phases]
    /\ lost \in [Sides -> Nat]
    /\ file \in [Sides -> [lines : {file[side].lines : side \in Sides}, torn : BOOLEAN]]
    /\ \A side \in Sides : IsStream(file[side].lines)

\* A file has an end only once its recording has ended, and the end says complete
\* exactly when nothing was lost.
EndIsTrue(side) ==
    IF phase[side] = "ended"
    THEN /\ Terminated(file[side].lines)
         /\ LastEnd(file[side].lines).complete <=> lost[side] = 0
    ELSE ~Terminated(file[side].lines)

\* Only a kill leaves a torn line.
TornByKill(side) == file[side].torn => phase[side] = "killed"

FileInv == TypeOK /\ \A side \in Sides : EndIsTrue(side) /\ TornByKill(side)

\* Nothing has been written yet.
LEMMA FilesStartEmpty == Init => FileInv
<1> SUFFICES ASSUME Init PROVE FileInv
  OBVIOUS
<1>1. \A side \in Sides : file[side] = [lines |-> <<>>, torn |-> FALSE] /\ phase[side] = "waiting"
  BY DEF Init
<1>2. TypeOK
  <2>1. phase \in [Sides -> Phases] /\ lost \in [Sides -> Nat]
    BY DEF Init, Phases
  <2>2. \A side \in Sides : IsStream(file[side].lines)
    BY <1>1, ShortStreams
  <2>3. file \in [Sides -> [lines : {file[side].lines : side \in Sides}, torn : BOOLEAN]]
    BY DEF Init
  <2> QED BY <2>1, <2>2, <2>3 DEF TypeOK
<1>3. \A side \in Sides : EndIsTrue(side) /\ TornByKill(side)
  BY <1>1, ShortStreams DEF EndIsTrue, TornByKill
<1> QED BY <1>2, <1>3 DEF FileInv

\* A file that another side's step leaves alone stays as true as it was.
LEMMA OtherSide ==
    ASSUME NEW side \in Sides, EndIsTrue(side), TornByKill(side),
           phase'[side] = phase[side], lost'[side] = lost[side], file'[side] = file[side]
    PROVE  EndIsTrue(side)' /\ TornByKill(side)'
  BY DEF EndIsTrue, TornByKill

\* What appending to one file makes of the files.
LEMMA Appended ==
    ASSUME TypeOK, NEW side \in Sides, NEW events, IsStream(events), Append1(side, events)
    PROVE  /\ file' \in [Sides -> [lines : {file'[s].lines : s \in Sides}, torn : BOOLEAN]]
           /\ \A s \in Sides : IsStream(file'[s].lines)
           /\ file'[side].lines = file[side].lines \o events
           /\ file'[side].torn = file[side].torn
           /\ \A s \in Sides \ {side} : file'[s] = file[s]
<1> DEFINE new == file[side].lines \o events
<1>1. IsStream(new)
  BY Concatenation DEF TypeOK
<1>2. DOMAIN file = Sides
  BY DEF TypeOK
<1>3. /\ file' = [file EXCEPT ![side] = [file[side] EXCEPT !.lines = new]]
  BY DEF Append1
<1> HIDE DEF new
<1>4. file[side] \in [lines : {file[s].lines : s \in Sides}, torn : BOOLEAN]
  BY DEF TypeOK
<1>5. file'[side] = [lines |-> new, torn |-> file[side].torn] /\ file[side].torn \in BOOLEAN
  BY <1>2, <1>3, <1>4
<1>6. \A s \in Sides \ {side} : file'[s] = file[s]
  BY <1>2, <1>3
<1>7. \A s \in Sides : IsStream(file'[s].lines)
  BY <1>1, <1>5, <1>6 DEF TypeOK
<1>8. file' \in [Sides -> [lines : {file'[s].lines : s \in Sides}, torn : BOOLEAN]]
  <2>1. ASSUME NEW s \in Sides
        PROVE  file'[s] \in [lines : {file'[u].lines : u \in Sides}, torn : BOOLEAN]
    <3>1. CASE s = side
      BY <3>1, <1>5
    <3>2. CASE s # side
      <4>1. file'[s] = file[s] /\ file[s] \in [lines : {file[u].lines : u \in Sides}, torn : BOOLEAN]
        BY <3>2, <1>6 DEF TypeOK
      <4>2. file[s] = [lines |-> file[s].lines, torn |-> file[s].torn] /\ file[s].torn \in BOOLEAN
        BY <4>1
      <4> QED BY <4>1, <4>2
    <3> QED BY <3>1, <3>2
  <2>2. file' = [s \in Sides |-> file'[s]]
    BY <1>2, <1>3
  <2> QED BY <2>1, <2>2
<1> QED BY <1>5, <1>6, <1>7, <1>8 DEF new

\* A step leaves every file true to its recording.
LEMMA FilesStayTrue == FileInv /\ [Next]_vars => FileInv'
<1> SUFFICES ASSUME FileInv, [Next]_vars PROVE FileInv'
  OBVIOUS
<1>0. TypeOK /\ \A s \in Sides : EndIsTrue(s) /\ TornByKill(s)
  BY DEF FileInv
<1> DEFINE Files == file' \in [Sides -> [lines : {file'[s].lines : s \in Sides}, torn : BOOLEAN]]
                    /\ \A s \in Sides : IsStream(file'[s].lines)
<1>1. ASSUME NEW side \in Sides, Start(side) PROVE FileInv'
  <2> DEFINE events == <<StartEvent(backend[side], host[side])>>
  <2>1. IsStream(events) /\ ~Terminated(events)
    BY ShortStreams DEF StartEvent
  <2>2. Append1(side, events)
    BY <1>1 DEF Start
  <2> HIDE DEF events
  <2>3. /\ Files /\ file'[side].lines = file[side].lines \o events /\ file'[side].torn = file[side].torn
        /\ \A s \in Sides \ {side} : file'[s] = file[s]
    BY <1>0, <2>1, <2>2, Appended
  <2>4. /\ phase' = [phase EXCEPT ![side] = "recording"] /\ lost' = lost
        /\ phase[side] = "waiting"
    BY <1>1 DEF Start
  <2>5. phase'[side] = "recording" /\ \A s \in Sides \ {side} : phase'[s] = phase[s]
    BY <1>0, <2>4 DEF TypeOK
  <2>6. TypeOK'
    BY <1>0, <2>3, <2>4 DEF TypeOK, Phases
  <2>7. EndIsTrue(side)' /\ TornByKill(side)'
    <3>1. ~Terminated(file[side].lines) /\ IsStream(file[side].lines) /\ ~file[side].torn
      BY <1>0, <2>4 DEF EndIsTrue, TornByKill, TypeOK
    <3>2. ~Terminated(file'[side].lines)
      BY <3>1, <2>1, <2>3, NoNewEnd
    <3> QED BY <3>1, <3>2, <2>3, <2>5 DEF EndIsTrue, TornByKill
  <2>8. \A s \in Sides \ {side} : EndIsTrue(s)' /\ TornByKill(s)'
    BY <1>0, <2>3, <2>4, <2>5, OtherSide
  <2> QED BY <2>6, <2>7, <2>8 DEF FileInv
<1>2. ASSUME NEW side \in Sides, NEW deed \in Deeds, NEW placed \in BOOLEAN, Happen(side, deed, placed)
      PROVE  FileInv'
  <2> DEFINE events == Events(deed, backend[side], host[side], placed)
  <2>1. IsStream(events) /\ ~Terminated(events)
    BY EventsEndNothing
  <2>2. Append1(side, events)
    BY <1>2 DEF Happen
  <2> HIDE DEF events
  <2>3. /\ Files /\ file'[side].lines = file[side].lines \o events /\ file'[side].torn = file[side].torn
        /\ \A s \in Sides \ {side} : file'[s] = file[s]
    BY <1>0, <2>1, <2>2, Appended
  <2>4. phase' = phase /\ lost' = lost /\ phase[side] = "recording"
    BY <1>2 DEF Happen
  <2>6. TypeOK'
    BY <1>0, <2>3, <2>4 DEF TypeOK
  <2>7. EndIsTrue(side)' /\ TornByKill(side)'
    <3>1. ~Terminated(file[side].lines) /\ IsStream(file[side].lines) /\ ~file[side].torn
      BY <1>0, <2>4 DEF EndIsTrue, TornByKill, TypeOK
    <3>2. ~Terminated(file'[side].lines)
      BY <3>1, <2>1, <2>3, NoNewEnd
    <3> QED BY <3>1, <3>2, <2>3, <2>4 DEF EndIsTrue, TornByKill
  <2>8. \A s \in Sides \ {side} : EndIsTrue(s)' /\ TornByKill(s)'
    BY <1>0, <2>3, <2>4, OtherSide
  <2> QED BY <2>6, <2>7, <2>8 DEF FileInv
<1>3. ASSUME NEW side \in Sides, NEW deed \in Deeds, Lose(side, deed) PROVE FileInv'
  <2>1. /\ phase' = phase /\ file' = file /\ phase[side] = "recording"
        /\ lost' = [lost EXCEPT ![side] = @ + 1]
    BY <1>3 DEF Lose
  <2>2. TypeOK'
    BY <1>0, <2>1 DEF TypeOK
  <2>3. EndIsTrue(side)' /\ TornByKill(side)'
    BY <1>0, <2>1 DEF EndIsTrue, TornByKill
  <2>4. \A s \in Sides \ {side} : lost'[s] = lost[s]
    BY <1>0, <2>1 DEF TypeOK
  <2>5. \A s \in Sides \ {side} : EndIsTrue(s)' /\ TornByKill(s)'
    BY <1>0, <2>1, <2>4, OtherSide
  <2> QED BY <2>2, <2>3, <2>5 DEF FileInv
<1>4. ASSUME NEW side \in Sides, End(side) PROVE FileInv'
  <2> DEFINE end == EndEvent(backend[side], lost[side])
  <2>1. /\ end.op = "session_end"
        /\ end.complete <=> lost[side] = 0
    BY DEF EndEvent
  <2>2. Append1(side, <<end>>)
    BY <1>4 DEF End
  <2> HIDE DEF end
  <2>3. IsStream(<<end>>)
    BY ShortStreams
  <2>4. /\ Files /\ file'[side].lines = file[side].lines \o <<end>> /\ file'[side].torn = file[side].torn
        /\ \A s \in Sides \ {side} : file'[s] = file[s]
    BY <1>0, <2>2, <2>3, Appended
  <2>5. /\ phase' = [phase EXCEPT ![side] = "ended"] /\ lost' = lost
        /\ phase[side] = "recording"
    BY <1>4 DEF End
  <2>6. phase'[side] = "ended" /\ \A s \in Sides \ {side} : phase'[s] = phase[s]
    BY <1>0, <2>5 DEF TypeOK
  <2>7. TypeOK'
    BY <1>0, <2>4, <2>5 DEF TypeOK, Phases
  <2>8. EndIsTrue(side)' /\ TornByKill(side)'
    <3>1. ~Terminated(file[side].lines) /\ IsStream(file[side].lines) /\ ~file[side].torn
      BY <1>0, <2>5 DEF EndIsTrue, TornByKill, TypeOK
    <3>2. Terminated(file'[side].lines) /\ LastEnd(file'[side].lines) = end
      BY <3>1, <2>1, <2>4, OneEnd
    <3> QED BY <3>1, <3>2, <2>1, <2>4, <2>5, <2>6 DEF EndIsTrue, TornByKill
  <2>9. \A s \in Sides \ {side} : EndIsTrue(s)' /\ TornByKill(s)'
    BY <1>0, <2>4, <2>5, <2>6, OtherSide
  <2> QED BY <2>7, <2>8, <2>9 DEF FileInv
<1>5. ASSUME NEW side \in Sides, Kill(side) PROVE FileInv'
  <2>1. PICK torn \in BOOLEAN : file' = [file EXCEPT ![side].torn = torn]
    BY <1>5 DEF Kill
  <2>2. /\ phase' = [phase EXCEPT ![side] = "killed"] /\ lost' = lost
        /\ phase[side] = "recording"
    BY <1>5 DEF Kill
  <2>3. phase'[side] = "killed" /\ \A s \in Sides \ {side} : phase'[s] = phase[s]
    BY <1>0, <2>2 DEF TypeOK
  <2>4. file[side] \in [lines : {file[s].lines : s \in Sides}, torn : BOOLEAN] /\ DOMAIN file = Sides
    BY <1>0 DEF TypeOK
  <2>5. file'[side] = [lines |-> file[side].lines, torn |-> torn]
    BY <2>1, <2>4
  <2>6. \A s \in Sides \ {side} : file'[s] = file[s]
    BY <2>1, <2>4
  <2>7. \A s \in Sides : file'[s].lines = file[s].lines
    BY <2>5, <2>6
  <2>8. TypeOK'
    <3>1. {file'[s].lines : s \in Sides} = {file[s].lines : s \in Sides}
      BY <2>7
    <3>2. ASSUME NEW s \in Sides
          PROVE  file'[s] \in [lines : {file[u].lines : u \in Sides}, torn : BOOLEAN]
      <4>1. file[s] \in [lines : {file[u].lines : u \in Sides}, torn : BOOLEAN]
        BY <1>0 DEF TypeOK
      <4>2. CASE s = side
        BY <4>2, <2>5
      <4>3. CASE s # side
        BY <4>1, <4>3, <2>6
      <4> QED BY <4>2, <4>3
    <3>3. file' = [s \in Sides |-> file'[s]]
      BY <2>1, <2>4
    <3>4. file' \in [Sides -> [lines : {file'[s].lines : s \in Sides}, torn : BOOLEAN]]
      BY <3>1, <3>2, <3>3
    <3>5. \A s \in Sides : IsStream(file'[s].lines)
      BY <1>0, <2>7 DEF TypeOK
    <3> QED BY <1>0, <2>2, <3>4, <3>5 DEF TypeOK, Phases
  <2>9. EndIsTrue(side)' /\ TornByKill(side)'
    BY <1>0, <2>2, <2>3, <2>5 DEF EndIsTrue, TornByKill
  <2>10. \A s \in Sides \ {side} : EndIsTrue(s)' /\ TornByKill(s)'
    BY <1>0, <2>2, <2>3, <2>6, OtherSide
  <2> QED BY <2>8, <2>9, <2>10 DEF FileInv
<1>6. CASE UNCHANGED vars
  BY <1>0, <1>6 DEF vars, FileInv, TypeOK, EndIsTrue, TornByKill
<1> QED BY <1>1, <1>2, <1>3, <1>4, <1>5, <1>6 DEF Next

-----------------------------------------------------------------------------
(* The readers                                                             *)

Finished(side) == phase[side] \in {"ended", "killed"}
Trusted(f) == ~f.torn /\ Terminated(f.lines) /\ LastEnd(f.lines).complete

\* What a file ends with tells whether its recording is whole.
LEMMA TrustedIsWhole ==
    ASSUME FileInv, NEW side \in Sides, Finished(side)
    PROVE  Trusted(file[side]) <=> Whole(side)
  BY DEF FileInv, EndIsTrue, TornByKill, Trusted, Whole, Finished

\* verify and record read the summary of the stream.
LEMMA VerifyTrusts ==
    ASSUME NEW f PROVE SummaryExit(f, FALSE) = EXIT_SUCCESS <=> Trusted(f)
<1> DEFINE summary == SummarizeStream(f)
<1>1. /\ summary.error <=> f.torn \/ ~Terminated(f.lines)
      /\ summary.partial <=> ~Terminated(f.lines) \/ ~LastEnd(f.lines).complete
  BY DEF SummarizeStream
<1>2. SummaryExit(f, FALSE) = IF summary.error THEN 1 ELSE IF ~summary.partial THEN 0 ELSE 3
  BY DEF SummaryExit, EXIT_SUCCESS, EXIT_FAILURE, EXIT_PARTIAL
<1> HIDE DEF summary
<1>3. 1 # 0 /\ 3 # 0
  OBVIOUS
<1>4. SummaryExit(f, FALSE) = 0 <=> ~summary.error /\ ~summary.partial
  BY <1>2, <1>3, Zenon
<1> QED BY <1>1, <1>4 DEF Trusted, EXIT_SUCCESS

\* The registry refuses what is torn or not complete.
LEMMA PushTrusts ==
    ASSUME NEW f PROVE SnapshotPush(f) = EXIT_SUCCESS <=> Trusted(f)
<1>1. StreamFacts(f.lines).complete <=> Terminated(f.lines) /\ LastEnd(f.lines).complete
  BY DEF StreamFacts
<1>2. PushRefused(f) <=> ~Trusted(f)
  BY <1>1 DEF PushRefused, Trusted
<1> QED BY <1>2 DEF SnapshotPush, Passes, EXIT_SUCCESS, EXIT_FAILURE

\* A summary of the store names what is torn and counts what is incomplete.
LEMMA SummaryTrusts ==
    ASSUME NEW f PROVE SnapshotSummarize(<<f>>) = EXIT_SUCCESS <=> Trusted(f)
<1> DEFINE files == <<f>>
           readable == {i \in DOMAIN files : ~files[i].torn}
           profile == [i \in readable |-> ProfileOf(files[i].lines)]
           partial == {i \in readable : ~profile[i].complete}
<1>1. DOMAIN files = {1} /\ files[1] = f /\ Len(files) = 1
  OBVIOUS
<1>2. SnapshotSummarize(files) = EXIT_SUCCESS <=> Cardinality(readable) = Len(files) /\ Cardinality(partial) = 0
  BY DEF SnapshotSummarize, IsIntact, CorpusSummary, Passes, EXIT_SUCCESS, EXIT_FAILURE
<1>3. readable \subseteq {1} /\ partial \subseteq {1}
  BY <1>1
<1>4. \A S \in SUBSET {1} : IsFiniteSet(S) /\ (Cardinality(S) = 1 <=> 1 \in S) /\ (Cardinality(S) = 0 <=> 1 \notin S)
  <2> SUFFICES ASSUME NEW S \in SUBSET {1}
               PROVE  IsFiniteSet(S) /\ (Cardinality(S) = 1 <=> 1 \in S) /\ (Cardinality(S) = 0 <=> 1 \notin S)
    OBVIOUS
  <2>1. S = {} \/ S = {1}
    OBVIOUS
  <2>2. Cardinality({}) = 0 /\ IsFiniteSet({})
    BY FS_EmptySet
  <2>3. Cardinality({1}) = 1 /\ IsFiniteSet({1})
    BY FS_Singleton
  <2>4. CASE S = {}
    BY <2>2, <2>4
  <2>5. CASE S = {1}
    BY <2>3, <2>5
  <2> QED BY <2>1, <2>4, <2>5
<1>5. 1 \in readable <=> ~f.torn
  BY <1>1
<1>6. 1 \in readable => profile[1].complete = (Terminated(f.lines) /\ LastEnd(f.lines).complete)
  BY <1>1 DEF ProfileOf
<1>7. 1 \in partial <=> ~f.torn /\ ~(Terminated(f.lines) /\ LastEnd(f.lines).complete)
  BY <1>5, <1>6
<1> HIDE DEF readable, profile, partial, files
<1> QED BY <1>1, <1>2, <1>3, <1>4, <1>5, <1>7 DEF Trusted, files

\* Diff answers only for two recordings that are both complete.
LEMMA DiffTrusts ==
    ASSUME NEW files, NEW side \in Sides, Diff(files, FALSE).exit = EXIT_SUCCESS
    PROVE  Trusted(files[side])
<1>1. \A s \in Sides : ~files[s].torn
  BY DEF Diff, EXIT_SUCCESS, EXIT_FAILURE
<1>2. Comparable(DiffVersions(files))
  BY <1>1 DEF Diff, Passes, EXIT_SUCCESS, EXIT_FAILURE
<1>3. Blockers([s \in Sides |-> ProfileOf(files[s].lines)]) = {}
  BY <1>2 DEF Comparable, DiffVersions, Compare
<1>4. ProfileOf(files[side].lines).complete
  BY <1>3 DEF Blockers
<1> QED BY <1>1, <1>4 DEF ProfileOf, Trusted

\* Parity fails on an input that is not complete.
LEMMA ParityTrusts ==
    ASSUME NEW f, NEW g, ParityOf(f, g) = EXIT_SUCCESS PROVE Trusted(f) /\ Trusted(g)
<1>1. ~f.torn /\ ~g.torn /\ ~Completeness(f.lines).partial /\ ~Completeness(g.lines).partial
  BY DEF ParityOf, ParityPassed, Passes, EXIT_SUCCESS, EXIT_FAILURE
<1>2. ASSUME NEW stream, ~Completeness(stream).partial PROVE Terminated(stream) /\ LastEnd(stream).complete
  <2>1. Terminated(stream)
    BY <1>2 DEF Completeness
  <2>2. Completeness(stream).partial <=> ~LastEnd(stream).complete
    BY <2>1 DEF Completeness
  <2> QED BY <1>2, <2>1, <2>2
<1> QED BY <1>1, <1>2 DEF Trusted

\* Every surface of the report says what the stream's end says.
LEMMA ReportTells ==
    ASSUME NEW f, NEW threshold, ~Trusted(f), Report(Catalog, f, threshold).written
    PROVE  LET report == Report(Catalog, f, threshold)
           IN  /\ report.markdown.badge /\ report.html.card.badge /\ report.html.log.cut_short
               /\ report.html.footer # "cleanly"
               /\ ~report.sarif.execution_successful
               /\ report.partial
<1> DEFINE a == Analysis(Catalog, f.lines)
           report == Report(Catalog, f, threshold)
<1>1. ~f.torn /\ ValidCatalog(Catalog)
  BY DEF Report
<1>2. a.partial = Completeness(f.lines).partial
  BY DEF Analysis
<1>3. a.partial
  BY <1>1, <1>2 DEF Completeness, Trusted
<1>4. /\ report.markdown = MarkdownPage(a) /\ report.sarif = SarifDocument(a)
      /\ report.html = HtmlPage(a, f.lines) /\ report.partial = a.partial
  BY <1>1 DEF Report
<1> HIDE DEF a, report
<1>5. ShowsPartialBadge(a)
  BY <1>3 DEF ShowsPartialBadge, Verdict
<1>6. report.markdown.badge /\ report.html.card.badge
  BY <1>4, <1>5 DEF MarkdownPage, HtmlPage, ScoreCard
<1>7. report.html.log.cut_short
  BY <1>3, <1>4 DEF HtmlPage, SignalLog
<1>8. report.html.footer # "cleanly"
  <2>1. report.html.footer = Footer(f.lines)
    BY <1>4 DEF HtmlPage
  <2> QED BY <2>1, <1>1 DEF Footer, Trusted
<1>9. ~report.sarif.execution_successful
  <2>1. SarifDocument(a).execution_successful <=> ~a.partial
    BY DEF SarifDocument
  <2> QED BY <2>1, <1>3, <1>4
<1> QED BY <1>3, <1>4, <1>6, <1>7, <1>8, <1>9 DEF report

-----------------------------------------------------------------------------
(* Partial and whole                                                       *)

\* The files of a reachable state are true to their recordings.
LEMMA FilesAreTrue == Spec => []FileInv
  BY FilesStartEmpty, FilesStayTrue, PTL DEF Spec

\* A recording that lacks anything is taken for whole by no reader: not by
\* verify, the registry or the comparisons, nor on any surface of the report
\* (session_end is the last thing written, and every reader looks for it).
THEOREM NothingPartialPasses == Spec => []PartialReachesEveryReader
<1>1. ASSUME FileInv PROVE PartialReachesEveryReader
  <2> SUFFICES ASSUME NEW side \in Sides, phase[side] \in {"ended", "killed"}, ~Whole(side)
               PROVE  LET report == ReportOf(side)
                      IN  /\ Verify(file[side], FALSE) # EXIT_SUCCESS
                          /\ Record(backend[side], file[side], FALSE) # EXIT_SUCCESS
                          /\ SnapshotPush(file[side]) # EXIT_SUCCESS
                          /\ SnapshotSummarize(<<file[side]>>) # EXIT_SUCCESS
                          /\ phase["after"] \in {"ended", "killed"} => Diff(file, FALSE).exit # EXIT_SUCCESS
                          /\ ParityOf(file[side], file[side]) # EXIT_SUCCESS
                          /\ report.written =>
                                 /\ report.markdown.badge /\ report.html.card.badge
                                 /\ report.html.log.cut_short
                                 /\ report.html.footer # "cleanly"
                                 /\ ~report.sarif.execution_successful
                                 /\ report.partial
    BY DEF PartialReachesEveryReader
  <2>1. ~Trusted(file[side])
    BY <1>1, TrustedIsWhole DEF Finished
  <2>2. Verify(file[side], FALSE) # EXIT_SUCCESS /\ Record(backend[side], file[side], FALSE) # EXIT_SUCCESS
    BY <2>1, VerifyTrusts DEF Verify, Record, RecordAya, RecordStrace
  <2>3. SnapshotPush(file[side]) # EXIT_SUCCESS /\ SnapshotSummarize(<<file[side]>>) # EXIT_SUCCESS
    BY <2>1, PushTrusts, SummaryTrusts
  <2>4. Diff(file, FALSE).exit # EXIT_SUCCESS /\ ParityOf(file[side], file[side]) # EXIT_SUCCESS
    BY <2>1, DiffTrusts, ParityTrusts
  <2>5. ReportOf(side) = Report(Catalog, file[side], NoThreshold)
    BY DEF ReportOf
  <2> QED BY <2>1, <2>2, <2>3, <2>4, <2>5, ReportTells
<1> QED BY <1>1, FilesAreTrue, PTL

\* And what is whole is refused by none of verify, record, the registry's push
\* and its summary, whichever recorder it comes from.
THEOREM WholeIsAccepted ==
    Spec => [](\A side \in Sides : Whole(side) =>
                   /\ Verify(file[side], FALSE) = EXIT_SUCCESS
                   /\ Record(backend[side], file[side], TRUE) = EXIT_SUCCESS
                   /\ SnapshotPush(file[side]) = EXIT_SUCCESS
                   /\ SnapshotSummarize(<<file[side]>>) = EXIT_SUCCESS)
<1> DEFINE Accepted(side) ==
               /\ Verify(file[side], FALSE) = EXIT_SUCCESS
               /\ Record(backend[side], file[side], TRUE) = EXIT_SUCCESS
               /\ SnapshotPush(file[side]) = EXIT_SUCCESS
               /\ SnapshotSummarize(<<file[side]>>) = EXIT_SUCCESS
<1>1. ASSUME FileInv PROVE \A side \in Sides : Whole(side) => Accepted(side)
  <2> SUFFICES ASSUME NEW side \in Sides, Whole(side) PROVE Accepted(side)
    OBVIOUS
  <2>1. Trusted(file[side])
    BY <1>1, TrustedIsWhole DEF Finished, Whole
  <2>2. SummaryExit(file[side], TRUE) = EXIT_SUCCESS
    BY <2>1 DEF SummaryExit, SummarizeStream, Trusted
  <2> QED BY <2>1, <2>2, VerifyTrusts, PushTrusts, SummaryTrusts
          DEF Verify, Record, RecordAya, RecordStrace
<1> QED BY <1>1, FilesAreTrue, PTL

-----------------------------------------------------------------------------
(* Where a deed was done                                                   *)

\* The deeds that have a path.
FileDeeds == {deed \in Deeds : OnFiles(deed)}

\* The zone order, by its places.
LEMMA ZonesInOrder ==
    /\ DOMAIN ZoneOrder = 1 .. 4 /\ Len(ZoneOrder) = 4
    /\ Range(ZoneOrder) = {"project", "cache", "home", "tmp"}
    /\ \A i \in 1 .. 4 : ZoneOrder[i] \in Range(ZoneOrder)
    /\ \A i, j \in 1 .. 4 : ZoneOrder[i] = ZoneOrder[j] => i = j
  BY DEF ZoneOrder, Range

\* The least of a set of naturals that has one.
LEMMA LeastIs ==
    ASSUME NEW S \in SUBSET Nat, NEW m \in S, \A i \in S : m <= i
    PROVE  Min(S) = m
<1>1. PICK n : n = Min(S) /\ n \in S /\ \A i \in S : n <= i
  BY DEF Min
<1>2. n \in Nat /\ m \in Nat /\ n <= m /\ m <= n
  BY <1>1
<1> QED BY <1>1, <1>2

\* Where a path is placed that was resolved and is nowhere in the runtime's directories.
LEMMA PlacedByFirst ==
    ASSUME NEW path, NEW origin, NEW zones, IsResolved(path, origin), ~IsRuntime(path)
    PROVE  /\ \A m \in 1 .. 4 :
                 Within(path, zones[ZoneOrder[m]])
                 /\ (\A i \in 1 .. 4 : i < m => ~Within(path, zones[ZoneOrder[i]]))
                 => Placement(path, origin, zones) = ZoneOrder[m]
           /\ (\A i \in 1 .. 4 : ~Within(path, zones[ZoneOrder[i]]))
              /\ (\A prefix \in zones.extra : ~Within(path, prefix))
              => Placement(path, origin, zones) = "Outside"
<1> DEFINE I == {i \in 1 .. 4 : Within(path, zones[ZoneOrder[i]])}
           first == IF I # {} THEN Min(I) ELSE 0
<1>1. Placement(path, origin, zones) =
          IF first # 0 THEN ZoneOrder[first]
          ELSE IF \E x \in zones.extra : Within(path, x) THEN "declared" ELSE "Outside"
  BY ZonesInOrder DEF Placement, SelectInSeq
<1>2. ASSUME NEW m \in 1 .. 4, Within(path, zones[ZoneOrder[m]]),
             \A i \in 1 .. 4 : i < m => ~Within(path, zones[ZoneOrder[i]])
      PROVE  Placement(path, origin, zones) = ZoneOrder[m]
  <2>1. m \in I /\ I \in SUBSET Nat /\ \A i \in I : m <= i
    BY <1>2
  <2>2. Min(I) = m
    BY <2>1, LeastIs
  <2>3. first = m /\ m # 0
    BY <2>1, <2>2
  <2> HIDE DEF I, first
  <2> QED BY <1>1, <2>3
<1>3. ASSUME \A i \in 1 .. 4 : ~Within(path, zones[ZoneOrder[i]]),
             \A prefix \in zones.extra : ~Within(path, prefix)
      PROVE  Placement(path, origin, zones) = "Outside"
  <2>1. first = 0
    BY <1>3
  <2> HIDE DEF first
  <2> QED BY <1>1, <1>3, <2>1
<1> QED BY <1>2, <1>3

\* A sequence is a prefix of what it is put before, and what follows it is what was put there.
LEMMA PutBefore ==
    ASSUME NEW s, NEW t, s \in Seq(Range(s)), t \in Seq(Range(t))
    PROVE  IsPrefix(s, s \o t) /\ SubSeq(s \o t, Len(s) + 1, Len(s \o t)) = t
<1> DEFINE S == Range(s) \cup Range(t)
<1>1. s \in Seq(S) /\ t \in Seq(S)
  OBVIOUS
<1> HIDE DEF S
<1>2. Len(s \o t) = Len(s) + Len(t) /\ Len(s) \in Nat /\ Len(t) \in Nat
  BY <1>1
<1>3. SubSeq(s, 1, Len(s)) = SubSeq(s \o t, 1, Len(s))
  BY <1>1, <1>2
<1>4. SubSeq(s \o t, Len(s) + 1, Len(s \o t)) = t
  BY <1>1, <1>2
<1> QED BY <1>2, <1>3, <1>4 DEF IsPrefix

\* A concatenation with nothing, and with two sequences in turn.
LEMMA PutTogether ==
    /\ \A s : s \in Seq(Range(s)) => <<>> \o s = s
    /\ \A a, b, s : s \in Seq(Range(s)) => <<a, b>> \o s = <<a>> \o (<<b>> \o s)
    /\ \A a, b, c, s : s \in Seq(Range(s)) => <<a, b, c>> \o s = <<a, b>> \o (<<c>> \o s)
    /\ \A a, s : s \in Seq(Range(s)) => <<a>> \o s \in Seq(Range(<<a>> \o s))
<1>1. ASSUME NEW s, s \in Seq(Range(s)) PROVE <<>> \o s = s
  BY <1>1
<1>2. ASSUME NEW a, NEW b, NEW s, s \in Seq(Range(s))
      PROVE  <<a, b>> \o s = <<a>> \o (<<b>> \o s)
  <2> DEFINE S == {a, b} \cup Range(s)
  <2>1. s \in Seq(S) /\ a \in S /\ b \in S
    BY <1>2
  <2> HIDE DEF S
  <2>2. <<b>> \o s \in Seq(S) /\ Len(<<b>> \o s) = 1 + Len(s) /\ Len(s) \in Nat
    BY <2>1
  <2>3. <<a>> \o (<<b>> \o s) \in Seq(S) /\ Len(<<a>> \o (<<b>> \o s)) = 2 + Len(s)
    BY <2>1, <2>2
  <2>4. <<a, b>> \o s \in Seq(S) /\ Len(<<a, b>> \o s) = 2 + Len(s)
    BY <2>1, <2>2
  <2>5. ASSUME NEW i \in 1 .. (2 + Len(s))
        PROVE  (<<a, b>> \o s)[i] = (<<a>> \o (<<b>> \o s))[i]
    BY <2>1, <2>2
  <2> DEFINE u == <<a, b>> \o s
             v == <<a>> \o (<<b>> \o s)
             n == 2 + Len(s)
  <2>6. u = [i \in 1 .. n |-> u[i]] /\ v = [i \in 1 .. n |-> v[i]]
    BY <2>3, <2>4
  <2> HIDE DEF u, v, n
  <2>7. u = v
    BY <2>5, <2>6 DEF u, v, n
  <2> QED BY <2>7 DEF u, v
<1>3. ASSUME NEW a, NEW b, NEW c, NEW s, s \in Seq(Range(s))
      PROVE  <<a, b, c>> \o s = <<a, b>> \o (<<c>> \o s)
  BY <1>3
<1>4. ASSUME NEW a, NEW s, s \in Seq(Range(s))
      PROVE  <<a>> \o s \in Seq(Range(<<a>> \o s))
  <2> DEFINE S == {a} \cup Range(s)
             u == <<a>> \o s
  <2>1. s \in Seq(S) /\ <<a>> \in Seq(S)
    BY <1>4
  <2> HIDE DEF S
  <2>2. u \in Seq(S)
    BY <2>1
  <2> HIDE DEF u
  <2>3. u \in [1 .. Len(u) -> Range(u)] /\ Len(u) \in Nat
    BY <2>2 DEF Range
  <2>4. u \in Seq(Range(u))
    BY <2>3
  <2> QED BY <2>4 DEF u
<1> QED BY <1>1, <1>2, <1>3, <1>4

\* A deed's path is a sequence of names, and the recorder's zones are the host's.
LEMMA DeedPath ==
    ASSUME NEW on \in Hosts, NEW deed \in FileDeeds
    PROVE  /\ RealPath(deed, on).abs
           /\ RealPath(deed, on).names = At(deed.place, on) \o deed.names
           /\ deed.place \in Places /\ deed.names \in Seq(Range(deed.names))
           /\ deed.relative \in BOOLEAN /\ deed.failed \in BOOLEAN
           /\ \A zone \in Range(ZoneOrder) :
                 /\ ZonesOf(on)[zone] = on.real[zone] /\ on.real[zone] # <<>>
                 /\ on.real[zone] \in Seq(Range(on.real[zone]))
                 /\ At(zone, on) = on.real[zone]
           /\ ZonesOf(on).extra = on.expected
<1>1. deed \in Deeds /\ OnFiles(deed)
  BY DEF FileDeeds
<1>2. \A zone \in Range(ZoneOrder) : At(zone, on) = on.real[zone]
  BY ZonesInOrder DEF At
<1>3. ZonesOf(on).extra = on.expected
  BY DEF ZonesOf
<1> QED BY <1>1, <1>2, <1>3, DeedAssumption, HostAssumption DEF RealPath

\* On every host a deed is placed where it was done.
LEMMA DeedIsPlaced ==
    ASSUME NEW on \in Hosts, NEW deed \in FileDeeds, NEW origin, origin # "Unresolved"
    PROVE  Placement(RealPath(deed, on), origin, ZonesOf(on)) =
               CASE deed.place = "outside" -> "Outside"
                 [] deed.place = "runtime" -> "Runtime"
                 [] OTHER -> deed.place
<1> DEFINE path == RealPath(deed, on)
           zones == ZonesOf(on)
<1>1. IsResolved(path, origin)
  BY DeedPath DEF IsResolved
<1>2. deed \in Deeds /\ OnFiles(deed)
  BY DEF FileDeeds
<1>3. \A i \in 1 .. 4 : zones[ZoneOrder[i]] = on.real[ZoneOrder[i]] /\ on.real[ZoneOrder[i]] # <<>>
  BY ZonesInOrder, DeedPath
<1>4. CASE deed.place = "runtime"
  <2>1. path.names = <<"proc">> \o deed.names
    BY <1>4, DeedPath DEF At
  <2>2. <<"proc">> \in Seq(Range(<<"proc">>))
    BY DEF Range
  <2>3. IsPrefix(<<"proc">>, path.names)
    BY <2>1, <2>2, DeedPath, PutBefore
  <2>4. IsRuntime(path)
    BY <2>3 DEF IsRuntime, RuntimeRoots
  <2> HIDE DEF path, zones
  <2>5. Placement(path, origin, zones) = "Runtime"
    BY <1>1, <2>4 DEF Placement
  <2> QED BY <1>4, <2>5 DEF path, zones
<1>5. CASE deed.place = "outside"
  <2>1. ~IsRuntime(path)
    BY <1>2, <1>5, PlaceAssumption
  <2>2. \A i \in 1 .. 4 : ~Within(path, zones[ZoneOrder[i]])
    BY <1>2, <1>3, <1>5, ZonesInOrder, PlaceAssumption
  <2>3. \A prefix \in zones.extra : ~Within(path, prefix)
    BY <1>2, <1>5, DeedPath, PlaceAssumption
  <2> HIDE DEF path, zones
  <2>4. Placement(path, origin, zones) = "Outside"
    BY <1>1, <2>1, <2>2, <2>3, PlacedByFirst
  <2> QED BY <1>5, <2>4 DEF path, zones
<1>6. CASE deed.place \in Range(ZoneOrder)
  <2>1. PICK m \in 1 .. 4 : deed.place = ZoneOrder[m]
    BY <1>6, ZonesInOrder DEF Range
  <2>2. deed.place # "runtime" /\ deed.place # "outside"
    BY <1>6, ZonesInOrder
  <2>3. ~IsRuntime(path)
    BY <1>2, <2>2, PlaceAssumption
  <2>4. ASSUME NEW i \in 1 .. 4, i < m PROVE ~Within(path, zones[ZoneOrder[i]])
    <3>1. i \in DOMAIN ZoneOrder /\ m \in DOMAIN ZoneOrder /\ m > i
      BY <2>4, ZonesInOrder
    <3>2. ~Within(path, on.real[ZoneOrder[i]])
      BY <1>2, <2>1, <3>1, PlaceAssumption
    <3> QED BY <1>3, <3>2
  <2>5. Within(path, zones[ZoneOrder[m]])
    <3> DEFINE root == on.real[deed.place]
    <3>1. At(deed.place, on) = root /\ root \in Seq(Range(root))
      BY <1>6, DeedPath
    <3>2. path.names = root \o deed.names
      BY <3>1, DeedPath
    <3> HIDE DEF root
    <3>3. IsPrefix(root, path.names)
      BY <3>1, <3>2, DeedPath, PutBefore
    <3> QED BY <1>3, <2>1, <3>3 DEF Within, root
  <2> HIDE DEF path, zones
  <2>6. Placement(path, origin, zones) = ZoneOrder[m]
    BY <1>1, <2>3, <2>4, <2>5, PlacedByFirst
  <2> QED BY <2>1, <2>2, <2>6 DEF path, zones
<1> QED BY <1>4, <1>5, <1>6, DeedPath DEF Places

\* What is left of a deed's path below the zone it was done in.
LEMMA BelowTheZone ==
    ASSUME NEW on \in Hosts, NEW deed \in FileDeeds, deed.place \in Range(ZoneOrder)
    PROVE  RelativeTo(RealPath(deed, on), deed.place, ZonesOf(on)) = deed.names
<1>1. deed.place # "declared"
  BY ZonesInOrder
<1> DEFINE root == ZonesOf(on)[deed.place]
           names == RealPath(deed, on).names
<1>2. root = on.real[deed.place] /\ At(deed.place, on) = on.real[deed.place]
  BY DeedPath
<1>3. root \in Seq(Range(root))
  BY <1>2, DeedPath
<1>4. names = root \o deed.names
  <2>1. names = At(deed.place, on) \o deed.names
    BY DeedPath
  <2> HIDE DEF names, root
  <2> QED BY <1>2, <2>1
<1>5. RelativeTo(RealPath(deed, on), deed.place, ZonesOf(on)) = SubSeq(names, Len(root) + 1, Len(names))
  BY <1>1 DEF RelativeTo
<1>6. deed.names \in Seq(Range(deed.names))
  BY DeedPath
<1> HIDE DEF root, names
<1> QED BY <1>3, <1>4, <1>5, <1>6, PutBefore

\* A write under its true path is the true behavior.
LEMMA WriteIsTrue ==
    ASSUME NEW on \in Hosts, NEW deed \in FileDeeds, NEW e,
           e.op = "fs_write", ~e.failed, e.path = RealPath(deed, on), e.origin # "Unresolved"
    PROVE  Behaviors(e, ZonesOf(on)) = {TrueWrite(deed, e.kind)}
<1> DEFINE place == Placement(e.path, e.origin, ZonesOf(on))
<1>1. Behaviors(e, ZonesOf(on)) = {WriteBehavior(e, place, ZonesOf(on))}
  BY DEF Behaviors
<1>2. place = CASE deed.place = "outside" -> "Outside"
                [] deed.place = "runtime" -> "Runtime"
                [] OTHER -> deed.place
  BY DeedIsPlaced
<1> HIDE DEF place
<1>3. CASE deed.place = "outside"
  <2>1. e.path.names = deed.names
    <3>1. At(deed.place, on) = <<>>
      BY <1>3 DEF At
    <3>2. e.path.names = <<>> \o deed.names
      BY <3>1, DeedPath
    <3>3. <<>> \o deed.names = deed.names
      BY DeedPath, PutTogether
    <3> QED BY <3>2, <3>3
  <2>2. WriteBehavior(e, place, ZonesOf(on)) = <<"WroteOutside", e.kind>> \o deed.names
    BY <1>2, <1>3, <2>1 DEF WriteBehavior
  <2> QED BY <1>1, <1>3, <2>2 DEF TrueWrite
<1>4. CASE deed.place = "runtime"
  <2>1. e.path.names = <<"proc">> \o deed.names
    BY <1>4, DeedPath DEF At
  <2>2. WriteBehavior(e, place, ZonesOf(on)) = <<"WroteRuntime", e.kind>> \o (<<"proc">> \o deed.names)
    BY <1>2, <1>4, <2>1 DEF WriteBehavior
  <2>3. <<"WroteRuntime", e.kind, "proc">> \o deed.names
            = <<"WroteRuntime", e.kind>> \o (<<"proc">> \o deed.names)
    BY DeedPath, PutTogether
  <2> QED BY <1>1, <1>4, <2>2, <2>3 DEF TrueWrite
<1>5. CASE deed.place \in Range(ZoneOrder)
  <2>1. deed.place \notin {"outside", "runtime", "Outside", "Runtime", "Unresolvable"}
    BY <1>5, ZonesInOrder
  <2>2. WriteBehavior(e, place, ZonesOf(on))
            = <<"Wrote", e.kind, deed.place>> \o RelativeTo(e.path, deed.place, ZonesOf(on))
    BY <1>2, <2>1 DEF WriteBehavior
  <2> QED BY <1>1, <1>5, <2>1, <2>2, BelowTheZone DEF TrueWrite
<1> QED BY <1>3, <1>4, <1>5, DeedPath DEF Places

\* And so is a read.
LEMMA ReadIsTrue ==
    ASSUME NEW on \in Hosts, NEW deed \in FileDeeds, NEW e,
           e.op = "fs_read", e.path = RealPath(deed, on), e.origin # "Unresolved"
    PROVE  Behaviors(e, ZonesOf(on)) = {TrueRead(deed)}
<1> DEFINE place == Placement(e.path, e.origin, ZonesOf(on))
<1>1. Behaviors(e, ZonesOf(on)) = {ReadBehavior(e, place, ZonesOf(on))}
  BY DEF Behaviors
<1>2. place = CASE deed.place = "outside" -> "Outside"
                [] deed.place = "runtime" -> "Runtime"
                [] OTHER -> deed.place
  BY DeedIsPlaced
<1> HIDE DEF place
<1>3. Subject(e) = <<"/">> \o e.path.names
  BY DeedPath DEF Subject
<1>4. CASE deed.place = "outside"
  <2>1. e.path.names = deed.names
    <3>1. At(deed.place, on) = <<>>
      BY <1>4 DEF At
    <3>2. e.path.names = <<>> \o deed.names
      BY <3>1, DeedPath
    <3>3. <<>> \o deed.names = deed.names
      BY DeedPath, PutTogether
    <3> QED BY <3>2, <3>3
  <2>2. ReadBehavior(e, place, ZonesOf(on)) = <<"ReadCredential">> \o (<<"/">> \o deed.names)
    BY <1>2, <1>3, <1>4, <2>1 DEF ReadBehavior
  <2>3. <<"ReadCredential", "/">> \o deed.names = <<"ReadCredential">> \o (<<"/">> \o deed.names)
    BY DeedPath, PutTogether
  <2> QED BY <1>1, <1>4, <2>2, <2>3 DEF TrueRead
<1>5. CASE deed.place = "runtime"
  <2> DEFINE below == <<"proc">> \o deed.names
  <2>1. e.path.names = below
    BY <1>5, DeedPath DEF At
  <2>2. below \in Seq(Range(below))
    BY DeedPath, PutTogether
  <2>3. <<"ReadCredential", "/", "proc">> \o deed.names = <<"ReadCredential", "/">> \o below
    BY DeedPath, PutTogether
  <2> HIDE DEF below
  <2>4. ReadBehavior(e, place, ZonesOf(on)) = <<"ReadCredential">> \o (<<"/">> \o below)
    BY <1>2, <1>3, <1>5, <2>1 DEF ReadBehavior
  <2>5. <<"ReadCredential", "/">> \o below = <<"ReadCredential">> \o (<<"/">> \o below)
    BY <2>2, PutTogether
  <2> QED BY <1>1, <1>5, <2>3, <2>4, <2>5 DEF TrueRead
<1>6. CASE deed.place \in Range(ZoneOrder)
  <2>1. deed.place \notin {"outside", "runtime", "Outside", "Runtime", "Unresolvable"}
    BY <1>6, ZonesInOrder
  <2>2. ReadBehavior(e, place, ZonesOf(on))
            = <<"ReadCredential", deed.place>> \o RelativeTo(e.path, deed.place, ZonesOf(on))
    BY <1>2, <2>1 DEF ReadBehavior
  <2> QED BY <1>1, <1>6, <2>1, <2>2, BelowTheZone DEF TrueRead
<1> QED BY <1>4, <1>5, <1>6, DeedPath DEF Places

-----------------------------------------------------------------------------
(* What a deed's events tell                                               *)

\* What is left out of a profile for want of a place.
Unplaced(e, zones) ==
    /\ e.op = "fs_read" \/ (e.op = "fs_write" /\ ~e.failed)
    /\ Placement(e.path, e.origin, zones) = "Unresolvable"

\* The events say what the deed is, no more and, if they can be placed, no less.
Tells(events, deed, by, zones) ==
    /\ \A e \in events : ~Unplaced(e, zones) => Behaviors(e, zones) \subseteq TrueBehaviors(deed, by)
    /\ (\A e \in events : ~Unplaced(e, zones)) =>
          \A b \in TrueBehaviors(deed, by) : \E e \in events : b \in Behaviors(e, zones)

\* One event tells a deed, or two do.
LEMMA OneTells ==
    ASSUME NEW deed, NEW by, NEW zones, NEW e,
           ~Unplaced(e, zones) => Behaviors(e, zones) = TrueBehaviors(deed, by)
    PROVE  Tells(Range(<<e>>), deed, by, zones)
  BY Ranges DEF Tells

\* Two events tell a deed, each a half of it.
LEMMA TwoTell ==
    ASSUME NEW deed, NEW by, NEW zones, NEW e, NEW f, NEW x, NEW y,
           ~Unplaced(e, zones) => Behaviors(e, zones) = {x},
           ~Unplaced(f, zones) => Behaviors(f, zones) = {y},
           TrueBehaviors(deed, by) = {x, y}
    PROVE  Tells(Range(<<e, f>>), deed, by, zones)
  BY Ranges DEF Tells

\* A write event under the true path, or one that cannot be placed.
LEMMA WriteTells ==
    ASSUME NEW on \in Hosts, NEW deed \in FileDeeds, NEW e, e.op = "fs_write", e.failed \in BOOLEAN,
           e.origin # "Unresolved" => e.path = RealPath(deed, on)
    PROVE  /\ e.failed => Behaviors(e, ZonesOf(on)) = {}
           /\ ~e.failed /\ ~Unplaced(e, ZonesOf(on)) => Behaviors(e, ZonesOf(on)) = {TrueWrite(deed, e.kind)}
<1>1. e.failed => Behaviors(e, ZonesOf(on)) = {}
  BY DEF Behaviors
<1>2. ASSUME ~e.failed, ~Unplaced(e, ZonesOf(on))
      PROVE  Behaviors(e, ZonesOf(on)) = {TrueWrite(deed, e.kind)}
  <2>1. e.origin # "Unresolved"
    BY <1>2 DEF Unplaced, Placement, IsResolved
  <2> QED BY <1>2, <2>1, WriteIsTrue
<1> QED BY <1>1, <1>2

\* A connection and a program need no place.
LEMMA ConnectTells ==
    ASSUME NEW deed \in Deeds, deed.does = "connect", NEW by, NEW failed, NEW zones
    PROVE  Behaviors(ConnectEvent(by, deed, failed), zones) = TrueBehaviors(deed, by)
<1> DEFINE e == ConnectEvent(by, deed, failed)
<1>1. /\ e.op = "net_connect" /\ ~e.unix /\ e.port = deed.port
      /\ e.loopback = deed.loopback /\ e.private = deed.private
  BY DEF ConnectEvent
<1>2. deed.port \notin {"0", NoPort}
  BY DeedAssumption
<1> HIDE DEF e
<1>3. Behaviors(e, zones) = ConnectBehaviors(e)
  BY <1>1 DEF Behaviors
<1>4. ConnectBehaviors(e) =
          {<<"Connected", deed.port, IF deed.loopback THEN "loopback"
                                     ELSE IF deed.private THEN "private" ELSE "public">>}
  BY <1>1, <1>2 DEF ConnectBehaviors
<1>5. TrueBehaviors(deed, by) =
          {<<"Connected", deed.port, IF deed.loopback THEN "loopback"
                                     ELSE IF deed.private THEN "private" ELSE "public">>}
  BY DEF TrueBehaviors
<1> QED BY <1>3, <1>4, <1>5 DEF e

\* A program tells what it is and what its script pipes.
LEMMA SpawnTells ==
    ASSUME NEW deed \in Deeds, deed.does = "spawn", NEW by, NEW zones
    PROVE  Behaviors(SpawnEvent(by, deed), zones) = TrueBehaviors(deed, by)
<1> DEFINE e == SpawnEvent(by, deed)
           named == \E i \in 2..Len(deed.script) : deed.script[i].names
           tool == Head(deed.script).gets
<1>1. e.op = "proc_spawn" /\ e.bin = deed.bin /\ e.script = deed.script
  BY DEF SpawnEvent
<1>2. deed.bin # "none" /\ deed.pipes = IF named THEN {tool} \ {"nothing"} ELSE {}
  BY DeedAssumption
<1>3. named => Len(deed.script) > 1
  BY DeedAssumption
<1> HIDE DEF e
<1>4. Behaviors(e, zones) = ShellPipelines(e) \cup {<<"Spawned", deed.bin>>}
  BY <1>1, <1>2 DEF Behaviors, SpawnBehaviors
<1>5. ShellPipelines(e) = IF named /\ tool # "nothing" THEN {<<"SpawnedShellPipeline", tool>>} ELSE {}
  BY <1>1, <1>3 DEF ShellPipelines
<1>6. TrueBehaviors(deed, by) =
          {<<"Spawned", deed.bin>>} \cup {<<"SpawnedShellPipeline", t>> : t \in deed.pipes}
  BY DEF TrueBehaviors
<1> HIDE DEF named, tool
<1>7. {<<"SpawnedShellPipeline", t>> : t \in deed.pipes}
          = IF named /\ tool # "nothing" THEN {<<"SpawnedShellPipeline", tool>>} ELSE {}
  BY <1>2
<1> QED BY <1>4, <1>5, <1>6, <1>7 DEF e

\* How strace's path for a call came about.
StracePath(deed, on, placed) == IF placed THEN RealPath(deed, on) ELSE SpelledPath(deed, on)
StraceOrigin(deed, placed) ==
    CASE ~deed.relative -> "Absolute"
      [] deed.relative /\ placed -> "ResolvedFromDirfd"
      [] OTHER -> "Unresolved"
AyaOrigin(deed, on) == IF SpelledPath(deed, on).abs THEN "Absolute" ELSE "Unresolved"

\* A path that is marked as known is the true one.
LEMMA PathsTell ==
    ASSUME NEW on \in Hosts, NEW deed \in FileDeeds, NEW placed \in BOOLEAN
    PROVE  /\ StraceOrigin(deed, placed) # "Unresolved" => StracePath(deed, on, placed) = RealPath(deed, on)
           /\ AyaOrigin(deed, on) # "Unresolved" => SpelledPath(deed, on) = RealPath(deed, on)
<1>1. ~deed.relative => SpelledPath(deed, on) = RealPath(deed, on)
  BY DEF SpelledPath
<1>2. deed.relative => ~SpelledPath(deed, on).abs
  BY DEF SpelledPath
<1>3. deed.relative \in BOOLEAN
  BY DeedPath
<1> QED BY <1>1, <1>2, <1>3 DEF StraceOrigin, StracePath, AyaOrigin

\* strace tells every deed.
LEMMA StraceTells ==
    ASSUME NEW on \in Hosts, NEW deed \in Deeds, NEW placed \in BOOLEAN
    PROVE  Tells(Range(StraceEvents(deed, on, placed)), deed, "strace", ZonesOf(on))
<1> DEFINE path == StracePath(deed, on, placed)
           origin == StraceOrigin(deed, placed)
           real == RealPath(deed, on)
           zones == ZonesOf(on)
<1>0. deed \in FileDeeds => deed.failed \in BOOLEAN /\ (origin # "Unresolved" => path = real)
  BY PathsTell, DeedPath
<1>1. CASE deed.does = "put" /\ deed.failed
  <2> DEFINE e == WriteEvent("strace", "Open", path, origin, FALSE, TRUE)
  <2>1. deed \in FileDeeds
    BY <1>1 DEF FileDeeds, OnFiles
  <2>2. StraceEvents(deed, on, placed) = <<e>>
    BY <1>1 DEF StraceEvents, StracePath, StraceOrigin
  <2>3. /\ e.op = "fs_write" /\ e.failed = TRUE /\ e.path = path
        /\ e.origin = origin /\ e.kind = "Open"
    BY DEF WriteEvent
  <2>4. TrueBehaviors(deed, "strace") = {}
    BY <1>1 DEF TrueBehaviors, SeenFailing
  <2> HIDE DEF e
  <2>5. ~Unplaced(e, zones) => Behaviors(e, zones) = TrueBehaviors(deed, "strace")
    BY <1>0, <1>1, <2>1, <2>3, <2>4, WriteTells
  <2> QED BY <2>2, <2>5, OneTells
<1>2. CASE deed.does = "put" /\ ~deed.failed
  <2> DEFINE e == WriteEvent("strace", "Open", real, "Kernel", FALSE, FALSE)
             f == WriteEvent("strace", "Write", real, "Kernel", FALSE, FALSE)
  <2>1. deed \in FileDeeds
    BY <1>2 DEF FileDeeds, OnFiles
  <2>2. StraceEvents(deed, on, placed) = <<e, f>>
    BY <1>2 DEF StraceEvents
  <2>3. /\ e.op = "fs_write" /\ e.failed = FALSE /\ e.path = real
        /\ e.origin = "Kernel" /\ e.kind = "Open"
    BY DEF WriteEvent
  <2>4. /\ f.op = "fs_write" /\ f.failed = FALSE /\ f.path = real
        /\ f.origin = "Kernel" /\ f.kind = "Write"
    BY DEF WriteEvent
  <2>5. TrueBehaviors(deed, "strace") = {TrueWrite(deed, "Open"), TrueWrite(deed, "Write")}
    BY <1>2 DEF TrueBehaviors, SeenFailing
  <2> HIDE DEF e, f
  <2>6. ~Unplaced(e, zones) => Behaviors(e, zones) = {TrueWrite(deed, "Open")}
    BY <2>1, <2>3, WriteTells
  <2>7. ~Unplaced(f, zones) => Behaviors(f, zones) = {TrueWrite(deed, "Write")}
    BY <2>1, <2>4, WriteTells
  <2> QED BY <2>2, <2>5, <2>6, <2>7, TwoTell
<1>3. CASE deed.does = "alter"
  <2> DEFINE e == WriteEvent("strace", deed.kind, path, origin, deed.exec, deed.failed)
  <2>1. deed \in FileDeeds
    BY <1>3 DEF FileDeeds, OnFiles
  <2>2. StraceEvents(deed, on, placed) = <<e>>
    BY <1>3 DEF StraceEvents, StracePath, StraceOrigin
  <2>3. /\ e.op = "fs_write" /\ e.failed = deed.failed /\ e.path = path
        /\ e.origin = origin /\ e.kind = deed.kind
    BY DEF WriteEvent
  <2>4. TrueBehaviors(deed, "strace") = IF deed.failed THEN {} ELSE {TrueWrite(deed, deed.kind)}
    BY <1>0, <1>3, <2>1 DEF TrueBehaviors, SeenFailing
  <2> HIDE DEF e
  <2>5. ~Unplaced(e, zones) => Behaviors(e, zones) = TrueBehaviors(deed, "strace")
    BY <1>0, <1>3, <2>1, <2>3, <2>4, WriteTells
  <2> QED BY <2>2, <2>5, OneTells
<1>4. CASE deed.does = "consult"
  <2> DEFINE e == [op |-> "fs_read", backend |-> "strace", path |-> real,
                   origin |-> IF deed.failed THEN "Absolute" ELSE "Kernel", failed |-> deed.failed]
  <2>1. deed \in FileDeeds
    BY <1>4 DEF FileDeeds, OnFiles
  <2>2. StraceEvents(deed, on, placed) = <<e>>
    BY <1>4 DEF StraceEvents
  <2>3. e.op = "fs_read" /\ e.path = RealPath(deed, on) /\ e.origin # "Unresolved"
    OBVIOUS
  <2> HIDE DEF e
  <2>4. Behaviors(e, zones) = {TrueRead(deed)}
    BY <2>1, <2>3, ReadIsTrue
  <2>5. TrueBehaviors(deed, "strace") = {TrueRead(deed)}
    BY <1>4 DEF TrueBehaviors
  <2> QED BY <2>2, <2>4, <2>5, OneTells
<1>5. CASE deed.does = "connect"
  <2>1. StraceEvents(deed, on, placed) = <<ConnectEvent("strace", deed, deed.failed)>>
    BY <1>5 DEF StraceEvents
  <2> DEFINE e == ConnectEvent("strace", deed, deed.failed)
  <2>2. Behaviors(e, zones) = TrueBehaviors(deed, "strace")
    BY <1>5, ConnectTells
  <2> HIDE DEF e
  <2> QED BY <2>1, <2>2, OneTells DEF e
<1>6. CASE deed.does = "lookup"
  <2> DEFINE e == [op |-> "dns_query", backend |-> "strace", qname |-> deed.qname]
  <2>1. StraceEvents(deed, on, placed) = <<e>>
    BY <1>6 DEF StraceEvents
  <2>2. Behaviors(e, zones) = TrueBehaviors(deed, "strace")
    BY <1>6 DEF Behaviors, TrueBehaviors
  <2> HIDE DEF e
  <2> QED BY <2>1, <2>2, OneTells
<1>7. CASE deed.does = "spawn"
  <2>1. StraceEvents(deed, on, placed) = <<SpawnEvent("strace", deed)>>
    BY <1>7 DEF StraceEvents
  <2> DEFINE e == SpawnEvent("strace", deed)
  <2>2. Behaviors(e, zones) = TrueBehaviors(deed, "strace")
    BY <1>7, SpawnTells
  <2> HIDE DEF e
  <2> QED BY <2>1, <2>2, OneTells DEF e
<1> QED BY <1>1, <1>2, <1>3, <1>4, <1>5, <1>6, <1>7, DeedAssumption

\* aya tells those it sees.
LEMMA AyaTells ==
    ASSUME NEW on \in Hosts, NEW deed \in Deeds
    PROVE  Tells(Range(AyaEvents(deed, on)), deed, "aya", ZonesOf(on))
<1> DEFINE path == SpelledPath(deed, on)
           origin == AyaOrigin(deed, on)
           zones == ZonesOf(on)
<1>0. deed \in FileDeeds => deed.failed \in BOOLEAN /\ (origin # "Unresolved" => path = RealPath(deed, on))
  BY PathsTell, DeedPath
<1>1. CASE deed.does = "put" /\ deed.failed
  <2> DEFINE e == WriteEvent("aya", "Open", path, origin, FALSE, deed.failed)
  <2>1. deed \in FileDeeds
    BY <1>1 DEF FileDeeds, OnFiles
  <2>2. AyaEvents(deed, on) = <<e>> \o <<>>
    BY <1>1 DEF AyaEvents, AyaOrigin
  <2>3. /\ e.op = "fs_write" /\ e.failed = deed.failed /\ e.path = path
        /\ e.origin = origin /\ e.kind = "Open"
    BY DEF WriteEvent
  <2>4. TrueBehaviors(deed, "aya") = {}
    BY <1>1 DEF TrueBehaviors, SeenFailing
  <2> HIDE DEF e
  <2>5. <<e>> \o <<>> = <<e>>
    BY ShortSequences
  <2>6. Behaviors(e, zones) = TrueBehaviors(deed, "aya")
    BY <1>0, <1>1, <2>1, <2>3, <2>4, WriteTells
  <2> QED BY <2>2, <2>5, <2>6, OneTells
<1>2. CASE deed.does = "put" /\ ~deed.failed
  <2> DEFINE e == WriteEvent("aya", "Open", path, origin, FALSE, deed.failed)
             f == WriteEvent("aya", "Write", path, origin, FALSE, FALSE)
  <2>1. deed \in FileDeeds
    BY <1>2 DEF FileDeeds, OnFiles
  <2>2. AyaEvents(deed, on) = <<e>> \o <<f>>
    BY <1>2 DEF AyaEvents, AyaOrigin
  <2>3. /\ e.op = "fs_write" /\ e.failed = deed.failed /\ e.path = path
        /\ e.origin = origin /\ e.kind = "Open"
    BY DEF WriteEvent
  <2>4. /\ f.op = "fs_write" /\ f.failed = FALSE /\ f.path = path
        /\ f.origin = origin /\ f.kind = "Write"
    BY DEF WriteEvent
  <2>5. TrueBehaviors(deed, "aya") = {TrueWrite(deed, "Open"), TrueWrite(deed, "Write")}
    BY <1>2 DEF TrueBehaviors, SeenFailing
  <2> HIDE DEF e, f
  <2>6. <<e>> \o <<f>> = <<e, f>>
    BY ShortSequences
  <2>7. ~Unplaced(e, zones) => Behaviors(e, zones) = {TrueWrite(deed, "Open")}
    BY <1>0, <1>2, <2>1, <2>3, WriteTells
  <2>8. ~Unplaced(f, zones) => Behaviors(f, zones) = {TrueWrite(deed, "Write")}
    BY <1>0, <2>1, <2>4, WriteTells
  <2> QED BY <2>2, <2>5, <2>6, <2>7, <2>8, TwoTell
<1>3. CASE deed.does = "alter"
  <2> DEFINE e == WriteEvent("aya", deed.kind, path, origin, FALSE, FALSE)
  <2>1. deed \in FileDeeds
    BY <1>3 DEF FileDeeds, OnFiles
  <2>2. AyaEvents(deed, on) = <<e>>
    BY <1>3 DEF AyaEvents, AyaOrigin
  <2>3. /\ e.op = "fs_write" /\ e.failed = FALSE /\ e.path = path
        /\ e.origin = origin /\ e.kind = deed.kind
    BY DEF WriteEvent
  <2>4. TrueBehaviors(deed, "aya") = {TrueWrite(deed, deed.kind)}
    BY <1>3 DEF TrueBehaviors, SeenFailing
  <2> HIDE DEF e
  <2>5. ~Unplaced(e, zones) => Behaviors(e, zones) = TrueBehaviors(deed, "aya")
    BY <1>0, <1>3, <2>1, <2>3, <2>4, WriteTells
  <2> QED BY <2>2, <2>5, OneTells
<1>4. CASE deed.does \in {"consult", "lookup"}
  <2>1. AyaEvents(deed, on) = <<>>
    BY <1>4 DEF AyaEvents
  <2>2. TrueBehaviors(deed, "aya") = {}
    BY <1>4 DEF TrueBehaviors
  <2> QED BY <2>1, <2>2, Ranges DEF Tells
<1>5. CASE deed.does = "connect"
  <2>1. AyaEvents(deed, on) = <<ConnectEvent("aya", deed, FALSE)>>
    BY <1>5 DEF AyaEvents
  <2> DEFINE e == ConnectEvent("aya", deed, FALSE)
  <2>2. Behaviors(e, zones) = TrueBehaviors(deed, "aya")
    BY <1>5, ConnectTells
  <2> HIDE DEF e
  <2> QED BY <2>1, <2>2, OneTells DEF e
<1>6. CASE deed.does = "spawn"
  <2>1. AyaEvents(deed, on) = <<SpawnEvent("aya", deed)>>
    BY <1>6 DEF AyaEvents
  <2> DEFINE e == SpawnEvent("aya", deed)
  <2>2. Behaviors(e, zones) = TrueBehaviors(deed, "aya")
    BY <1>6, SpawnTells
  <2> HIDE DEF e
  <2> QED BY <2>1, <2>2, OneTells DEF e
<1> QED BY <1>1, <1>2, <1>3, <1>4, <1>5, <1>6, DeedAssumption

-----------------------------------------------------------------------------
(* What a file tells                                                       *)

\* What the events of a deed are, as they were written for a side.
Says(side, deed, placed) == Range(Events(deed, backend[side], host[side], placed))
Opening(side) == StartEvent(backend[side], host[side])

\* A file begins with its session_start, tells of nothing that was not done, and of
\* everything that was done unless something was lost.
Begun(side) ==
    IF phase[side] = "waiting" THEN file[side].lines = <<>> /\ truth[side] = <<>>
    ELSE 1 \in DOMAIN file[side].lines /\ file[side].lines[1] = Opening(side)
ToldOnly(side) ==
    \A e \in Range(file[side].lines) :
        \/ e = Opening(side)
        \/ e.op = "session_end"
        \/ \E deed \in Range(truth[side]), placed \in BOOLEAN : e \in Says(side, deed, placed)
ToldAll(side) ==
    lost[side] = 0 =>
        \A deed \in Range(truth[side]) : \E placed \in BOOLEAN :
            Says(side, deed, placed) \subseteq Range(file[side].lines)
Told(side) == Begun(side) /\ ToldOnly(side) /\ ToldAll(side)

SettingOK == \A side \in Sides : host[side] \in Hosts /\ backend[side] \in {"strace", "aya"}

TellInv ==
    /\ SettingOK
    /\ truth \in [Sides -> Seq(Deeds)]
    /\ \A side \in Sides : Told(side)

\* What was done before and what is done now.
LEMMA OneMore ==
    ASSUME NEW s \in Seq(Deeds), NEW deed \in Deeds
    PROVE  /\ Append(s, deed) \in Seq(Deeds)
           /\ Range(Append(s, deed)) = Range(s) \cup {deed}
<1>1. /\ Append(s, deed) \in Seq(Deeds) /\ Len(Append(s, deed)) = Len(s) + 1 /\ Len(s) \in Nat
      /\ \A i \in 1 .. Len(s) : Append(s, deed)[i] = s[i]
      /\ Append(s, deed)[Len(s) + 1] = deed
      /\ DOMAIN s = 1 .. Len(s) /\ DOMAIN Append(s, deed) = 1 .. (Len(s) + 1)
  OBVIOUS
<1> DEFINE u == Append(s, deed)
<1> HIDE DEF u
<1>2. ASSUME NEW e \in Range(u) PROVE e \in Range(s) \cup {deed}
  <2>1. PICK i \in 1 .. (Len(s) + 1) : e = u[i]
    BY <1>1, <1>2 DEF u, Range
  <2>2. i \in 1 .. Len(s) \/ i = Len(s) + 1
    BY <2>1, <1>1
  <2> QED BY <1>1, <2>1, <2>2 DEF u, Range
<1>3. ASSUME NEW e \in Range(s) PROVE e \in Range(u)
  <2>1. PICK i \in 1 .. Len(s) : e = s[i]
    BY <1>1, <1>3 DEF Range
  <2>2. i \in 1 .. (Len(s) + 1)
    BY <1>1, <2>1
  <2> QED BY <1>1, <2>1, <2>2 DEF u, Range
<1>4. deed \in Range(u)
  <2>1. Len(s) + 1 \in 1 .. (Len(s) + 1)
    BY <1>1
  <2> QED BY <1>1, <2>1 DEF u, Range
<1>5. Range(u) = Range(s) \cup {deed}
  BY <1>2, <1>3, <1>4
<1> QED BY <1>1, <1>5 DEF u

\* Nothing has been told yet.
LEMMA NothingTold == Init => TellInv
<1> SUFFICES ASSUME Init PROVE TellInv
  OBVIOUS
<1>1. SettingOK
  <2>1. PICK setting \in Settings : host = setting.host /\ backend = setting.backend
    BY DEF Init
  <2> QED BY <2>1, HostAssumption DEF SettingOK, Hosts
<1>2. truth \in [Sides -> Seq(Deeds)]
  BY DEF Init
<1>3. ASSUME NEW side \in Sides PROVE Told(side)
  <2>1. file[side].lines = <<>> /\ truth[side] = <<>> /\ phase[side] = "waiting"
    BY DEF Init
  <2> QED BY <2>1, Ranges DEF Told, Begun, ToldOnly, ToldAll
<1> QED BY <1>1, <1>2, <1>3 DEF TellInv

\* A side that a step leaves alone.
LEMMA OtherTold ==
    ASSUME NEW side \in Sides, Told(side), host' = host, backend' = backend,
           phase'[side] = phase[side], lost'[side] = lost[side], file'[side] = file[side],
           truth'[side] = truth[side]
    PROVE  Told(side)'
  BY DEF Told, Begun, ToldOnly, ToldAll, Says, Opening

\* A step keeps every file true to what was done.
LEMMA StepTells == FileInv /\ TellInv /\ [Next]_vars => TellInv'
<1> SUFFICES ASSUME FileInv, TellInv, [Next]_vars PROVE TellInv'
  OBVIOUS
<1>0. TypeOK /\ SettingOK /\ truth \in [Sides -> Seq(Deeds)] /\ \A side \in Sides : Told(side)
  BY DEF FileInv, TellInv
<1>1. ASSUME NEW side \in Sides, Start(side) PROVE TellInv'
  <2>1. /\ Append1(side, <<Opening(side)>>) /\ phase' = [phase EXCEPT ![side] = "recording"]
        /\ phase[side] = "waiting" /\ UNCHANGED <<host, backend, truth, lost>>
    BY <1>1 DEF Start, Opening
  <2>2. IsStream(<<Opening(side)>>)
    BY ShortStreams
  <2>3. /\ file'[side].lines = file[side].lines \o <<Opening(side)>>
        /\ \A s \in Sides \ {side} : file'[s] = file[s]
    BY <1>0, <2>1, <2>2, Appended
  <2>4. phase'[side] = "recording" /\ \A s \in Sides \ {side} : phase'[s] = phase[s]
    BY <1>0, <2>1 DEF TypeOK
  <2>5. file[side].lines = <<>> /\ truth[side] = <<>>
    BY <1>0, <2>1 DEF Told, Begun
  <2>6. file'[side].lines = <<Opening(side)>>
    <3>1. <<>> \o <<Opening(side)>> = <<Opening(side)>>
      OBVIOUS
    <3> QED BY <2>3, <2>5, <3>1
  <2>7. Told(side)'
    <3>1. Opening(side)' = Opening(side)
      BY <2>1 DEF Opening
    <3>2. 1 \in DOMAIN file'[side].lines /\ file'[side].lines[1] = Opening(side)
      BY <2>6
    <3>3. Begun(side)'
      BY <2>4, <3>1, <3>2 DEF Begun
    <3>4. Range(file'[side].lines) = {Opening(side)}
      BY <2>6, Ranges
    <3>5. ToldOnly(side)'
      BY <3>1, <3>4 DEF ToldOnly
    <3>6. ToldAll(side)'
      <4>1. Range(truth'[side]) = {}
        BY <2>1, <2>5, Ranges
      <4> QED BY <4>1 DEF ToldAll
    <3> QED BY <3>3, <3>5, <3>6 DEF Told
  <2>8. \A s \in Sides \ {side} : Told(s)'
    BY <1>0, <2>1, <2>3, <2>4, OtherTold
  <2> QED BY <1>0, <2>1, <2>7, <2>8 DEF TellInv, SettingOK
<1>2. ASSUME NEW side \in Sides, NEW deed \in Deeds, NEW placed \in BOOLEAN, Happen(side, deed, placed)
      PROVE  TellInv'
  <2> DEFINE events == Events(deed, backend[side], host[side], placed)
  <2>1. /\ Append1(side, events) /\ phase[side] = "recording"
        /\ truth' = [truth EXCEPT ![side] = Append(@, deed)]
        /\ UNCHANGED <<host, backend, lost, phase>>
    BY <1>2 DEF Happen
  <2>2. IsStream(events) /\ Says(side, deed, placed) = Range(events)
    BY EventsEndNothing DEF Says
  <2> HIDE DEF events
  <2>3. /\ file'[side].lines = file[side].lines \o events
        /\ \A s \in Sides \ {side} : file'[s] = file[s]
    BY <1>0, <2>1, <2>2, Appended
  <2>4. IsStream(file[side].lines)
    BY <1>0 DEF TypeOK
  <2>5. /\ truth'[side] = Append(truth[side], deed) /\ truth' \in [Sides -> Seq(Deeds)]
        /\ \A s \in Sides \ {side} : truth'[s] = truth[s]
    BY <1>0, <2>1, OneMore
  <2>6. Range(truth'[side]) = Range(truth[side]) \cup {deed}
    BY <1>0, <2>5, OneMore
  <2>7. Range(file'[side].lines) = Range(file[side].lines) \cup Range(events)
    BY <2>2, <2>3, <2>4, RangeOfBoth
  <2>8. /\ Opening(side)' = Opening(side)
        /\ \A d, p : Says(side, d, p)' = Says(side, d, p)
    BY <2>1 DEF Opening, Says
  <2>9. Told(side)'
    <3>0. Begun(side) /\ ToldOnly(side) /\ ToldAll(side)
      BY <1>0 DEF Told
    <3>1. Begun(side)'
      <4>1. 1 \in DOMAIN file[side].lines /\ file[side].lines[1] = Opening(side)
        BY <2>1, <3>0 DEF Begun
      <4>2. PICK m \in Nat, n \in Nat : m = Len(file[side].lines) /\ n = Len(events)
        BY <2>2, <2>4, Concatenation
      <4>3. 1 \in 1 .. m /\ 1 \in 1 .. (m + n)
        BY <4>1, <4>2, <2>2, <2>4, Concatenation
      <4>4. 1 \in DOMAIN file'[side].lines /\ file'[side].lines[1] = Opening(side)
        BY <2>2, <2>3, <2>4, <4>1, <4>2, <4>3, Concatenation
      <4> QED BY <2>1, <2>8, <4>4 DEF Begun
    <3>2. ToldOnly(side)'
      BY <2>2, <2>6, <2>7, <2>8, <3>0 DEF ToldOnly
    <3>3. ToldAll(side)'
      BY <2>1, <2>2, <2>6, <2>7, <2>8, <3>0 DEF ToldAll
    <3> QED BY <3>1, <3>2, <3>3 DEF Told
  <2>10. \A s \in Sides \ {side} : Told(s)'
    BY <1>0, <2>1, <2>3, <2>5, OtherTold
  <2> QED BY <1>0, <2>1, <2>5, <2>9, <2>10 DEF TellInv, SettingOK
<1>3. ASSUME NEW side \in Sides, NEW deed \in Deeds, Lose(side, deed) PROVE TellInv'
  <2>1. /\ phase[side] = "recording" /\ lost' = [lost EXCEPT ![side] = @ + 1]
        /\ truth' = [truth EXCEPT ![side] = Append(@, deed)]
        /\ UNCHANGED <<host, backend, file, phase>>
    BY <1>3 DEF Lose
  <2>2. lost'[side] # 0 /\ \A s \in Sides \ {side} : lost'[s] = lost[s]
    BY <1>0, <2>1 DEF TypeOK
  <2>3. /\ truth'[side] = Append(truth[side], deed) /\ truth' \in [Sides -> Seq(Deeds)]
        /\ \A s \in Sides \ {side} : truth'[s] = truth[s]
    BY <1>0, <2>1, OneMore
  <2>4. Range(truth'[side]) = Range(truth[side]) \cup {deed}
    BY <1>0, <2>3, OneMore
  <2>5. /\ Opening(side)' = Opening(side)
        /\ \A d, p : Says(side, d, p)' = Says(side, d, p)
    BY <2>1 DEF Opening, Says
  <2>6. Told(side)'
    <3>0. Begun(side) /\ ToldOnly(side) /\ ToldAll(side)
      BY <1>0 DEF Told
    <3>1. Begun(side)'
      BY <2>1, <2>5, <3>0 DEF Begun
    <3>2. ToldOnly(side)'
      BY <2>1, <2>4, <2>5, <3>0 DEF ToldOnly
    <3>3. ToldAll(side)'
      BY <2>2 DEF ToldAll
    <3> QED BY <3>1, <3>2, <3>3 DEF Told
  <2>7. \A s \in Sides \ {side} : Told(s)'
    BY <1>0, <2>1, <2>2, <2>3, OtherTold
  <2> QED BY <1>0, <2>1, <2>3, <2>6, <2>7 DEF TellInv, SettingOK
<1>4. ASSUME NEW side \in Sides, End(side) PROVE TellInv'
  <2> DEFINE end == EndEvent(backend[side], lost[side])
  <2>1. /\ Append1(side, <<end>>) /\ phase[side] = "recording"
        /\ phase' = [phase EXCEPT ![side] = "ended"]
        /\ UNCHANGED <<host, backend, truth, lost>>
    BY <1>4 DEF End
  <2>2. IsStream(<<end>>) /\ Range(<<end>>) = {end} /\ end.op = "session_end"
    BY ShortStreams, Ranges DEF EndEvent
  <2> HIDE DEF end
  <2>3. /\ file'[side].lines = file[side].lines \o <<end>>
        /\ \A s \in Sides \ {side} : file'[s] = file[s]
    BY <1>0, <2>1, <2>2, Appended
  <2>4. IsStream(file[side].lines)
    BY <1>0 DEF TypeOK
  <2>5. phase'[side] = "ended" /\ \A s \in Sides \ {side} : phase'[s] = phase[s]
    BY <1>0, <2>1 DEF TypeOK
  <2>6. Range(file'[side].lines) = Range(file[side].lines) \cup {end}
    BY <2>2, <2>3, <2>4, RangeOfBoth
  <2>7. /\ Opening(side)' = Opening(side)
        /\ \A d, p : Says(side, d, p)' = Says(side, d, p)
    BY <2>1 DEF Opening, Says
  <2>8. Told(side)'
    <3>0. Begun(side) /\ ToldOnly(side) /\ ToldAll(side)
      BY <1>0 DEF Told
    <3>1. Begun(side)'
      <4>1. 1 \in DOMAIN file[side].lines /\ file[side].lines[1] = Opening(side)
        BY <2>1, <3>0 DEF Begun
      <4>2. PICK m \in Nat, n \in Nat : m = Len(file[side].lines) /\ n = Len(<<end>>)
        BY <2>2, <2>4, Concatenation
      <4>3. 1 \in 1 .. m /\ 1 \in 1 .. (m + n)
        BY <4>1, <4>2, <2>2, <2>4, Concatenation
      <4>4. 1 \in DOMAIN file'[side].lines /\ file'[side].lines[1] = Opening(side)
        BY <2>2, <2>3, <2>4, <4>1, <4>2, <4>3, Concatenation
      <4> QED BY <2>5, <2>7, <4>4 DEF Begun
    <3>2. ToldOnly(side)'
      BY <2>1, <2>2, <2>6, <2>7, <3>0 DEF ToldOnly
    <3>3. ToldAll(side)'
      BY <2>1, <2>6, <2>7, <3>0 DEF ToldAll
    <3> QED BY <3>1, <3>2, <3>3 DEF Told
  <2>9. \A s \in Sides \ {side} : Told(s)'
    BY <1>0, <2>1, <2>3, <2>5, OtherTold
  <2> QED BY <1>0, <2>1, <2>8, <2>9 DEF TellInv, SettingOK
<1>5. ASSUME NEW side \in Sides, Kill(side) PROVE TellInv'
  <2>1. PICK torn \in BOOLEAN : file' = [file EXCEPT ![side].torn = torn]
    BY <1>5 DEF Kill
  <2>2. /\ phase' = [phase EXCEPT ![side] = "killed"] /\ phase[side] = "recording"
        /\ UNCHANGED <<host, backend, truth, lost>>
    BY <1>5 DEF Kill
  <2>3. phase'[side] = "killed" /\ \A s \in Sides \ {side} : phase'[s] = phase[s]
    BY <1>0, <2>2 DEF TypeOK
  <2>4. file[side] \in [lines : {file[s].lines : s \in Sides}, torn : BOOLEAN] /\ DOMAIN file = Sides
    BY <1>0 DEF TypeOK
  <2>5. file'[side].lines = file[side].lines
    BY <2>1, <2>4
  <2>6. \A s \in Sides \ {side} : file'[s] = file[s]
    BY <2>1, <2>4
  <2>7. /\ Opening(side)' = Opening(side)
        /\ \A d, p : Says(side, d, p)' = Says(side, d, p)
    BY <2>2 DEF Opening, Says
  <2>8. Told(side)'
    <3>0. Begun(side) /\ ToldOnly(side) /\ ToldAll(side)
      BY <1>0 DEF Told
    <3>1. Begun(side)'
      BY <2>2, <2>3, <2>5, <2>7, <3>0 DEF Begun
    <3>2. ToldOnly(side)'
      BY <2>2, <2>5, <2>7, <3>0 DEF ToldOnly
    <3>3. ToldAll(side)'
      BY <2>2, <2>5, <2>7, <3>0 DEF ToldAll
    <3> QED BY <3>1, <3>2, <3>3 DEF Told
  <2>9. \A s \in Sides \ {side} : Told(s)'
    BY <1>0, <2>2, <2>3, <2>6, OtherTold
  <2> QED BY <1>0, <2>2, <2>8, <2>9 DEF TellInv, SettingOK
<1>6. CASE UNCHANGED vars
  BY <1>0, <1>6, OtherTold DEF vars, TellInv, SettingOK
<1> QED BY <1>1, <1>2, <1>3, <1>4, <1>5, <1>6 DEF Next

-----------------------------------------------------------------------------
(* Profiles, and what two versions differ in                               *)

\* Either recorder tells every deed it sees.
LEMMA EventsTell ==
    ASSUME NEW on \in Hosts, NEW deed \in Deeds, NEW by \in {"strace", "aya"}, NEW placed \in BOOLEAN
    PROVE  Tells(Range(Events(deed, by, on, placed)), deed, by, ZonesOf(on))
  BY StraceTells, AyaTells DEF Events

\* A reader takes the zones and the recorder from the file's first line.
LEMMA FirstLineIsRead ==
    ASSUME FileInv, TellInv, NEW side \in Sides, phase[side] # "waiting"
    PROVE  /\ SessionZones(file[side].lines) = ZonesOf(host[side])
           /\ DetectBackend(file[side].lines) = backend[side]
           /\ IsStream(file[side].lines) /\ IsFiniteSet(DOMAIN file[side].lines)
<1> DEFINE s == file[side].lines
           starts == {i \in DOMAIN s : s[i].op = "session_start"}
<1>1. 1 \in DOMAIN s /\ s[1] = Opening(side)
  BY DEF TellInv, Told, Begun
<1>2. IsStream(s)
  BY DEF FileInv, TypeOK
<1> HIDE DEF s
<1>3. DOMAIN s = 1 .. Len(s) /\ Len(s) \in Nat
  BY <1>2 DEF IsStream
<1>4. Opening(side).op = "session_start" /\ Opening(side).zones = ZonesOf(host[side])
      /\ Opening(side).backend = backend[side]
  BY DEF Opening, StartEvent
<1>5. 1 \in starts /\ starts \in SUBSET Nat /\ \A i \in starts : 1 <= i
  BY <1>1, <1>3, <1>4
<1>6. Min(starts) = 1
  BY <1>5, LeastIs
<1>7. SessionZones(s) = s[1].zones
  BY <1>5, <1>6 DEF SessionZones
<1>8. s # <<>> /\ Head(s) = s[1]
  BY <1>1, <1>2, <1>3 DEF IsStream
<1>9. DetectBackend(s) = s[1].backend
  BY <1>8 DEF DetectBackend
<1>10. IsFiniteSet(DOMAIN s)
  BY <1>3, FS_Interval
<1> QED BY <1>1, <1>2, <1>4, <1>7, <1>9, <1>10 DEF s

\* A profile without unresolved paths has left nothing out.
LEMMA NothingUnplaced ==
    ASSUME NEW s, IsFiniteSet(DOMAIN s), ~(ProfileOf(s).unresolved_paths > 0)
    PROVE  \A e \in Range(s) : ~Unplaced(e, SessionZones(s))
<1> DEFINE left == {i \in DOMAIN s : Unplaced(s[i], SessionZones(s))}
<1>1. ProfileOf(s).unresolved_paths = Cardinality(left)
  BY DEF ProfileOf, Unplaced
<1>2. IsFiniteSet(left)
  BY FS_Subset
<1>3. Cardinality(left) = 0
  <2>1. Cardinality(left) \in Nat /\ ~(Cardinality(left) > 0)
    BY <1>1, <1>2, FS_CardinalityType
  <2> HIDE DEF left
  <2> QED BY <2>1
<1>4. left = {}
  BY <1>2, <1>3, FS_EmptySet
<1> QED BY <1>4 DEF Range

\* The profile of a whole recording is what the install did.
LEMMA ProfileIsTrue ==
    ASSUME FileInv, TellInv, NEW side \in Sides, phase[side] # "waiting", lost[side] = 0,
           \A e \in Range(file[side].lines) : ~Unplaced(e, ZonesOf(host[side]))
    PROVE  ProfileOf(file[side].lines).behaviors = TrueProfile(side)
<1> DEFINE s == file[side].lines
           zones == ZonesOf(host[side])
           by == backend[side]
<1>1. SessionZones(s) = zones
  BY FirstLineIsRead
<1>2. ProfileOf(s).behaviors = UNION {Behaviors(s[i], SessionZones(s)) : i \in DOMAIN s}
  BY DEF ProfileOf
<1>3. ProfileOf(s).behaviors = UNION {Behaviors(e, zones) : e \in Range(s)}
  BY <1>1, <1>2 DEF Range
<1>4. host[side] \in Hosts /\ by \in {"strace", "aya"} /\ truth[side] \in Seq(Deeds)
      /\ ToldOnly(side) /\ ToldAll(side)
  BY DEF TellInv, SettingOK, Told
<1>5. Range(truth[side]) \subseteq Deeds
  BY <1>4 DEF Range
<1>6. \A deed \in Deeds, placed \in BOOLEAN : Tells(Says(side, deed, placed), deed, by, zones)
  BY <1>4, EventsTell DEF Says
<1>7. ASSUME NEW e \in Range(s), NEW b \in Behaviors(e, zones) PROVE b \in TrueProfile(side)
  <2>1. e.op \notin {"session_start", "session_end"}
    BY <1>7 DEF Behaviors
  <2>2. Opening(side).op = "session_start"
    BY DEF Opening, StartEvent
  <2>3. PICK deed \in Range(truth[side]), placed \in BOOLEAN : e \in Says(side, deed, placed)
    BY <1>4, <2>1, <2>2 DEF ToldOnly
  <2>4. Tells(Says(side, deed, placed), deed, by, zones)
    BY <1>5, <1>6
  <2>5. b \in TrueBehaviors(deed, by)
    BY <2>3, <2>4, <1>7 DEF Tells
  <2> QED BY <2>5 DEF TrueProfile
<1>8. ASSUME NEW deed \in Range(truth[side]), NEW b \in TrueBehaviors(deed, by)
      PROVE  \E e \in Range(s) : b \in Behaviors(e, zones)
  <2>1. PICK placed \in BOOLEAN : Says(side, deed, placed) \subseteq Range(s)
    BY <1>4 DEF ToldAll
  <2>2. Tells(Says(side, deed, placed), deed, by, zones)
    BY <1>5, <1>6
  <2>3. \A e \in Says(side, deed, placed) : ~Unplaced(e, zones)
    BY <2>1
  <2>4. PICK e \in Says(side, deed, placed) : b \in Behaviors(e, zones)
    BY <2>2, <2>3 DEF Tells
  <2> QED BY <2>1, <2>4
<1> HIDE DEF s, zones
<1>9. UNION {Behaviors(e, zones) : e \in Range(s)} = TrueProfile(side)
  BY <1>7, <1>8 DEF TrueProfile
<1> QED BY <1>3, <1>9 DEF s

\* The files of a reachable state tell of what was done, and of nothing else.
LEMMA FilesTell == Spec => []TellInv
  BY NothingTold, StepTells, FilesAreTrue, PTL DEF Spec

\* What a comparison attributes to the package is exactly what the package did
\* differently (diff.rs compares two sets of behaviors told without the hosts,
\* and refuses to when a recording is partial).
THEOREM DiffAttributesTruly == Spec => []DiffIsOfThePackage
<1>1. ASSUME FileInv, TellInv PROVE DiffIsOfThePackage
  <2> DEFINE recording == [side \in Sides |-> ProfileOf(file[side].lines)]
             comparison == DiffVersions(file)
  <2>1. SUFFICES ASSUME \A side \in Sides : Readable(side), Comparable(comparison),
                        \A side \in Sides : <<"UnresolvedPaths", side>> \notin comparison.caveats
                 PROVE  /\ comparison.added = TrueProfile("after") \ TrueProfile("before")
                        /\ comparison.removed = TrueProfile("before") \ TrueProfile("after")
    BY DEF DiffIsOfThePackage
  <2>2. /\ comparison.added = recording["after"].behaviors \ recording["before"].behaviors
        /\ comparison.removed = recording["before"].behaviors \ recording["after"].behaviors
        /\ comparison.blockers = Blockers(recording) /\ comparison.caveats = Caveats(recording)
    BY DEF DiffVersions, Compare
  <2> HIDE DEF comparison
  <2>3. ASSUME NEW side \in Sides PROVE recording[side].behaviors = TrueProfile(side)
    <3>1. recording[side] = ProfileOf(file[side].lines)
      OBVIOUS
    <3> HIDE DEF recording
    <3>2. recording[side].complete
      BY <2>1, <2>2 DEF Comparable, Blockers
    <3>3. ~(recording[side].unresolved_paths > 0)
      BY <2>1, <2>2 DEF Caveats
    <3>4. Trusted(file[side]) /\ Finished(side)
      <4>1. ProfileOf(file[side].lines).complete
                <=> Terminated(file[side].lines) /\ LastEnd(file[side].lines).complete
        BY DEF ProfileOf
      <4> QED BY <2>1, <3>1, <3>2, <4>1 DEF Trusted, Readable, Finished
    <3>5. lost[side] = 0 /\ phase[side] # "waiting"
      BY <1>1, <3>4, TrustedIsWhole DEF Whole
    <3>6. SessionZones(file[side].lines) = ZonesOf(host[side]) /\ IsFiniteSet(DOMAIN file[side].lines)
      BY <1>1, <3>5, FirstLineIsRead
    <3>7. \A e \in Range(file[side].lines) : ~Unplaced(e, ZonesOf(host[side]))
      BY <3>1, <3>3, <3>6, NothingUnplaced
    <3> QED BY <1>1, <3>1, <3>5, <3>7, ProfileIsTrue
  <2> HIDE DEF recording
  <2> QED BY <2>2, <2>3 DEF Sides
<1> QED BY <1>1, FilesAreTrue, FilesTell, PTL

-----------------------------------------------------------------------------
(* Findings, and the order they are shown in                               *)

\* A set as a sequence has each member once.
LEMMA SetAsSequence ==
    ASSUME NEW S, IsFiniteSet(S)
    PROVE  /\ DOMAIN SetToSeq(S) = 1 .. Cardinality(S) /\ Cardinality(S) \in Nat
           /\ \A i \in DOMAIN SetToSeq(S) : SetToSeq(S)[i] \in S
           /\ \A x \in S : \E i \in DOMAIN SetToSeq(S) : SetToSeq(S)[i] = x
           /\ \A i, j \in DOMAIN SetToSeq(S) : SetToSeq(S)[i] = SetToSeq(S)[j] => i = j
<1>1. Cardinality(S) \in Nat /\ ExistsBijection(1 .. Cardinality(S), S)
  BY FS_CardinalityType
<1>2. \E f \in [1 .. Cardinality(S) -> S] : IsInjective(f)
  BY <1>1 DEF ExistsBijection, Bijection, Injection, IsInjective
<1>3. SetToSeq(S) \in [1 .. Cardinality(S) -> S] /\ IsInjective(SetToSeq(S))
  BY <1>2 DEF SetToSeq
<1>4. /\ IsFiniteSet(1 .. Cardinality(S)) /\ Cardinality(1 .. Cardinality(S)) = Cardinality(S)
  BY <1>1, FS_Interval
<1>5. SetToSeq(S) \in Injection(1 .. Cardinality(S), S)
  BY <1>3 DEF Injection
<1>6. SetToSeq(S) \in Surjection(1 .. Cardinality(S), S)
  BY <1>4, <1>5, FS_Injection
<1> QED BY <1>1, <1>3, <1>6 DEF IsInjective, Surjection

\* In a strict order of a finite set, each has a place of its own, and every place is taken.
LEMMA EachHasAPlace ==
    ASSUME NEW F, IsFiniteSet(F), NEW Order, NEW below,
           below = [f \in F |-> {g \in F : <<g, f>> \in Order}],
           \A a \in F : <<a, a>> \notin Order,
           \A a, b, c \in F : <<a, b>> \in Order /\ <<b, c>> \in Order => <<a, c>> \in Order,
           \A a, b \in F : a = b \/ <<a, b>> \in Order \/ <<b, a>> \in Order
    PROVE  /\ Cardinality(F) \in Nat
           /\ \A f \in F : Cardinality(below[f]) + 1 \in 1 .. Cardinality(F)
           /\ \A n \in 1 .. Cardinality(F) : \E f \in F : Cardinality(below[f]) = n - 1
           /\ \A f, g \in F : Cardinality(below[f]) = Cardinality(below[g]) => f = g
<1>1. PICK n \in Nat : n = Cardinality(F)
  BY FS_CardinalityType
<1>2. ASSUME NEW f \in F
      PROVE  /\ IsFiniteSet(below[f]) /\ f \notin below[f] /\ below[f] \subseteq F
             /\ Cardinality(below[f]) \in Nat
  <2>1. below[f] \subseteq F /\ f \notin below[f]
    OBVIOUS
  <2> QED BY <2>1, FS_Subset, FS_CardinalityType
<1>3. ASSUME NEW f \in F, NEW S, IsFiniteSet(S), below[f] \subseteq S, f \in S
      PROVE  Cardinality(below[f]) + 1 <= Cardinality(S)
  <2>1. Cardinality(below[f] \cup {f}) = Cardinality(below[f]) + 1
    BY <1>2, FS_AddElement
  <2>2. below[f] \cup {f} \in SUBSET S
    BY <1>3
  <2>3. Cardinality(below[f] \cup {f}) <= Cardinality(S)
    BY <1>3, <2>2, FS_Subset
  <2> QED BY <2>1, <2>3
<1>4. ASSUME NEW f \in F PROVE Cardinality(below[f]) + 1 \in 1 .. n
  <2>1. PICK k \in Nat : k = Cardinality(below[f])
    BY <1>2
  <2>2. k + 1 <= n
    BY <1>1, <1>2, <1>3, <2>1
  <2>3. k + 1 \in 1 .. n
    BY <2>2
  <2> QED BY <2>1, <2>3
<1>5. ASSUME NEW f \in F, NEW g \in F, <<f, g>> \in Order
      PROVE  Cardinality(below[f]) # Cardinality(below[g])
  <2>1. below[f] \subseteq below[g] /\ f \in below[g]
    BY <1>5
  <2>2. Cardinality(below[f]) + 1 <= Cardinality(below[g])
    BY <2>1, <1>2, <1>3
  <2>3. PICK k \in Nat, l \in Nat : k = Cardinality(below[f]) /\ l = Cardinality(below[g])
    BY <1>2
  <2>4. k # l
    BY <2>2, <2>3
  <2> QED BY <2>3, <2>4
<1>6. ASSUME NEW f \in F, NEW g \in F, Cardinality(below[f]) = Cardinality(below[g]) PROVE f = g
  BY <1>5, <1>6
<1> DEFINE place == [f \in F |-> Cardinality(below[f]) + 1]
<1>7. place \in Injection(F, 1 .. n)
  <2>1. place \in [F -> 1 .. n]
    BY <1>4
  <2>2. ASSUME NEW f \in F, NEW g \in F, place[f] = place[g] PROVE f = g
    <3>1. PICK k \in Nat, l \in Nat : k = Cardinality(below[f]) /\ l = Cardinality(below[g])
      BY <1>2
    <3>2. k + 1 = l + 1
      BY <2>2, <3>1
    <3>3. k = l
      BY <3>2
    <3> QED BY <3>1, <3>3, <1>6
  <2> HIDE DEF place
  <2> QED BY <2>1, <2>2 DEF Injection, IsInjective
<1>8. IsFiniteSet(1 .. n) /\ Cardinality(1 .. n) = n
  BY FS_Interval
<1>9. place \in Surjection(F, 1 .. n)
  BY <1>1, <1>7, <1>8, FS_Injection
<1>10. ASSUME NEW k \in 1 .. n PROVE \E f \in F : Cardinality(below[f]) = k - 1
  <2>1. PICK f \in F : place[f] = k
    BY <1>9 DEF Surjection
  <2>2. Cardinality(below[f]) + 1 = k
    BY <2>1
  <2>3. PICK l \in Nat : l = Cardinality(below[f])
    BY <1>2
  <2>4. l = k - 1
    BY <2>2, <2>3
  <2> QED BY <2>3, <2>4
<1> QED BY <1>1, <1>4, <1>6, <1>10

\* What a set of findings holds that stem from rules of the catalog.
FindingsOK(F) ==
    /\ IsFiniteSet(F)
    /\ \A f \in F : /\ f.severity \in Range(Severities) /\ f.occurrences \in Nat
                    /\ f.rule \in {r.id : r \in Range(Catalog.rules)}
    /\ \A f, g \in F : f.rule = g.rule /\ f.subject = g.subject => f = g

\* The severities and the rules, by their places.
LEMMA RanksTell ==
    /\ \A s \in Range(Severities) : Rank(s) \in 1 .. 4
    /\ \A s, t \in Range(Severities) : Rank(s) = Rank(t) => s = t
<1>1. DOMAIN Severities = 1 .. 4
  BY DEF Severities
<1>2. ASSUME NEW s \in Range(Severities) PROVE Rank(s) \in 1 .. 4 /\ Severities[Rank(s)] = s
  <2>1. \E i \in DOMAIN Severities : Severities[i] = s
    BY DEF Range
  <2>2. Rank(s) \in DOMAIN Severities /\ Severities[Rank(s)] = s
    BY <2>1 DEF Rank
  <2> QED BY <2>2, <1>1
<1> QED BY <1>2

\* A rule has one place in the catalog.
LEMMA PlaceOfRule ==
    \A id \in {r.id : r \in Range(Catalog.rules)} :
        LET place == CHOOSE i \in DOMAIN Catalog.rules : Catalog.rules[i].id = id
        IN  place \in Nat /\ place \in DOMAIN Catalog.rules /\ Catalog.rules[place].id = id
<1> SUFFICES ASSUME NEW id \in {r.id : r \in Range(Catalog.rules)}
             PROVE  LET place == CHOOSE i \in DOMAIN Catalog.rules : Catalog.rules[i].id = id
                    IN  place \in Nat /\ place \in DOMAIN Catalog.rules /\ Catalog.rules[place].id = id
  OBVIOUS
<1>1. \E i \in DOMAIN Catalog.rules : Catalog.rules[i].id = id
  BY DEF Range
<1>2. DOMAIN Catalog.rules \subseteq Nat
  <2>1. Catalog.rules \in Seq(Range(Catalog.rules))
    BY CatalogAssumption
  <2> QED BY <2>1
<1> QED BY <1>1, <1>2

\* ShownBefore is a strict order of them.
LEMMA BeforeIsOrder ==
    ASSUME NEW F, FindingsOK(F), NEW subjects, subjects = SetToSeq({f.subject : f \in F}),
           IsFiniteSet({f.subject : f \in F})
    PROVE  /\ \A a \in F : ~ShownBefore(Catalog, subjects, a, a)
           /\ \A a, b, c \in F : ShownBefore(Catalog, subjects, a, b) /\ ShownBefore(Catalog, subjects, b, c)
                                 => ShownBefore(Catalog, subjects, a, c)
           /\ \A a, b \in F : a = b \/ ShownBefore(Catalog, subjects, a, b) \/ ShownBefore(Catalog, subjects, b, a)
<1> DEFINE place(id) == CHOOSE i \in DOMAIN Catalog.rules : Catalog.rules[i].id = id
           rank(subject) == CHOOSE i \in DOMAIN subjects : subjects[i] = subject
           R == [f \in F |-> Rank(f.severity)]
           O == [f \in F |-> f.occurrences]
           P == [f \in F |-> place(f.rule)]
           S == [f \in F |-> rank(f.subject)]
           less(a, b) ==
               \/ R[a] < R[b]
               \/ R[a] = R[b] /\ O[a] > O[b]
               \/ R[a] = R[b] /\ O[a] = O[b] /\ (P[a] < P[b] \/ (P[a] = P[b] /\ S[a] < S[b]))
<1>1. ASSUME NEW f \in F PROVE R[f] \in Nat /\ O[f] \in Nat
  <2>1. Rank(f.severity) \in 1 .. 4
    BY RanksTell DEF FindingsOK
  <2> QED BY <2>1 DEF FindingsOK
<1>2. ASSUME NEW f \in F PROVE P[f] \in Nat /\ Catalog.rules[P[f]].id = f.rule
  <2>1. f.rule \in {r.id : r \in Range(Catalog.rules)}
    BY DEF FindingsOK
  <2>2. place(f.rule) \in Nat /\ Catalog.rules[place(f.rule)].id = f.rule
    BY <2>1, PlaceOfRule
  <2> HIDE DEF place
  <2> QED BY <2>2
<1>3. ASSUME NEW f \in F PROVE S[f] \in Nat /\ subjects[S[f]] = f.subject
  <2>1. /\ DOMAIN subjects = 1 .. Cardinality({g.subject : g \in F})
        /\ \A x \in {g.subject : g \in F} : \E i \in DOMAIN subjects : subjects[i] = x
        /\ Cardinality({g.subject : g \in F}) \in Nat
    BY SetAsSequence
  <2>2. \E i \in DOMAIN subjects : subjects[i] = f.subject
    BY <2>1
  <2>3. rank(f.subject) \in DOMAIN subjects /\ subjects[rank(f.subject)] = f.subject
    BY <2>2
  <2> HIDE DEF rank
  <2> QED BY <2>1, <2>3
<1>4. ASSUME NEW a \in F, NEW b \in F PROVE ShownBefore(Catalog, subjects, a, b) <=> less(a, b)
  <2>1. Rank(a.severity) = Rank(b.severity) <=> a.severity = b.severity
    BY RanksTell DEF FindingsOK
  <2>2. P[a] = P[b] <=> a.rule = b.rule
    BY <1>2
  <2>3. ShownBefore(Catalog, subjects, a, b) <=>
            \/ Rank(a.severity) < Rank(b.severity)
            \/ a.severity = b.severity /\ a.occurrences > b.occurrences
            \/ /\ a.severity = b.severity /\ a.occurrences = b.occurrences
               /\ \/ place(a.rule) < place(b.rule)
                  \/ a.rule = b.rule /\ rank(a.subject) < rank(b.subject)
    BY DEF ShownBefore
  <2>4. /\ R[a] = Rank(a.severity) /\ R[b] = Rank(b.severity)
        /\ O[a] = a.occurrences /\ O[b] = b.occurrences
        /\ P[a] = place(a.rule) /\ P[b] = place(b.rule)
        /\ S[a] = rank(a.subject) /\ S[b] = rank(b.subject)
    OBVIOUS
  <2> HIDE DEF place, rank, R, O, P, S
  <2> QED BY <2>1, <2>2, <2>3, <2>4
<1>5. ASSUME NEW a \in F, NEW b \in F, P[a] = P[b], S[a] = S[b] PROVE a = b
  <2> HIDE DEF place, rank, P, S
  <2>1. a.rule = b.rule
    BY <1>2, <1>5
  <2>2. a.subject = b.subject
    BY <1>3, <1>5
  <2> QED BY <2>1, <2>2 DEF FindingsOK
<1> HIDE DEF place, rank, R, O, P, S
<1>6. \A a \in F : ~less(a, a)
  BY <1>1, <1>2, <1>3
<1>7. \A a, b, c \in F : less(a, b) /\ less(b, c) => less(a, c)
  BY <1>1, <1>2, <1>3
<1>8. \A a, b \in F : a = b \/ less(a, b) \/ less(b, a)
  BY <1>1, <1>2, <1>3, <1>5
<1> HIDE DEF less
<1> QED BY <1>4, <1>6, <1>7, <1>8

\* The image of a finite set under a function.
LEMMA FiniteImage ==
    ASSUME NEW S, IsFiniteSet(S), NEW f, DOMAIN f = S
    PROVE  IsFiniteSet({f[x] : x \in S})
<1> DEFINE T == {f[x] : x \in S}
           g == [x \in S |-> f[x]]
<1>1. g \in Surjection(S, T)
  BY DEF Surjection
<1> QED BY <1>1, FS_Surjection

\* What is sorted for display is what was found, each once.
LEMMA SortKeepsAll ==
    ASSUME NEW F, FindingsOK(F)
    PROVE  /\ Range(SortForDisplay(Catalog, F)) = F
           /\ DOMAIN SortForDisplay(Catalog, F) = 1 .. Cardinality(F)
<1> DEFINE T == {f.subject : f \in F}
           subjects == SetToSeq(T)
           Order == {p \in F \X F : ShownBefore(Catalog, subjects, p[1], p[2])}
           below == [f \in F |-> {g \in F : <<g, f>> \in Order}]
           preceding(f) == {g \in F : ShownBefore(Catalog, subjects, g, f)}
           sorted == SortForDisplay(Catalog, F)
<1>1. IsFiniteSet(T)
  <2> DEFINE s == [f \in F |-> f.subject]
  <2>1. IsFiniteSet(F) /\ DOMAIN s = F /\ {s[f] : f \in F} = T
    BY DEF FindingsOK
  <2> HIDE DEF s, T
  <2>2. IsFiniteSet({s[f] : f \in F})
    BY <2>1, FiniteImage
  <2> QED BY <2>1, <2>2
<1>2. \A a, b \in F : <<a, b>> \in Order <=> ShownBefore(Catalog, subjects, a, b)
  OBVIOUS
<1>3. sorted = [n \in 1 .. Cardinality(F) |-> CHOOSE f \in F : Cardinality(preceding(f)) = n - 1]
  BY DEF SortForDisplay
<1>4. \A f \in F : preceding(f) = below[f]
  BY <1>2
<1> HIDE DEF Order
<1>5. /\ \A a \in F : <<a, a>> \notin Order
      /\ \A a, b, c \in F : <<a, b>> \in Order /\ <<b, c>> \in Order => <<a, c>> \in Order
      /\ \A a, b \in F : a = b \/ <<a, b>> \in Order \/ <<b, a>> \in Order
  BY <1>1, <1>2, BeforeIsOrder
<1>6. /\ Cardinality(F) \in Nat
      /\ \A f \in F : Cardinality(below[f]) + 1 \in 1 .. Cardinality(F)
      /\ \A n \in 1 .. Cardinality(F) : \E f \in F : Cardinality(below[f]) = n - 1
      /\ \A f, g \in F : Cardinality(below[f]) = Cardinality(below[g]) => f = g
  <2> HIDE DEF T, subjects
  <2>1. IsFiniteSet(F)
    BY DEF FindingsOK
  <2> QED BY <1>5, <2>1, EachHasAPlace
<1>7. \A f \in F : Cardinality(below[f]) \in Nat
  <2>1. \A f \in F : below[f] \in SUBSET F
    OBVIOUS
  <2> QED BY <2>1, FS_Subset, FS_CardinalityType DEF FindingsOK
<1> HIDE DEF below, subjects, T
<1>8. ASSUME NEW n \in 1 .. Cardinality(F)
      PROVE  sorted[n] \in F /\ Cardinality(below[sorted[n]]) = n - 1
  <2>1. \E f \in F : Cardinality(preceding(f)) = n - 1
    BY <1>4, <1>6
  <2>2. sorted[n] = CHOOSE f \in F : Cardinality(preceding(f)) = n - 1
    BY <1>3
  <2> HIDE DEF sorted
  <2>3. sorted[n] \in F /\ Cardinality(preceding(sorted[n])) = n - 1
    BY <2>1, <2>2
  <2> QED BY <2>3, <1>4
<1>9. DOMAIN sorted = 1 .. Cardinality(F)
  BY <1>3
<1> HIDE DEF sorted
<1>10. ASSUME NEW f \in F PROVE f \in Range(sorted)
  <2> DEFINE n == Cardinality(below[f]) + 1
  <2>1. n \in 1 .. Cardinality(F) /\ Cardinality(below[f]) = n - 1
    BY <1>6, <1>7
  <2> HIDE DEF n
  <2>2. sorted[n] = f
    BY <2>1, <1>6, <1>8
  <2> QED BY <2>1, <2>2, <1>9 DEF Range
<1>11. Range(sorted) = F
  BY <1>8, <1>9, <1>10 DEF Range
<1> QED BY <1>9, <1>11 DEF sorted

\* The rule for a kind: one at most, enabled, of that kind.
LEMMA RuleOfKind ==
    /\ \A kind : \A r \in RuleFor(Catalog, kind) : r \in Range(Catalog.rules) /\ r.enabled /\ r.kind = kind
    /\ \A kind : \A r, q \in RuleFor(Catalog, kind) : r = q
    /\ \A r, q \in Range(Catalog.rules) : r.id = q.id => r = q
<1>1. DOMAIN Catalog.rules \subseteq Nat
  <2>1. Catalog.rules \in Seq(Range(Catalog.rules))
    BY CatalogAssumption
  <2> QED BY <2>1
<1>2. ASSUME NEW kind, NEW r \in RuleFor(Catalog, kind)
      PROVE  r \in Range(Catalog.rules) /\ r.enabled /\ r.kind = kind
  BY DEF RuleFor, Range
<1>3. ASSUME NEW kind, NEW r \in RuleFor(Catalog, kind), NEW q \in RuleFor(Catalog, kind) PROVE r = q
  <2> DEFINE enabled == {i \in DOMAIN Catalog.rules : Catalog.rules[i].enabled /\ Catalog.rules[i].kind = kind}
             first == {i \in enabled : \A j \in enabled : i <= j}
  <2>1. RuleFor(Catalog, kind) = {Catalog.rules[i] : i \in first}
    BY DEF RuleFor
  <2>2. PICK i \in first, j \in first : r = Catalog.rules[i] /\ q = Catalog.rules[j]
    BY <2>1
  <2>3. i \in Nat /\ j \in Nat /\ i <= j /\ j <= i
    BY <1>1
  <2>4. i = j
    BY <2>3
  <2> QED BY <2>2, <2>4
<1>4. ASSUME NEW r \in Range(Catalog.rules), NEW q \in Range(Catalog.rules), r.id = q.id PROVE r = q
  <2>1. PICK i \in DOMAIN Catalog.rules, j \in DOMAIN Catalog.rules :
            r = Catalog.rules[i] /\ q = Catalog.rules[j]
    BY DEF Range
  <2>2. i = j
    BY <1>4, <2>1, CatalogAssumption DEF ValidCatalog
  <2> QED BY <2>1, <2>2
<1> QED BY <1>2, <1>3, <1>4

\* An event fires one rule at most.
LEMMA FiresOnce ==
    ASSUME NEW zones, NEW e
    PROVE  \A f, g \in Evaluate(Catalog, zones, e) : f = g
<1>1. \A f, g \in {} : f = g
  OBVIOUS
<1>2. \A kind, subject : \A f, g \in Fires(kind, subject) : f = g
  BY DEF Fires
<1>3. \A placement : \A f, g \in EvaluateWrite(e, placement) : f = g
  BY <1>2 DEF EvaluateWrite
<1>4. \A f, g \in EvaluateRead(Catalog, e) : f = g
  BY <1>2 DEF EvaluateRead
<1>5. \A f, g \in EvaluateConnect(e) : f = g
  BY <1>2 DEF EvaluateConnect
<1>6. \A f, g \in EvaluateDns(Catalog, e) : f = g
  BY <1>2 DEF EvaluateDns
<1>7. \A f, g \in EvaluateSpawn(Catalog, e) : f = g
  BY <1>2 DEF EvaluateSpawn
<1> QED BY <1>3, <1>4, <1>5, <1>6, <1>7 DEF Evaluate

\* What an event is found to be.
Found(zones, e) == Emit(Catalog, Evaluate(Catalog, zones, e))

\* A finding of an event is what a rule that fired makes of it.
LEMMA FoundIs ==
    ASSUME NEW zones, NEW e
    PROVE  /\ \A g \in Found(zones, e) :
                 \E f \in Evaluate(Catalog, zones, e) : \E r \in RuleFor(Catalog, f.kind) :
                     g = [rule |-> r.id, severity |-> r.severity, subject |-> f.subject]
           /\ \A f \in Evaluate(Catalog, zones, e) : \A r \in RuleFor(Catalog, f.kind) :
                 [rule |-> r.id, severity |-> r.severity, subject |-> f.subject] \in Found(zones, e)
           /\ \A g, h \in Found(zones, e) : g = h
<1>1. Found(zones, e) =
          UNION {{[rule |-> r.id, severity |-> r.severity, subject |-> f.subject]
                     : r \in RuleFor(Catalog, f.kind)} : f \in Evaluate(Catalog, zones, e)}
  BY DEF Found, Emit
<1>2. \A g \in Found(zones, e) :
          \E f \in Evaluate(Catalog, zones, e) : \E r \in RuleFor(Catalog, f.kind) :
              g = [rule |-> r.id, severity |-> r.severity, subject |-> f.subject]
  BY <1>1
<1>3. \A f \in Evaluate(Catalog, zones, e) : \A r \in RuleFor(Catalog, f.kind) :
          [rule |-> r.id, severity |-> r.severity, subject |-> f.subject] \in Found(zones, e)
  BY <1>1
<1>4. \A g, h \in Found(zones, e) : g = h
  BY <1>2, FiresOnce, RuleOfKind
<1> QED BY <1>2, <1>3, <1>4

\* One finding for what the events were found to be, and nothing else.
Gathers(F, raw) ==
    /\ FindingsOK(F)
    /\ \A f \in F : \E i \in DOMAIN raw : \E g \in raw[i] :
          f.rule = g.rule /\ f.severity = g.severity /\ f.subject = g.subject
    /\ \A i \in DOMAIN raw : \A g \in raw[i] : \E f \in F :
          f.rule = g.rule /\ f.severity = g.severity /\ f.subject = g.subject

\* What is found again is one finding, and all of it is from the events.
LEMMA DeduplicateKeepsAll ==
    ASSUME NEW s, IsFiniteSet(DOMAIN s), NEW zones, NEW raw, DOMAIN raw = DOMAIN s,
           \A i \in DOMAIN s : raw[i] \subseteq Found(zones, s[i])
    PROVE  Gathers(Deduplicate(raw), raw)
<1> DEFINE times(f) == Cardinality({i \in DOMAIN raw : f \in raw[i]})
           made(f) == [rule |-> f.rule, severity |-> f.severity, subject |-> f.subject,
                       occurrences |-> times(f), evidence |-> AtMost(times(f), MaxEvidence)]
           F == Deduplicate(raw)
<1>1. F = {made(f) : f \in UNION Range(raw)}
  BY DEF Deduplicate
<1>2. \A f : times(f) \in Nat
  <2> SUFFICES ASSUME NEW f PROVE times(f) \in Nat
    OBVIOUS
  <2>1. {i \in DOMAIN raw : f \in raw[i]} \in SUBSET DOMAIN s
    OBVIOUS
  <2> QED BY <2>1, FS_Subset, FS_CardinalityType
<1> HIDE DEF times
<1>3. /\ \A f \in F : \E i \in DOMAIN s : \E g \in raw[i] : f = made(g)
      /\ \A i \in DOMAIN s : \A g \in raw[i] : made(g) \in F
  BY <1>1 DEF Range
<1>4. \A f : /\ made(f).rule = f.rule /\ made(f).severity = f.severity /\ made(f).subject = f.subject
             /\ made(f).occurrences = times(f)
  OBVIOUS
<1>5. \A i \in DOMAIN s : \A g, h \in raw[i] : g = h
  BY FoundIs
<1>6. ASSUME NEW i \in DOMAIN s, NEW g \in raw[i]
      PROVE  \E r \in Range(Catalog.rules) :
                 /\ g = [rule |-> r.id, severity |-> r.severity, subject |-> g.subject]
                 /\ g.rule = r.id /\ g.severity = r.severity
  <2>1. g \in Found(zones, s[i])
    OBVIOUS
  <2>2. PICK f \in Evaluate(Catalog, zones, s[i]) : \E r \in RuleFor(Catalog, f.kind) :
            g = [rule |-> r.id, severity |-> r.severity, subject |-> f.subject]
    BY <2>1, FoundIs
  <2> QED BY <2>2, RuleOfKind
<1>7. IsFiniteSet(F)
  <2> DEFINE D == {i \in DOMAIN s : raw[i] # {}}
             h == [i \in D |-> made(CHOOSE g \in raw[i] : TRUE)]
  <2>1. IsFiniteSet(D)
    BY FS_Subset
  <2>2. \A i \in D : (CHOOSE g \in raw[i] : TRUE) \in raw[i]
    OBVIOUS
  <2> HIDE DEF F
  <2>3. \A i \in D : h[i] \in F
    BY <1>3, <2>2
  <2>4. ASSUME NEW f \in F PROVE \E i \in D : h[i] = f
    <3>1. PICK i \in DOMAIN s : \E g \in raw[i] : f = made(g)
      BY <1>3
    <3>2. PICK g \in raw[i] : f = made(g)
      BY <3>1
    <3>3. i \in D /\ g = CHOOSE x \in raw[i] : TRUE
      BY <1>5, <2>2
    <3> QED BY <3>2, <3>3
  <2>5. DOMAIN h = D
    OBVIOUS
  <2> HIDE DEF h, D
  <2>6. F = {h[i] : i \in D}
    BY <2>3, <2>4
  <2> QED BY <2>1, <2>5, <2>6, FiniteImage
<1> HIDE DEF F, made
<1>8. ASSUME NEW f \in F
      PROVE  /\ f.severity \in Range(Severities) /\ f.occurrences \in Nat
             /\ f.rule \in {r.id : r \in Range(Catalog.rules)}
  <2>1. PICK i \in DOMAIN s : \E g \in raw[i] : f = made(g)
    BY <1>3
  <2>2. PICK g \in raw[i] : f = made(g)
    BY <2>1
  <2>3. PICK r \in Range(Catalog.rules) : g.rule = r.id /\ g.severity = r.severity
    BY <1>6
  <2> QED BY <1>2, <1>4, <2>2, <2>3, CatalogAssumption
<1>9. ASSUME NEW f \in F, NEW g \in F, f.rule = g.rule, f.subject = g.subject PROVE f = g
  <2>1. PICK i \in DOMAIN s : \E x \in raw[i] : f = made(x)
    BY <1>3
  <2>2. PICK x \in raw[i] : f = made(x)
    BY <2>1
  <2>3. PICK j \in DOMAIN s : \E y \in raw[j] : g = made(y)
    BY <1>3
  <2>4. PICK y \in raw[j] : g = made(y)
    BY <2>3
  <2>5. x.rule = y.rule /\ x.subject = y.subject
    BY <1>4, <1>9, <2>2, <2>4
  <2>6. PICK r \in Range(Catalog.rules) :
            x = [rule |-> r.id, severity |-> r.severity, subject |-> x.subject] /\ x.rule = r.id
    BY <1>6
  <2>7. PICK q \in Range(Catalog.rules) :
            y = [rule |-> q.id, severity |-> q.severity, subject |-> y.subject] /\ y.rule = q.id
    BY <1>6
  <2>8. r = q
    BY <2>5, <2>6, <2>7, RuleOfKind
  <2>9. x = y
    BY <2>5, <2>6, <2>7, <2>8
  <2> QED BY <2>2, <2>4, <2>9
<1>10. FindingsOK(F)
  BY <1>7, <1>8, <1>9 DEF FindingsOK
<1>11. \A f \in F : \E i \in DOMAIN s : \E g \in raw[i] :
           f.rule = g.rule /\ f.severity = g.severity /\ f.subject = g.subject
  BY <1>3, <1>4
<1>12. \A i \in DOMAIN s : \A g \in raw[i] : \E f \in F :
           f.rule = g.rule /\ f.severity = g.severity /\ f.subject = g.subject
  BY <1>3, <1>4
<1> QED BY <1>10, <1>11, <1>12 DEF F, Gathers

\* The findings of an analysis are those of its events, but for the rules it skips.
LEMMA FindingsAreOfEvents ==
    ASSUME NEW s, IsFiniteSet(DOMAIN s), NEW zones, zones = SessionZones(s)
    PROVE  LET a == Analysis(Catalog, s)
           IN  /\ \A f \in Range(a.findings) : \E e \in Range(s) : \E g \in Found(zones, e) :
                     f.rule = g.rule /\ f.severity = g.severity /\ f.subject = g.subject
               /\ \A e \in Range(s) : \A g \in Found(zones, e) : g.rule \notin a.skipped_rules =>
                     \E f \in Range(a.findings) :
                         f.rule = g.rule /\ f.severity = g.severity /\ f.subject = g.subject
               /\ \E n \in Nat : DOMAIN a.findings = 1 .. n
<1> DEFINE a == Analysis(Catalog, s)
           raw == [i \in DOMAIN s |-> {f \in Found(zones, s[i]) : f.rule \notin a.skipped_rules}]
<1>1. a.findings = SortForDisplay(Catalog, Deduplicate(raw))
  BY DEF Analysis, Found
<1> HIDE DEF a
<1>2. DOMAIN raw = DOMAIN s /\ \A i \in DOMAIN s : raw[i] \subseteq Found(zones, s[i])
  OBVIOUS
<1>3. \A i \in DOMAIN s : \A g \in Found(zones, s[i]) : g.rule \notin a.skipped_rules => g \in raw[i]
  OBVIOUS
<1> HIDE DEF raw
<1>4. Gathers(Deduplicate(raw), raw)
  BY <1>2, DeduplicateKeepsAll
<1>5. Range(a.findings) = Deduplicate(raw) /\ DOMAIN a.findings = 1 .. Cardinality(Deduplicate(raw))
  BY <1>1, <1>4, SortKeepsAll DEF Gathers
<1>6. Cardinality(Deduplicate(raw)) \in Nat
  BY <1>4, FS_CardinalityType DEF Gathers, FindingsOK
<1>7. ASSUME NEW f \in Range(a.findings)
      PROVE  \E e \in Range(s) : \E g \in Found(zones, e) :
                 f.rule = g.rule /\ f.severity = g.severity /\ f.subject = g.subject
  <2>1. PICK i \in DOMAIN s : \E g \in raw[i] :
            f.rule = g.rule /\ f.severity = g.severity /\ f.subject = g.subject
    BY <1>2, <1>4, <1>5 DEF Gathers
  <2>2. s[i] \in Range(s) /\ raw[i] \subseteq Found(zones, s[i])
    BY <1>2 DEF Range
  <2> QED BY <2>1, <2>2
<1>8. ASSUME NEW e \in Range(s), NEW g \in Found(zones, e), g.rule \notin a.skipped_rules
      PROVE  \E f \in Range(a.findings) :
                 f.rule = g.rule /\ f.severity = g.severity /\ f.subject = g.subject
  <2>1. PICK i \in DOMAIN s : e = s[i]
    BY DEF Range
  <2>2. g \in raw[i]
    BY <1>3, <1>8, <2>1
  <2> QED BY <1>2, <1>4, <1>5, <2>1, <2>2 DEF Gathers
<1> QED BY <1>5, <1>6, <1>7, <1>8 DEF a

\* A finding that contributes is in the score.
LEMMA ScoreCounts ==
    ASSUME NEW findings, NEW n \in Nat, DOMAIN findings = 1 .. n,
           NEW i \in 1 .. n, findings[i].severity \in {"critical", "high", "medium"}
    PROVE  ScoreOf(findings).value > 0
<1> DEFINE count(s) == Cardinality({k \in DOMAIN findings : findings[k].severity = s})
           raw == 40 * count("critical") + 15 * count("high") + 5 * count("medium") + 0
<1>1. IsFiniteSet(1 .. n)
  BY FS_Interval
<1>2. \A s : count(s) \in Nat /\ (findings[i].severity = s => count(s) # 0)
  <2> SUFFICES ASSUME NEW s PROVE count(s) \in Nat /\ (findings[i].severity = s => count(s) # 0)
    OBVIOUS
  <2> DEFINE S == {k \in DOMAIN findings : findings[k].severity = s}
  <2>1. IsFiniteSet(S)
    BY <1>1, FS_Subset
  <2>2. Cardinality(S) \in Nat /\ (Cardinality(S) = 0 <=> S = {})
    BY <2>1, FS_CardinalityType, FS_EmptySet
  <2>3. findings[i].severity = s => i \in S
    OBVIOUS
  <2>4. findings[i].severity = s => S # {}
    BY <2>3
  <2> HIDE DEF S
  <2> QED BY <2>2, <2>4 DEF S
<1>3. ScoreOf(findings).value = AtMost(raw, ScoreCap)
  BY DEF ScoreOf, Contributes, Weight
<1> HIDE DEF count
<1>4. PICK c \in Nat, h \in Nat, m \in Nat :
          c = count("critical") /\ h = count("high") /\ m = count("medium")
  BY <1>2
<1>5. c # 0 \/ h # 0 \/ m # 0
  BY <1>2, <1>4
<1>6. 40 * c + 15 * h + 5 * m + 0 > 0
  BY <1>5
<1>7. raw > 0
  BY <1>4, <1>6
<1> HIDE DEF raw
<1> QED BY <1>3, <1>7 DEF AtMost, ScoreCap

-----------------------------------------------------------------------------
(* What a deed is found for                                                *)

\* What kinds of rule an event can fire, and that only a write needs zones for it.
LEMMA KindsOfEvents ==
    ASSUME NEW zones, NEW e, NEW f \in Evaluate(Catalog, zones, e)
    PROVE  \/ e.op = "fs_write" /\ f.kind \in {"write_outside_zones", "chmod_executable_outside_zones"}
           \/ e.op = "fs_read" /\ f.kind \in {"credential_read", "credential_read_failed", "npmrc_read"}
           \/ e.op = "net_connect" /\ f.kind \in {"connect_unusual_port", "connect_external"}
           \/ e.op = "dns_query" /\ f.kind \in {"dns_outside_registry", "dns_binary_distribution"}
           \/ e.op = "proc_spawn"
              /\ f.kind \in {"download_piped_to_shell", "spawn_network_tool", "spawn_unexpected"}
<1>1. CASE e.op = "fs_write"
  BY <1>1 DEF Evaluate, EvaluateWrite, Fires
<1>2. CASE e.op = "fs_read"
  BY <1>2 DEF Evaluate, EvaluateRead, Fires
<1>3. CASE e.op = "net_connect"
  BY <1>3 DEF Evaluate, EvaluateConnect, Fires
<1>4. CASE e.op = "dns_query"
  BY <1>4 DEF Evaluate, EvaluateDns, Fires
<1>5. CASE e.op = "proc_spawn"
  BY <1>5 DEF Evaluate, EvaluateSpawn, Fires
<1>6. e.op \in {"fs_write", "fs_read", "net_connect", "dns_query", "proc_spawn"}
  BY DEF Evaluate
<1> QED BY <1>1, <1>2, <1>3, <1>4, <1>5, <1>6

\* Only a write is judged by the zones.
LEMMA ZonesAreForWrites ==
    ASSUME NEW zones, NEW e, e.op # "fs_write"
    PROVE  Evaluate(Catalog, zones, e) = Evaluate(Catalog, NoZones, e)
  BY DEF Evaluate

\* A recorder's events answer for a deed: they fire only what it offends and under
\* its name, and all of that or are not placed.
Unplaceable(e, zones) == e.op = "fs_write" /\ Placement(e.path, e.origin, zones) = "Unresolvable"
Upward(deed) == deed.does \in {"put", "alter"} /\ deed.relative
Answers(events, deed, by, on) ==
    /\ \A e \in events : \A g \in Found(ZonesOf(on), e) :
          g.rule \in RulesOf(Offences(deed, by, on)) /\ g.subject \in NameOf(deed, on)
    /\ \A id \in RulesOf(Offences(deed, by, on)) :
          \/ \E e \in events : \E g \in Found(ZonesOf(on), e) : g.rule = id
          \/ Upward(deed) /\ \E e \in events : Unplaceable(e, ZonesOf(on))

\* What a write fires.
LEMMA WriteFires ==
    ASSUME NEW on \in Hosts, NEW deed \in FileDeeds, NEW e, e.op = "fs_write", e.failed \in BOOLEAN,
           e.origin # "Unresolved" => e.path = RealPath(deed, on)
    PROVE  LET kind == IF e.kind = "Chmod" /\ e.exec
                       THEN "chmod_executable_outside_zones" ELSE "write_outside_zones"
           IN  /\ e.failed \/ deed.place # "outside" => Evaluate(Catalog, ZonesOf(on), e) = {}
               /\ e.origin = "Unresolved" => Unplaceable(e, ZonesOf(on)) /\ Evaluate(Catalog, ZonesOf(on), e) = {}
               /\ ~e.failed /\ deed.place = "outside" /\ e.origin # "Unresolved" =>
                     Evaluate(Catalog, ZonesOf(on), e) =
                         {[kind |-> kind, subject |-> <<"/">> \o RealPath(deed, on).names]}
<1> DEFINE place == Placement(e.path, e.origin, ZonesOf(on))
           kind == IF e.kind = "Chmod" /\ e.exec
                   THEN "chmod_executable_outside_zones" ELSE "write_outside_zones"
<1>1. Evaluate(Catalog, ZonesOf(on), e) = IF e.failed THEN {} ELSE EvaluateWrite(e, place)
  BY DEF Evaluate
<1>2. e.origin = "Unresolved" => place = "Unresolvable"
  BY DEF Placement, IsResolved
<1>3. e.origin # "Unresolved" =>
          place = CASE deed.place = "outside" -> "Outside"
                    [] deed.place = "runtime" -> "Runtime"
                    [] OTHER -> deed.place
  BY DeedIsPlaced
<1>4. deed.place \in {"project", "cache", "home", "tmp", "runtime", "outside"}
  BY DeedPath, ZonesInOrder DEF Places
<1>5. EvaluateWrite(e, place) = IF place # "Outside" THEN {} ELSE {[kind |-> kind, subject |-> Subject(e)]}
  BY DEF EvaluateWrite, Fires
<1>6. e.origin # "Unresolved" => Subject(e) = <<"/">> \o RealPath(deed, on).names
  BY DeedPath DEF Subject
<1>7. Unplaceable(e, ZonesOf(on)) <=> place = "Unresolvable"
  BY DEF Unplaceable
<1> HIDE DEF place, kind
<1>8. e.failed \/ deed.place # "outside" => Evaluate(Catalog, ZonesOf(on), e) = {}
  BY <1>1, <1>2, <1>3, <1>4, <1>5
<1>9. e.origin = "Unresolved" => Unplaceable(e, ZonesOf(on)) /\ Evaluate(Catalog, ZonesOf(on), e) = {}
  BY <1>1, <1>2, <1>5, <1>7
<1>10. ~e.failed /\ deed.place = "outside" /\ e.origin # "Unresolved" =>
           Evaluate(Catalog, ZonesOf(on), e) = {[kind |-> kind, subject |-> <<"/">> \o RealPath(deed, on).names]}
  BY <1>1, <1>3, <1>5, <1>6
<1> QED BY <1>8, <1>9, <1>10 DEF kind

\* A set of write events of which each is a failure, is not placed, or fires the one offence.
LEMMA WritesAnswer ==
    ASSUME NEW on \in Hosts, NEW deed \in FileDeeds, deed.does \in {"put", "alter"}, NEW by,
           NEW events, events # {},
           \A e \in events :
               /\ e.op = "fs_write" /\ e.failed = SeenFailing(deed, by)
               /\ e.origin = "Unresolved" => deed.relative
               /\ e.origin # "Unresolved" => e.path = RealPath(deed, on)
               /\ (e.kind = "Chmod" /\ e.exec) <=>
                      (deed.does = "alter" /\ deed.kind = "Chmod" /\ deed.exec /\ by = "strace")
    PROVE  Answers(events, deed, by, on)
<1> DEFINE kind == IF deed.does = "alter" /\ deed.kind = "Chmod" /\ deed.exec /\ by = "strace"
                   THEN "chmod_executable_outside_zones" ELSE "write_outside_zones"
           name == <<"/">> \o RealPath(deed, on).names
           zones == ZonesOf(on)
<1>1. Offences(deed, by, on) = IF SeenFailing(deed, by) \/ deed.place # "outside" THEN {} ELSE {kind}
  BY DEF Offences
<1>2. NameOf(deed, on) = {name}
  BY DEF NameOf
<1>3. SeenFailing(deed, by) \in BOOLEAN
  BY DeedPath DEF SeenFailing
<1>4. ASSUME NEW e \in events
      PROVE  /\ SeenFailing(deed, by) \/ deed.place # "outside" => Evaluate(Catalog, zones, e) = {}
             /\ e.origin = "Unresolved" => Unplaceable(e, zones) /\ Evaluate(Catalog, zones, e) = {}
             /\ ~SeenFailing(deed, by) /\ deed.place = "outside" /\ e.origin # "Unresolved" =>
                   Evaluate(Catalog, zones, e) = {[kind |-> kind, subject |-> name]}
  <2> DEFINE k == IF e.kind = "Chmod" /\ e.exec
                  THEN "chmod_executable_outside_zones" ELSE "write_outside_zones"
  <2>1. e.op = "fs_write" /\ e.failed \in BOOLEAN /\ (e.origin # "Unresolved" => e.path = RealPath(deed, on))
    BY <1>3
  <2>2. /\ e.failed \/ deed.place # "outside" => Evaluate(Catalog, zones, e) = {}
        /\ e.origin = "Unresolved" => Unplaceable(e, zones) /\ Evaluate(Catalog, zones, e) = {}
        /\ ~e.failed /\ deed.place = "outside" /\ e.origin # "Unresolved" =>
              Evaluate(Catalog, zones, e) = {[kind |-> k, subject |-> name]}
    BY <2>1, WriteFires
  <2>3. k = kind
    OBVIOUS
  <2> HIDE DEF k, kind, name, zones
  <2> QED BY <2>2, <2>3
<1> HIDE DEF kind, name, zones
<1>5. \A e \in events : \A g \in Found(zones, e) :
          g.rule \in RulesOf(Offences(deed, by, on)) /\ g.subject \in NameOf(deed, on)
  <2> SUFFICES ASSUME NEW e \in events, NEW g \in Found(zones, e)
               PROVE  g.rule \in RulesOf(Offences(deed, by, on)) /\ g.subject \in NameOf(deed, on)
    OBVIOUS
  <2>1. PICK f \in Evaluate(Catalog, zones, e) : \E r \in RuleFor(Catalog, f.kind) :
            g = [rule |-> r.id, severity |-> r.severity, subject |-> f.subject]
    BY FoundIs
  <2>2. Offences(deed, by, on) = {kind} /\ f = [kind |-> kind, subject |-> name]
    BY <1>1, <1>4
  <2>3. f.kind = kind /\ f.subject = name
    BY <2>2
  <2> QED BY <2>1, <2>2, <2>3, <1>2 DEF RulesOf
<1>6. ASSUME NEW id \in RulesOf(Offences(deed, by, on))
      PROVE  \/ \E e \in events : \E g \in Found(zones, e) : g.rule = id
             \/ Upward(deed) /\ \E e \in events : Unplaceable(e, zones)
  <2>1. Offences(deed, by, on) = {kind} /\ ~SeenFailing(deed, by) /\ deed.place = "outside"
    BY <1>1, <1>6 DEF RulesOf
  <2>2. PICK r \in RuleFor(Catalog, kind) : id = r.id
    BY <2>1, <1>6 DEF RulesOf
  <2>3. PICK e \in events : TRUE
    OBVIOUS
  <2>4. CASE e.origin = "Unresolved"
    BY <2>4, <1>4 DEF Upward
  <2>5. CASE e.origin # "Unresolved"
    <3> DEFINE f == [kind |-> kind, subject |-> name]
    <3>1. f \in Evaluate(Catalog, zones, e) /\ f.kind = kind
      BY <2>1, <2>5, <1>4
    <3> HIDE DEF f
    <3>2. [rule |-> r.id, severity |-> r.severity, subject |-> f.subject] \in Found(zones, e)
      BY <2>2, <3>1, FoundIs
    <3> QED BY <2>2, <3>2
  <2> QED BY <2>4, <2>5
<1> QED BY <1>5, <1>6 DEF Answers, zones

\* Events that need no place answer for what they are alone.
LEMMA OthersAnswer ==
    ASSUME NEW on, NEW deed \in Deeds, deed.does \notin {"put", "alter"}, NEW by, NEW events,
           events = Range(Events(deed, by, on, TRUE)),
           \A e \in events :
               /\ e.op # "fs_write"
               /\ \A f \in Evaluate(Catalog, NoZones, e) : f.subject \in NameOf(deed, on)
    PROVE  Answers(events, deed, by, on)
<1> DEFINE zones == ZonesOf(on)
<1>1. Offences(deed, by, on) = {f.kind : f \in UNION {Evaluate(Catalog, NoZones, e) : e \in events}}
  BY DEF Offences
<1>2. \A e \in events : Evaluate(Catalog, zones, e) = Evaluate(Catalog, NoZones, e)
  BY ZonesAreForWrites
<1> HIDE DEF zones
<1>3. \A e \in events : \A g \in Found(zones, e) :
          g.rule \in RulesOf(Offences(deed, by, on)) /\ g.subject \in NameOf(deed, on)
  <2> SUFFICES ASSUME NEW e \in events, NEW g \in Found(zones, e)
               PROVE  g.rule \in RulesOf(Offences(deed, by, on)) /\ g.subject \in NameOf(deed, on)
    OBVIOUS
  <2>1. PICK f \in Evaluate(Catalog, zones, e) : \E r \in RuleFor(Catalog, f.kind) :
            g = [rule |-> r.id, severity |-> r.severity, subject |-> f.subject]
    BY FoundIs
  <2>2. f \in Evaluate(Catalog, NoZones, e) /\ f.kind \in Offences(deed, by, on)
    BY <1>1, <1>2
  <2>3. PICK r \in RuleFor(Catalog, f.kind) :
            g = [rule |-> r.id, severity |-> r.severity, subject |-> f.subject]
    BY <2>1
  <2>4. g.rule = r.id /\ g.subject = f.subject
    BY <2>3
  <2>5. r.id \in RulesOf(Offences(deed, by, on))
    BY <2>2 DEF RulesOf
  <2> QED BY <2>2, <2>4, <2>5
<1>4. ASSUME NEW id \in RulesOf(Offences(deed, by, on))
      PROVE  \E e \in events : \E g \in Found(zones, e) : g.rule = id
  <2>1. PICK kind \in Offences(deed, by, on) : \E r \in RuleFor(Catalog, kind) : id = r.id
    BY <1>4 DEF RulesOf
  <2>2. PICK e \in events : \E f \in Evaluate(Catalog, NoZones, e) : f.kind = kind
    BY <1>1, <2>1
  <2>3. PICK f \in Evaluate(Catalog, zones, e) : f.kind = kind
    BY <1>2, <2>2
  <2>4. PICK r \in RuleFor(Catalog, f.kind) : id = r.id
    BY <2>1, <2>3
  <2>5. [rule |-> r.id, severity |-> r.severity, subject |-> f.subject] \in Found(zones, e)
    BY FoundIs
  <2> QED BY <2>4, <2>5
<1> QED BY <1>3, <1>4 DEF Answers, zones

\* The subjects of what a connection and a program fire.
LEMMA NamesOfOthers ==
    ASSUME NEW deed \in Deeds, NEW on, NEW by
    PROVE  /\ deed.does = "connect" => \A failed :
                 LET e == ConnectEvent(by, deed, failed)
                 IN  e.op # "fs_write" /\ \A f \in Evaluate(Catalog, NoZones, e) : f.subject \in NameOf(deed, on)
           /\ deed.does = "spawn" =>
                 LET e == SpawnEvent(by, deed)
                 IN  e.op # "fs_write" /\ \A f \in Evaluate(Catalog, NoZones, e) : f.subject \in NameOf(deed, on)
<1>1. ASSUME deed.does = "connect", NEW failed
      PROVE  LET e == ConnectEvent(by, deed, failed)
             IN  e.op # "fs_write" /\ \A f \in Evaluate(Catalog, NoZones, e) : f.subject \in NameOf(deed, on)
  <2> DEFINE e == ConnectEvent(by, deed, failed)
  <2>1. e.op = "net_connect" /\ e.ip = deed.ip /\ e.port = deed.port
    BY DEF ConnectEvent
  <2> HIDE DEF e
  <2>2. Evaluate(Catalog, NoZones, e) = EvaluateConnect(e) /\ Subject(e) = <<deed.ip, deed.port>>
    BY <2>1 DEF Evaluate, Subject
  <2>3. \A f \in EvaluateConnect(e) : f.subject = Subject(e)
    BY DEF EvaluateConnect, Fires
  <2>4. NameOf(deed, on) = {<<deed.ip, deed.port>>}
    BY <1>1 DEF NameOf
  <2>5. e.op # "fs_write" /\ \A f \in Evaluate(Catalog, NoZones, e) : f.subject \in NameOf(deed, on)
    BY <2>1, <2>2, <2>3, <2>4
  <2> QED BY <2>5 DEF e
<1>2. ASSUME deed.does = "spawn"
      PROVE  LET e == SpawnEvent(by, deed)
             IN  e.op # "fs_write" /\ \A f \in Evaluate(Catalog, NoZones, e) : f.subject \in NameOf(deed, on)
  <2> DEFINE e == SpawnEvent(by, deed)
  <2>1. e.op = "proc_spawn" /\ e.bin = deed.bin /\ e.words = deed.words
    BY DEF SpawnEvent
  <2> HIDE DEF e
  <2>2. Evaluate(Catalog, NoZones, e) = EvaluateSpawn(Catalog, e) /\ Subject(e) = deed.words
    BY <2>1 DEF Evaluate, Subject
  <2>3. \A f \in EvaluateSpawn(Catalog, e) : f.subject = Subject(e) \/ f.subject = <<e.bin>>
    BY DEF EvaluateSpawn, Fires
  <2>4. NameOf(deed, on) = {deed.words, <<deed.bin>>}
    BY <1>2 DEF NameOf
  <2>5. e.op # "fs_write" /\ \A f \in Evaluate(Catalog, NoZones, e) : f.subject \in NameOf(deed, on)
    BY <2>1, <2>2, <2>3, <2>4
  <2> QED BY <2>5 DEF e
<1> QED BY <1>1, <1>2

\* strace answers for every deed.
LEMMA StraceAnswers ==
    ASSUME NEW on \in Hosts, NEW deed \in Deeds, NEW placed \in BOOLEAN
    PROVE  Answers(Range(StraceEvents(deed, on, placed)), deed, "strace", on)
<1> DEFINE path == StracePath(deed, on, placed)
           origin == StraceOrigin(deed, placed)
           real == RealPath(deed, on)
           events == Range(StraceEvents(deed, on, placed))
<1>0. deed \in FileDeeds => /\ deed.failed \in BOOLEAN /\ (origin # "Unresolved" => path = real)
                            /\ deed.relative \in BOOLEAN
  BY PathsTell, DeedPath
<1>1. origin = "Unresolved" => deed.relative
  BY <1>0, DeedAssumption DEF StraceOrigin
<1>2. CASE deed.does = "put" /\ deed.failed
  <2> DEFINE e == WriteEvent("strace", "Open", path, origin, FALSE, TRUE)
  <2>1. deed \in FileDeeds
    BY <1>2 DEF FileDeeds, OnFiles
  <2>2. events = {e}
    <3>1. StraceEvents(deed, on, placed) = <<e>>
      BY <1>2 DEF StraceEvents, StracePath, StraceOrigin
    <3> HIDE DEF e
    <3> QED BY <3>1, Ranges
  <2>3. /\ e.op = "fs_write" /\ e.failed = TRUE /\ e.path = path
        /\ e.origin = origin /\ e.exec = FALSE
    BY DEF WriteEvent
  <2>4. SeenFailing(deed, "strace") = TRUE
    BY <1>0, <1>2, <2>1 DEF SeenFailing
  <2> HIDE DEF e, events, path, origin, real
  <2>5. /\ events # {}
        /\ \A x \in events :
              /\ x.op = "fs_write" /\ x.failed = SeenFailing(deed, "strace")
              /\ x.origin = "Unresolved" => deed.relative
              /\ x.origin # "Unresolved" => x.path = RealPath(deed, on)
              /\ (x.kind = "Chmod" /\ x.exec) <=>
                     (deed.does = "alter" /\ deed.kind = "Chmod" /\ deed.exec /\ "strace" = "strace")
    BY <1>0, <1>1, <1>2, <2>1, <2>2, <2>3, <2>4 DEF real
  <2>6. deed.does \in {"put", "alter"}
    BY <1>2
  <2>7. Answers(events, deed, "strace", on)
    BY <2>1, <2>5, <2>6, WritesAnswer
  <2> QED BY <2>7 DEF events
<1>3. CASE deed.does = "put" /\ ~deed.failed
  <2> DEFINE e == WriteEvent("strace", "Open", real, "Kernel", FALSE, FALSE)
             f == WriteEvent("strace", "Write", real, "Kernel", FALSE, FALSE)
  <2>1. deed \in FileDeeds
    BY <1>3 DEF FileDeeds, OnFiles
  <2>2. events = {e, f}
    <3>1. StraceEvents(deed, on, placed) = <<e, f>>
      BY <1>3 DEF StraceEvents
    <3> HIDE DEF e, f
    <3> QED BY <3>1, Ranges
  <2>3. \A x \in {e, f} : /\ x.op = "fs_write" /\ x.failed = FALSE /\ x.path = real
                          /\ x.origin = "Kernel" /\ x.exec = FALSE
    BY DEF WriteEvent
  <2>4. SeenFailing(deed, "strace") = FALSE
    BY <1>0, <1>3, <2>1 DEF SeenFailing
  <2> HIDE DEF e, f, events, path, origin, real
  <2>5. /\ events # {}
        /\ \A x \in events :
              /\ x.op = "fs_write" /\ x.failed = SeenFailing(deed, "strace")
              /\ x.origin = "Unresolved" => deed.relative
              /\ x.origin # "Unresolved" => x.path = RealPath(deed, on)
              /\ (x.kind = "Chmod" /\ x.exec) <=>
                     (deed.does = "alter" /\ deed.kind = "Chmod" /\ deed.exec /\ "strace" = "strace")
    BY <1>3, <2>2, <2>3, <2>4 DEF real
  <2>6. deed.does \in {"put", "alter"}
    BY <1>3
  <2>7. Answers(events, deed, "strace", on)
    BY <2>1, <2>5, <2>6, WritesAnswer
  <2> QED BY <2>7 DEF events
<1>4. CASE deed.does = "alter"
  <2> DEFINE e == WriteEvent("strace", deed.kind, path, origin, deed.exec, deed.failed)
  <2>1. deed \in FileDeeds
    BY <1>4 DEF FileDeeds, OnFiles
  <2>2. events = {e}
    <3>1. StraceEvents(deed, on, placed) = <<e>>
      BY <1>4 DEF StraceEvents, StracePath, StraceOrigin
    <3> HIDE DEF e
    <3> QED BY <3>1, Ranges
  <2>3. /\ e.op = "fs_write" /\ e.failed = deed.failed /\ e.path = path
        /\ e.origin = origin /\ e.exec = deed.exec /\ e.kind = deed.kind
    BY DEF WriteEvent
  <2>4. SeenFailing(deed, "strace") = deed.failed
    BY <1>0, <2>1 DEF SeenFailing
  <2> HIDE DEF e, events, path, origin, real
  <2>5. /\ events # {}
        /\ \A x \in events :
              /\ x.op = "fs_write" /\ x.failed = SeenFailing(deed, "strace")
              /\ x.origin = "Unresolved" => deed.relative
              /\ x.origin # "Unresolved" => x.path = RealPath(deed, on)
              /\ (x.kind = "Chmod" /\ x.exec) <=>
                     (deed.does = "alter" /\ deed.kind = "Chmod" /\ deed.exec /\ "strace" = "strace")
    BY <1>0, <1>1, <1>4, <2>1, <2>2, <2>3, <2>4 DEF real
  <2>6. deed.does \in {"put", "alter"}
    BY <1>4
  <2>7. Answers(events, deed, "strace", on)
    BY <2>1, <2>5, <2>6, WritesAnswer
  <2> QED BY <2>7 DEF events
<1>5. CASE deed.does = "consult"
  <2> DEFINE e == [op |-> "fs_read", backend |-> "strace", path |-> real,
                   origin |-> IF deed.failed THEN "Absolute" ELSE "Kernel", failed |-> deed.failed]
  <2>1. deed \in FileDeeds
    BY <1>5 DEF FileDeeds, OnFiles
  <2>2. events = {e} /\ events = Range(Events(deed, "strace", on, TRUE))
    <3>1. StraceEvents(deed, on, placed) = <<e>> /\ StraceEvents(deed, on, TRUE) = <<e>>
      BY <1>5 DEF StraceEvents
    <3> HIDE DEF e
    <3> QED BY <3>1, Ranges DEF Events
  <2>3. e.op = "fs_read" /\ e.path = RealPath(deed, on)
    OBVIOUS
  <2> HIDE DEF e, events
  <2>4. Evaluate(Catalog, NoZones, e) = EvaluateRead(Catalog, e) /\ Subject(e) = <<"/">> \o RealPath(deed, on).names
    BY <2>1, <2>3, DeedPath DEF Evaluate, Subject
  <2>5. \A f \in EvaluateRead(Catalog, e) : f.subject = Subject(e)
    BY DEF EvaluateRead, Fires
  <2>6. NameOf(deed, on) = {<<"/">> \o RealPath(deed, on).names}
    BY <1>5 DEF NameOf
  <2>7. \A x \in events : /\ x.op # "fs_write"
                          /\ \A f \in Evaluate(Catalog, NoZones, x) : f.subject \in NameOf(deed, on)
    BY <2>2, <2>3, <2>4, <2>5, <2>6
  <2>8. Answers(events, deed, "strace", on)
    BY <1>5, <2>2, <2>7, OthersAnswer
  <2> QED BY <2>8 DEF events
<1>6. CASE deed.does = "lookup"
  <2> DEFINE e == [op |-> "dns_query", backend |-> "strace", qname |-> deed.qname]
  <2>1. events = {e} /\ events = Range(Events(deed, "strace", on, TRUE))
    <3>1. StraceEvents(deed, on, placed) = <<e>> /\ StraceEvents(deed, on, TRUE) = <<e>>
      BY <1>6 DEF StraceEvents
    <3> HIDE DEF e
    <3> QED BY <3>1, Ranges DEF Events
  <2>2. e.op = "dns_query" /\ e.qname = deed.qname
    OBVIOUS
  <2> HIDE DEF e, events
  <2>3. Evaluate(Catalog, NoZones, e) = EvaluateDns(Catalog, e) /\ Subject(e) = deed.qname
    BY <2>2 DEF Evaluate, Subject
  <2>4. \A f \in EvaluateDns(Catalog, e) : f.subject = Subject(e)
    BY DEF EvaluateDns, Fires
  <2>5. NameOf(deed, on) = {deed.qname}
    BY <1>6 DEF NameOf
  <2>6. \A x \in events : /\ x.op # "fs_write"
                          /\ \A f \in Evaluate(Catalog, NoZones, x) : f.subject \in NameOf(deed, on)
    BY <2>1, <2>2, <2>3, <2>4, <2>5
  <2>7. Answers(events, deed, "strace", on)
    BY <1>6, <2>1, <2>6, OthersAnswer
  <2> QED BY <2>7 DEF events
<1>7. CASE deed.does \in {"connect", "spawn"}
  <2> DEFINE e == IF deed.does = "connect" THEN ConnectEvent("strace", deed, deed.failed)
                  ELSE SpawnEvent("strace", deed)
  <2>1. events = {e} /\ events = Range(Events(deed, "strace", on, TRUE))
    <3>1. StraceEvents(deed, on, placed) = <<e>> /\ StraceEvents(deed, on, TRUE) = <<e>>
      BY <1>7 DEF StraceEvents
    <3> HIDE DEF e
    <3> QED BY <3>1, Ranges DEF Events
  <2>2. e.op # "fs_write" /\ \A f \in Evaluate(Catalog, NoZones, e) : f.subject \in NameOf(deed, on)
    BY <1>7, NamesOfOthers
  <2> HIDE DEF e, events
  <2>3. Answers(events, deed, "strace", on)
    BY <1>7, <2>1, <2>2, OthersAnswer
  <2> QED BY <2>3 DEF events
<1> QED BY <1>2, <1>3, <1>4, <1>5, <1>6, <1>7, DeedAssumption

\* So does aya, of what it sees.
LEMMA AyaAnswers ==
    ASSUME NEW on \in Hosts, NEW deed \in Deeds
    PROVE  Answers(Range(AyaEvents(deed, on)), deed, "aya", on)
<1> DEFINE path == SpelledPath(deed, on)
           origin == AyaOrigin(deed, on)
           events == Range(AyaEvents(deed, on))
<1>0. deed \in FileDeeds => /\ deed.failed \in BOOLEAN /\ deed.relative \in BOOLEAN
                            /\ (origin # "Unresolved" => path = RealPath(deed, on))
  BY PathsTell, DeedPath
<1>1. deed \in FileDeeds /\ origin = "Unresolved" => deed.relative
  BY <1>0, DeedPath DEF AyaOrigin, SpelledPath
<1>2. CASE deed.does \in {"put", "alter"}
  <2> DEFINE e == IF deed.does = "put" THEN WriteEvent("aya", "Open", path, origin, FALSE, deed.failed)
                  ELSE WriteEvent("aya", deed.kind, path, origin, FALSE, FALSE)
             f == WriteEvent("aya", "Write", path, origin, FALSE, FALSE)
  <2>1. deed \in FileDeeds
    BY <1>2 DEF FileDeeds, OnFiles
  <2>2. events = IF deed.does = "put" /\ ~deed.failed THEN {e, f} ELSE {e}
    <3>1. CASE deed.does = "put" /\ deed.failed
      <4>1. AyaEvents(deed, on) = <<e>> \o <<>>
        BY <3>1 DEF AyaEvents, AyaOrigin
      <4> HIDE DEF e
      <4> QED BY <3>1, <4>1, ShortSequences, Ranges
    <3>2. CASE deed.does = "put" /\ ~deed.failed
      <4>1. AyaEvents(deed, on) = <<e>> \o <<f>>
        BY <3>2 DEF AyaEvents, AyaOrigin
      <4> HIDE DEF e, f
      <4>2. <<e>> \o <<f>> = <<e, f>>
        BY ShortSequences
      <4> QED BY <3>2, <4>1, <4>2, Ranges
    <3>3. CASE deed.does = "alter"
      <4>1. AyaEvents(deed, on) = <<e>>
        BY <3>3 DEF AyaEvents, AyaOrigin
      <4> HIDE DEF e
      <4> QED BY <3>3, <4>1, Ranges
    <3> QED BY <1>2, <3>1, <3>2, <3>3
  <2>3. SeenFailing(deed, "aya") = (deed.does = "put" /\ deed.failed)
    BY <1>0, <2>1 DEF SeenFailing
  <2>4. /\ e.op = "fs_write" /\ e.failed = SeenFailing(deed, "aya") /\ e.path = path
        /\ e.origin = origin /\ e.exec = FALSE
    BY <1>0, <1>2, <2>1, <2>3 DEF WriteEvent
  <2>5. /\ f.op = "fs_write" /\ f.failed = FALSE /\ f.path = path /\ f.origin = origin /\ f.exec = FALSE
    BY DEF WriteEvent
  <2> HIDE DEF e, f, events, path, origin
  <2>6. \A x \in events : x.op = "fs_write" /\ x.failed = SeenFailing(deed, "aya") /\ x.path = path
                          /\ x.origin = origin /\ x.exec = FALSE
    BY <1>2, <2>2, <2>3, <2>4, <2>5
  <2>7. /\ events # {}
        /\ \A x \in events :
              /\ x.op = "fs_write" /\ x.failed = SeenFailing(deed, "aya")
              /\ x.origin = "Unresolved" => deed.relative
              /\ x.origin # "Unresolved" => x.path = RealPath(deed, on)
              /\ (x.kind = "Chmod" /\ x.exec) <=>
                     (deed.does = "alter" /\ deed.kind = "Chmod" /\ deed.exec /\ "aya" = "strace")
    BY <1>0, <1>1, <2>1, <2>2, <2>6
  <2>8. Answers(events, deed, "aya", on)
    BY <1>2, <2>1, <2>7, WritesAnswer
  <2> QED BY <2>8 DEF events
<1>3. CASE deed.does \in {"consult", "lookup"}
  <2>1. AyaEvents(deed, on) = <<>> /\ Events(deed, "aya", on, TRUE) = <<>>
    BY <1>3 DEF AyaEvents, Events
  <2>2. events = {} /\ events = Range(Events(deed, "aya", on, TRUE))
    BY <2>1, Ranges
  <2> HIDE DEF events
  <2>3. Answers(events, deed, "aya", on)
    BY <1>3, <2>2, OthersAnswer
  <2> QED BY <2>3 DEF events
<1>4. CASE deed.does \in {"connect", "spawn"}
  <2> DEFINE e == IF deed.does = "connect" THEN ConnectEvent("aya", deed, FALSE)
                  ELSE SpawnEvent("aya", deed)
  <2>1. events = {e} /\ events = Range(Events(deed, "aya", on, TRUE))
    <3>1. AyaEvents(deed, on) = <<e>>
      BY <1>4 DEF AyaEvents
    <3> HIDE DEF e
    <3> QED BY <3>1, Ranges DEF Events
  <2>2. e.op # "fs_write" /\ \A f \in Evaluate(Catalog, NoZones, e) : f.subject \in NameOf(deed, on)
    BY <1>4, NamesOfOthers
  <2> HIDE DEF e, events
  <2>3. Answers(events, deed, "aya", on)
    BY <1>4, <2>1, <2>2, OthersAnswer
  <2> QED BY <2>3 DEF events
<1> QED BY <1>2, <1>3, <1>4, DeedAssumption

\* Either recorder answers for every deed.
LEMMA EventsAnswer ==
    ASSUME NEW on \in Hosts, NEW deed \in Deeds, NEW by \in {"strace", "aya"}, NEW placed \in BOOLEAN
    PROVE  Answers(Range(Events(deed, by, on, placed)), deed, by, on)
  BY StraceAnswers, AyaAnswers DEF Events

\* aya sees neither reads nor lookups, and of what it sees it suspects all that strace finds.
LEMMA AyaSuspects ==
    ASSUME NEW on \in Hosts, NEW deed \in Deeds, deed.does \notin {"consult", "lookup"},
           RulesOf(Offences(deed, "strace", on)) # {}
    PROVE  RulesOf(Offences(deed, "aya", on)) # {}
<1>1. CASE deed.does \in {"put", "alter"}
  <2>1. PICK kind \in Offences(deed, "strace", on) : RuleFor(Catalog, kind) # {}
    BY DEF RulesOf
  <2>2. ~SeenFailing(deed, "strace") /\ deed.place = "outside"
        /\ kind \in {"chmod_executable_outside_zones", "write_outside_zones"}
    BY <1>1, <2>1 DEF Offences
  <2>3. RuleFor(Catalog, "write_outside_zones") # {}
    BY <2>1, <2>2, CatalogAssumption
  <2>4. Offences(deed, "aya", on) = {"write_outside_zones"}
    BY <1>1, <2>2 DEF Offences, SeenFailing
  <2> QED BY <2>3, <2>4 DEF RulesOf
<1>2. CASE deed.does \in {"connect", "spawn"}
  <2> DEFINE s == IF deed.does = "connect" THEN ConnectEvent("strace", deed, deed.failed)
                  ELSE SpawnEvent("strace", deed)
             a == IF deed.does = "connect" THEN ConnectEvent("aya", deed, FALSE)
                  ELSE SpawnEvent("aya", deed)
             E(e) == Evaluate(Catalog, NoZones, e)
  <2>1. Range(Events(deed, "strace", on, TRUE)) = {s}
    <3>1. StraceEvents(deed, on, TRUE) = <<s>>
      BY <1>2 DEF StraceEvents
    <3> HIDE DEF s
    <3> QED BY <3>1, Ranges DEF Events
  <2>2. Range(Events(deed, "aya", on, TRUE)) = {a}
    <3>1. AyaEvents(deed, on) = <<a>>
      BY <1>2 DEF AyaEvents
    <3> HIDE DEF a
    <3> QED BY <3>1, Ranges DEF Events
  <2>3. Offences(deed, "strace", on) = {f.kind : f \in E(s)} /\ Offences(deed, "aya", on) = {f.kind : f \in E(a)}
    <3> HIDE DEF s, a
    <3> QED BY <1>2, <2>1, <2>2 DEF Offences
  <2>4. \A f \in E(s) : f \in E(a)
    <3>1. CASE deed.does = "connect"
      <4>1. /\ s.op = "net_connect" /\ s.ip = deed.ip /\ s.port = deed.port
            /\ s.loopback = deed.loopback /\ s.private = deed.private
        BY <3>1 DEF ConnectEvent
      <4>2. /\ a.op = "net_connect" /\ a.ip = deed.ip /\ a.port = deed.port
            /\ a.loopback = deed.loopback /\ a.private = deed.private /\ a.failed = FALSE
        BY <3>1 DEF ConnectEvent
      <4> HIDE DEF s, a
      <4>3. E(s) = EvaluateConnect(s) /\ E(a) = EvaluateConnect(a) /\ Subject(s) = Subject(a)
        BY <4>1, <4>2 DEF Evaluate, Subject
      <4> QED BY <4>1, <4>2, <4>3 DEF EvaluateConnect
    <3>2. CASE deed.does = "spawn"
      <4>1. /\ s.op = "proc_spawn" /\ s.bin = deed.bin /\ s.words = deed.words
            /\ s.script = deed.script /\ s.truncated = deed.truncated
        BY <3>2 DEF SpawnEvent
      <4>2. /\ a.op = "proc_spawn" /\ a.bin = deed.bin /\ a.words = deed.words
            /\ a.script = deed.script /\ a.truncated = deed.truncated
        BY <3>2 DEF SpawnEvent
      <4> HIDE DEF s, a
      <4>3. E(s) = EvaluateSpawn(Catalog, s) /\ E(a) = EvaluateSpawn(Catalog, a) /\ Subject(s) = Subject(a)
        BY <4>1, <4>2 DEF Evaluate, Subject
      <4>4. PipesToShell(s) = PipesToShell(a)
        BY <4>1, <4>2 DEF PipesToShell
      <4> QED BY <4>1, <4>2, <4>3, <4>4 DEF EvaluateSpawn
    <3> QED BY <1>2, <3>1, <3>2
  <2> HIDE DEF s, a
  <2>5. Offences(deed, "strace", on) \subseteq Offences(deed, "aya", on)
    BY <2>3, <2>4
  <2> QED BY <2>5 DEF RulesOf
<1> QED BY <1>1, <1>2, DeedAssumption

\* What is found has the severity of its rule.
LEMMA SeverityIsOfRule ==
    ASSUME NEW zones, NEW e, NEW g \in Found(zones, e) PROVE g.severity = SeverityOf(g.rule)
<1>1. PICK f \in Evaluate(Catalog, zones, e) : \E r \in RuleFor(Catalog, f.kind) :
          g = [rule |-> r.id, severity |-> r.severity, subject |-> f.subject]
  BY FoundIs
<1>2. PICK r \in RuleFor(Catalog, f.kind) :
          g = [rule |-> r.id, severity |-> r.severity, subject |-> f.subject]
  BY <1>1
<1>3. r \in Range(Catalog.rules) /\ g.rule = r.id /\ g.severity = r.severity
  BY <1>2, RuleOfKind
<1>4. (CHOOSE q \in Range(Catalog.rules) : q.id = g.rule) = r
  BY <1>3, RuleOfKind
<1> QED BY <1>3, <1>4 DEF SeverityOf

\* The rules a reader skips for a recorder.
SkippedFor(by) ==
    {r.id : r \in {q \in Range(Catalog.rules) : q.enabled /\ Unobserved(by, ObservationClass(q.kind))}}

\* Nothing is skipped that a recorder sees.
LEMMA SeenIsNotSkipped ==
    ASSUME NEW on \in Hosts, NEW deed \in Deeds, NEW by \in {"strace", "aya"}, NEW placed \in BOOLEAN,
           NEW e \in Range(Events(deed, by, on, placed)), NEW zones, NEW g \in Found(zones, e)
    PROVE  g.rule \notin SkippedFor(by)
<1>1. CASE by = "strace"
  BY <1>1 DEF SkippedFor, Unobserved
<1>2. CASE by = "aya"
  <2>1. e.op \in {"fs_write", "net_connect", "proc_spawn"}
    <3>1. e \in Range(AyaEvents(deed, on))
      BY <1>2 DEF Events
    <3>2. /\ \A k, p, o, x, w : WriteEvent("aya", k, p, o, x, w).op = "fs_write"
          /\ ConnectEvent("aya", deed, FALSE).op = "net_connect"
          /\ SpawnEvent("aya", deed).op = "proc_spawn"
      BY DEF WriteEvent, ConnectEvent, SpawnEvent
    <3>3. CASE deed.does = "put"
      <4> DEFINE o == WriteEvent("aya", "Open", SpelledPath(deed, on), AyaOrigin(deed, on), FALSE, deed.failed)
                 w == WriteEvent("aya", "Write", SpelledPath(deed, on), AyaOrigin(deed, on), FALSE, FALSE)
      <4>1. AyaEvents(deed, on) = <<o>> \o (IF deed.failed THEN <<>> ELSE <<w>>)
        BY <3>3 DEF AyaEvents, AyaOrigin
      <4>2. o.op = "fs_write" /\ w.op = "fs_write"
        BY DEF WriteEvent
      <4> HIDE DEF o, w
      <4>3. <<o>> \o <<>> = <<o>> /\ <<o>> \o <<w>> = <<o, w>>
        BY ShortSequences
      <4>4. AyaEvents(deed, on) = <<o>> \/ AyaEvents(deed, on) = <<o, w>>
        BY <4>1, <4>3
      <4>5. e \in {o, w}
        BY <3>1, <4>4, Ranges
      <4> QED BY <4>2, <4>5
    <3>4. CASE deed.does \in {"consult", "lookup"}
      BY <3>1, <3>4, Ranges DEF AyaEvents
    <3>5. CASE deed.does \in {"alter", "connect", "spawn"}
      <4>1. \E x : AyaEvents(deed, on) = <<x>> /\ x.op \in {"fs_write", "net_connect", "proc_spawn"}
        <5>1. CASE deed.does = "alter"
          <6> DEFINE x == WriteEvent("aya", deed.kind, SpelledPath(deed, on), AyaOrigin(deed, on), FALSE, FALSE)
          <6>1. AyaEvents(deed, on) = <<x>>
            BY <5>1 DEF AyaEvents, AyaOrigin
          <6>2. x.op = "fs_write"
            BY DEF WriteEvent
          <6> HIDE DEF x
          <6> QED BY <6>1, <6>2
        <5>2. CASE deed.does = "connect"
          <6>1. AyaEvents(deed, on) = <<ConnectEvent("aya", deed, FALSE)>>
            BY <5>2 DEF AyaEvents
          <6> QED BY <6>1, <3>2
        <5>3. CASE deed.does = "spawn"
          <6>1. AyaEvents(deed, on) = <<SpawnEvent("aya", deed)>>
            BY <5>3 DEF AyaEvents
          <6> QED BY <6>1, <3>2
        <5> QED BY <3>5, <5>1, <5>2, <5>3
      <4> QED BY <3>1, <4>1, Ranges
    <3> QED BY <3>3, <3>4, <3>5, DeedAssumption
  <2>2. PICK f \in Evaluate(Catalog, zones, e) : \E r \in RuleFor(Catalog, f.kind) :
            g = [rule |-> r.id, severity |-> r.severity, subject |-> f.subject]
    BY FoundIs
  <2>3. PICK r \in RuleFor(Catalog, f.kind) : g.rule = r.id
    BY <2>2
  <2>4. ObservationClass(f.kind) \notin {"credential reads", "DNS queries"}
    BY <2>1, KindsOfEvents DEF ObservationClass
  <2>5. r \in Range(Catalog.rules) /\ r.kind = f.kind
    BY RuleOfKind
  <2>6. \A q \in Range(Catalog.rules) : q.id = g.rule => q = r
    BY <2>3, <2>5, RuleOfKind
  <2> QED BY <2>4, <2>5, <2>6 DEF SkippedFor, Unobserved
<1> QED BY <1>1, <1>2

\* And what aya cannot see is skipped.
LEMMA UnseenIsSkipped ==
    ASSUME NEW on \in Hosts, NEW deed \in Deeds, deed.does \in {"consult", "lookup"},
           NEW id \in RulesOf(Offences(deed, "strace", on))
    PROVE  id \in SkippedFor("aya")
<1>1. PICK kind \in Offences(deed, "strace", on) : \E r \in RuleFor(Catalog, kind) : id = r.id
  BY DEF RulesOf
<1>2. PICK r \in RuleFor(Catalog, kind) : id = r.id
  BY <1>1
<1>3. PICK e \in Range(Events(deed, "strace", on, TRUE)) :
          \E f \in Evaluate(Catalog, NoZones, e) : f.kind = kind
  BY <1>1 DEF Offences
<1>4. e.op \in {"fs_read", "dns_query"}
  <2>1. PICK x : StraceEvents(deed, on, TRUE) = <<x>> /\ x.op \in {"fs_read", "dns_query"}
    BY DEF StraceEvents
  <2>2. Events(deed, "strace", on, TRUE) = <<x>>
    BY <2>1 DEF Events
  <2>3. e \in {x}
    BY <1>3, <2>2, Ranges
  <2> QED BY <2>1, <2>3
<1>5. ObservationClass(kind) \in {"credential reads", "DNS queries"}
  BY <1>3, <1>4, KindsOfEvents DEF ObservationClass
<1>6. r \in Range(Catalog.rules) /\ r.enabled /\ r.kind = kind
  BY RuleOfKind
<1> QED BY <1>2, <1>5, <1>6 DEF SkippedFor, Unobserved

-----------------------------------------------------------------------------
(* What a reader is told                                                   *)

\* What an analysis says of a file: only what was done; all of it, if nothing was lost
\* and it can be placed; and what its recorder cannot see.
LEMMA AnalysisTells ==
    ASSUME FileInv, TellInv, NEW side \in Sides, phase[side] # "waiting"
    PROVE  LET a == AnalysisOf(side)
           IN  /\ \A f \in Range(a.findings) : \E deed \in Range(truth[side]) : IsAbout(f, deed, side)
               /\ lost[side] = 0 => \A deed \in Range(truth[side]) :
                     \A id \in RulesOf(Offences(deed, backend[side], host[side])) :
                         \/ \E f \in Range(a.findings) : /\ f.rule = id /\ f.severity = SeverityOf(id)
                                                         /\ f.subject \in NameOf(deed, host[side])
                         \/ Upward(deed) /\ a.unresolved_paths > 0
               /\ a.skipped_rules = SkippedFor(backend[side]) /\ a.backend = backend[side]
               /\ \E n \in Nat : DOMAIN a.findings = 1 .. n
<1> DEFINE s == file[side].lines
           a == AnalysisOf(side)
           zones == ZonesOf(host[side])
           by == backend[side]
           on == host[side]
<1>1. /\ SessionZones(s) = zones /\ DetectBackend(s) = by /\ IsFiniteSet(DOMAIN s)
  BY FirstLineIsRead
<1>2. /\ on \in Hosts /\ by \in {"strace", "aya"} /\ truth[side] \in Seq(Deeds)
      /\ ToldOnly(side) /\ ToldAll(side)
  BY DEF TellInv, SettingOK, Told
<1>3. Range(truth[side]) \subseteq Deeds
  BY <1>2 DEF Range
<1>4. a = Analysis(Catalog, s)
  BY DEF AnalysisOf
<1>5. /\ a.backend = DetectBackend(s)
      /\ a.skipped_rules = SkippedFor(DetectBackend(s))
      /\ a.unresolved_paths = Cardinality({i \in DOMAIN s : Unplaceable(s[i], SessionZones(s))})
  BY <1>4 DEF Analysis, SkippedFor, Unplaceable
<1>6. /\ \A f \in Range(a.findings) : \E e \in Range(s) : \E g \in Found(zones, e) :
             f.rule = g.rule /\ f.severity = g.severity /\ f.subject = g.subject
      /\ \A e \in Range(s) : \A g \in Found(zones, e) : g.rule \notin a.skipped_rules =>
             \E f \in Range(a.findings) :
                 f.rule = g.rule /\ f.severity = g.severity /\ f.subject = g.subject
      /\ \E n \in Nat : DOMAIN a.findings = 1 .. n
  <2> HIDE DEF s, a, zones
  <2> QED BY <1>1, <1>4, FindingsAreOfEvents
<1>7. ASSUME NEW deed \in Range(truth[side]), NEW placed \in BOOLEAN
      PROVE  /\ Answers(Says(side, deed, placed), deed, by, on)
             /\ \A e \in Says(side, deed, placed) : \A g \in Found(zones, e) : g.rule \notin SkippedFor(by)
  BY <1>2, <1>3, EventsAnswer, SeenIsNotSkipped DEF Says
<1>8. \A deed \in Range(truth[side]) : \A id \in RulesOf(Offences(deed, by, on)) :
          id = deed.deserves \/ (by = "aya" /\ id = deed.suspect)
  BY <1>2, <1>3, DeservesAssumption
<1>9. Opening(side).op = "session_start"
  BY DEF Opening, StartEvent
<1> HIDE DEF s, a, zones, by, on
<1>10. ASSUME NEW f \in Range(a.findings)
       PROVE  \E deed \in Range(truth[side]) : IsAbout(f, deed, side)
  <2>1. PICK e \in Range(s) : \E g \in Found(zones, e) :
            f.rule = g.rule /\ f.severity = g.severity /\ f.subject = g.subject
    BY <1>6
  <2>2. PICK g \in Found(zones, e) : f.rule = g.rule /\ f.severity = g.severity /\ f.subject = g.subject
    BY <2>1
  <2>3. e.op \notin {"session_start", "session_end"}
    <3>1. PICK x \in Evaluate(Catalog, zones, e) : TRUE
      BY FoundIs
    <3> QED BY <3>1, KindsOfEvents
  <2>4. PICK deed \in Range(truth[side]), placed \in BOOLEAN : e \in Says(side, deed, placed)
    BY <1>2, <1>9, <2>3 DEF ToldOnly, s
  <2>5. g.rule \in RulesOf(Offences(deed, by, on)) /\ g.subject \in NameOf(deed, on)
    BY <1>7, <2>4 DEF Answers, zones, on
  <2>6. IsAbout(f, deed, side)
    BY <1>8, <2>2, <2>5 DEF IsAbout, by, on
  <2> QED BY <2>6
<1>11. ASSUME lost[side] = 0, NEW deed \in Range(truth[side]), NEW id \in RulesOf(Offences(deed, by, on))
       PROVE  \/ \E f \in Range(a.findings) : /\ f.rule = id /\ f.severity = SeverityOf(id)
                                              /\ f.subject \in NameOf(deed, on)
              \/ Upward(deed) /\ a.unresolved_paths > 0
  <2>1. PICK placed \in BOOLEAN : Says(side, deed, placed) \subseteq Range(s)
    BY <1>2, <1>11 DEF ToldAll, s
  <2>2. /\ Answers(Says(side, deed, placed), deed, by, on)
        /\ \A e \in Says(side, deed, placed) : \A g \in Found(zones, e) : g.rule \notin a.skipped_rules
    BY <1>1, <1>5, <1>7
  <2>3. CASE \E e \in Says(side, deed, placed) : \E g \in Found(zones, e) : g.rule = id
    <3>1. PICK e \in Says(side, deed, placed) : \E g \in Found(zones, e) : g.rule = id
      BY <2>3
    <3>2. PICK g \in Found(zones, e) : g.rule = id
      BY <3>1
    <3>3. g.subject \in NameOf(deed, on) /\ g.rule \notin a.skipped_rules
      BY <2>2, <3>1 DEF Answers, zones, on
    <3>4. PICK f \in Range(a.findings) : f.rule = g.rule /\ f.severity = g.severity /\ f.subject = g.subject
      BY <1>6, <2>1, <3>1, <3>3
    <3>5. g.severity = SeverityOf(g.rule)
      BY SeverityIsOfRule
    <3> QED BY <3>2, <3>3, <3>4, <3>5
  <2>4. CASE Upward(deed) /\ \E e \in Says(side, deed, placed) : Unplaceable(e, zones)
    <3>1. PICK e \in Range(s) : Unplaceable(e, zones)
      BY <2>1, <2>4
    <3> DEFINE S == {i \in DOMAIN s : Unplaceable(s[i], zones)}
    <3>2. S # {}
      BY <3>1 DEF Range
    <3>3. IsFiniteSet(S)
      BY <1>1, FS_Subset
    <3>4. a.unresolved_paths = Cardinality(S)
      BY <1>1, <1>5
    <3> HIDE DEF S
    <3>5. Cardinality(S) \in Nat /\ Cardinality(S) # 0
      BY <3>2, <3>3, FS_CardinalityType, FS_EmptySet
    <3>6. Cardinality(S) > 0
      BY <3>5
    <3> QED BY <2>4, <3>4, <3>6
  <2> QED BY <1>11, <2>2, <2>3, <2>4 DEF Answers, zones, on
<1>12. /\ a.skipped_rules = SkippedFor(by) /\ a.backend = by
  BY <1>1, <1>5
<1> QED BY <1>6, <1>10, <1>11, <1>12 DEF a, by, on

\* Every finding that scores is about something the install really did, under a
\* rule that this deserves and with its true name, on any host and even from a
\* recording that was cut short (rules.rs judges each event by the zones of the
\* first line, findings.rs only counts and orders what was found).
THEOREM NoFindingIsInvented == Spec => []FindingsAreEarned
<1>1. ASSUME FileInv, TellInv PROVE FindingsAreEarned
  <2>1. ASSUME NEW side \in Sides, Readable(side), NEW f \in Range(AnalysisOf(side).findings)
        PROVE  \E deed \in Range(truth[side]) : IsAbout(f, deed, side)
    <3>1. phase[side] # "waiting"
      BY <2>1 DEF Readable
    <3>2. \A x \in Range(AnalysisOf(side).findings) : \E deed \in Range(truth[side]) : IsAbout(x, deed, side)
      BY <1>1, <3>1, AnalysisTells
    <3> QED BY <2>1, <3>2
  <2> QED BY <2>1 DEF FindingsAreEarned
<1> QED BY <1>1, FilesAreTrue, FilesTell, PTL

\* No deed that deserves a scoring finding goes unsaid: it is found, or the page
\* tells why it may be missing (partial, unresolved, a rule that was skipped); and
\* no page calls such an install clean without a caveat (analysis.rs and verdict
\* rank partial before the score, and the score before the blind spots).
THEOREM NothingGoesUnsaid == Spec => []NothingDeservedIsSilent
<1>1. ASSUME FileInv, TellInv PROVE NothingDeservedIsSilent
  <2> SUFFICES ASSUME NEW side \in Sides, Readable(side), NEW deed \in Range(truth[side]), Deserved(deed)
               PROVE  LET a == AnalysisOf(side)
                          page == MarkdownPage(a)
                      IN  /\ \/ page.badge
                             \/ \E f \in Range(a.findings) : IsAbout(f, deed, side)
                             \/ page.unresolved > 0 /\ deed.does \in {"put", "alter"} /\ deed.relative
                             \/ deed.deserves \in page.skipped
                          /\ Verdict(a) # "Clean"
    BY DEF NothingDeservedIsSilent
  <2> DEFINE a == AnalysisOf(side)
             page == MarkdownPage(a)
             on == host[side]
  <2>1. phase[side] # "waiting" /\ Finished(side) /\ ~file[side].torn
    BY DEF Readable, Finished
  <2>2. /\ page.badge <=> Verdict(a) = "Partial"
        /\ page.unresolved = a.unresolved_paths /\ page.skipped = a.skipped_rules
    BY DEF MarkdownPage, ShowsPartialBadge
  <2>3. a.partial = Completeness(file[side].lines).partial
    BY DEF AnalysisOf, Analysis
  <2> HIDE DEF page
  <2>4. CASE ~Whole(side)
    <3>1. ~Trusted(file[side])
      BY <1>1, <2>1, <2>4, TrustedIsWhole
    <3>2. a.partial
      BY <2>1, <2>3, <3>1 DEF Completeness, Trusted
    <3>3. Verdict(a) = "Partial"
      BY <3>2 DEF Verdict
    <3> QED BY <2>2, <3>3 DEF page
  <2>5. CASE Whole(side)
    <3>1. lost[side] = 0
      BY <2>5 DEF Whole
    <3>2. /\ \A d \in Range(truth[side]) : \A id \in RulesOf(Offences(d, backend[side], on)) :
                \/ \E f \in Range(a.findings) : /\ f.rule = id /\ f.severity = SeverityOf(id)
                                                /\ f.subject \in NameOf(d, on)
                \/ Upward(d) /\ a.unresolved_paths > 0
          /\ a.skipped_rules = SkippedFor(backend[side]) /\ a.backend = backend[side]
          /\ \E n \in Nat : DOMAIN a.findings = 1 .. n
      BY <1>1, <2>1, <3>1, AnalysisTells
    <3>3. on \in Hosts /\ backend[side] \in {"strace", "aya"} /\ deed \in Deeds
      BY <1>1 DEF TellInv, SettingOK, Range
    <3>4. deed.deserves \in RulesOf(Offences(deed, "strace", on))
      BY <3>3, DeservesAssumption DEF Deserved
    <3>5. a.unresolved_paths > 0 => ~CleanResultIsTrustworthy(a)
      BY DEF CleanResultIsTrustworthy
    <3> HIDE DEF a, on
    <3>6. CASE backend[side] = "strace"
      <4>1. CASE \E f \in Range(a.findings) : /\ f.rule = deed.deserves
                                              /\ f.severity = SeverityOf(deed.deserves)
                                              /\ f.subject \in NameOf(deed, on)
        <5>1. PICK f \in Range(a.findings) : /\ f.rule = deed.deserves
                                             /\ f.severity = SeverityOf(deed.deserves)
                                             /\ f.subject \in NameOf(deed, on)
          BY <4>1
        <5>2. IsAbout(f, deed, side)
          BY <5>1 DEF IsAbout, on
        <5>3. f.severity \in {"critical", "high", "medium"}
          <6>1. f.severity # "low"
            BY <5>1 DEF Deserved, Contributes
          <6>2. \E r \in Range(Catalog.rules) : r.id = deed.deserves
            BY <3>4, RuleOfKind DEF RulesOf
          <6>3. f.severity \in Range(Severities)
            BY <5>1, <6>2, CatalogAssumption DEF SeverityOf
          <6> QED BY <6>1, <6>3 DEF Severities, Range
        <5>4. a.score.value > 0
          <6>1. a.score = ScoreOf(a.findings)
            BY DEF a, AnalysisOf, Analysis
          <6>2. PICK n \in Nat : DOMAIN a.findings = 1 .. n
            BY <3>2
          <6>3. PICK i \in 1 .. n : f = a.findings[i]
            BY <6>2 DEF Range
          <6>4. a.findings[i].severity \in {"critical", "high", "medium"}
            BY <5>3, <6>3
          <6> QED BY <6>1, <6>2, <6>4, ScoreCounts
        <5>5. Verdict(a) # "Clean"
          BY <5>4 DEF Verdict
        <5> QED BY <5>2, <5>5 DEF a
      <4>2. CASE Upward(deed) /\ a.unresolved_paths > 0
        <5>1. Verdict(a) # "Clean"
          BY <4>2, <3>5 DEF Verdict
        <5> QED BY <4>2, <5>1, <2>2 DEF Upward, a, page
      <4> QED BY <3>2, <3>4, <3>6, <4>1, <4>2
    <3>7. CASE backend[side] = "aya"
      <4>1. Verdict(a) # "Clean"
        <5>1. "DNS queries" \in BlindSpots(a.backend)
          BY <3>2, <3>7 DEF BlindSpots, Classes, Unobserved
        <5>2. ~CleanResultIsTrustworthy(a)
          BY <5>1 DEF CleanResultIsTrustworthy
        <5> QED BY <5>2 DEF Verdict
      <4>2. CASE deed.does \in {"consult", "lookup"}
        <5>1. deed.deserves \in a.skipped_rules
          BY <3>2, <3>3, <3>4, <3>7, <4>2, UnseenIsSkipped
        <5> QED BY <2>2, <4>1, <5>1 DEF a, page
      <4>3. CASE deed.does \notin {"consult", "lookup"}
        <5>1. PICK id : id \in RulesOf(Offences(deed, "aya", on))
          BY <3>3, <3>4, <4>3, AyaSuspects
        <5>2. id \in {deed.deserves, deed.suspect}
          BY <3>3, <5>1, DeservesAssumption
        <5>3. \/ \E f \in Range(a.findings) : f.rule = id /\ f.subject \in NameOf(deed, on)
              \/ Upward(deed) /\ a.unresolved_paths > 0
          BY <3>2, <3>7, <5>1
        <5>4. CASE \E f \in Range(a.findings) : f.rule = id /\ f.subject \in NameOf(deed, on)
          <6>1. PICK f \in Range(a.findings) : f.rule = id /\ f.subject \in NameOf(deed, on)
            BY <5>4
          <6>2. IsAbout(f, deed, side)
            BY <3>7, <5>2, <6>1 DEF IsAbout, on
          <6> QED BY <4>1, <6>2 DEF a
        <5>5. CASE Upward(deed) /\ a.unresolved_paths > 0
          BY <2>2, <4>1, <5>5 DEF Upward, a, page
        <5> QED BY <5>3, <5>4, <5>5
      <4> QED BY <4>2, <4>3
    <3> QED BY <3>3, <3>6, <3>7
  <2> QED BY <2>4, <2>5
<1> QED BY <1>1, FilesAreTrue, FilesTell, PTL

-----------------------------------------------------------------------------
(* One install, two recorders                                              *)

\* What a recorder asserts of a deed, and of all a side did.
DeedFacts(deed, by, on) == UNION {Facts(e) : e \in Range(Events(deed, by, on, TRUE))}
FactsOfAll(facts, side, by) ==
    \A fact : fact \in facts <=>
        \E deed \in Range(truth[side]) : fact \in DeedFacts(deed, by, host[side])

\* A whole recording of a side asserts just that.
LEMMA StreamAsserts ==
    ASSUME TellInv, NEW side \in Sides, NEW by \in {"strace", "aya"}
    PROVE  /\ ~Completeness(StreamBy(by, side)).partial
           /\ FactsOfAll(FactsOf(StreamBy(by, side)), side, by)
<1> DEFINE on == host[side]
           deeds == truth[side]
           E == UNION {Range(Events(deed, by, on, TRUE)) : deed \in Deeds}
           streams == [i \in DOMAIN deeds |-> Events(deeds[i], by, on, TRUE)]
           told == FlattenSeq(streams)
           start == StartEvent(by, on)
           end == EndEvent(by, 0)
<1>1. deeds \in Seq(Deeds)
  BY DEF TellInv
<1>2. PICK n \in Nat : DOMAIN deeds = 1 .. n /\ \A i \in 1 .. n : deeds[i] \in Deeds
  BY <1>1
<1>3. \A deed \in Deeds : /\ Events(deed, by, on, TRUE) \in Seq(E)
                          /\ ~Terminated(Events(deed, by, on, TRUE))
  <2> SUFFICES ASSUME NEW deed \in Deeds
               PROVE  Events(deed, by, on, TRUE) \in Seq(E) /\ ~Terminated(Events(deed, by, on, TRUE))
    OBVIOUS
  <2>1. IsStream(Events(deed, by, on, TRUE)) /\ ~Terminated(Events(deed, by, on, TRUE))
    BY EventsEndNothing
  <2>2. Range(Events(deed, by, on, TRUE)) \subseteq E
    OBVIOUS
  <2> DEFINE s == Events(deed, by, on, TRUE)
  <2> HIDE DEF E, s
  <2>3. s \in Seq(Range(s)) /\ Range(s) \subseteq E
    BY <2>1, <2>2 DEF IsStream, s
  <2>4. s \in Seq(E)
    BY <2>3
  <2> QED BY <2>1, <2>4 DEF s
<1> HIDE DEF E
<1>4. streams \in Seq(Seq(E)) /\ DOMAIN streams = DOMAIN deeds
  <2>1. \A i \in 1 .. n : streams[i] \in Seq(E)
    BY <1>2, <1>3
  <2>2. streams \in [1 .. n -> Seq(E)]
    BY <1>2, <2>1
  <2> HIDE DEF streams
  <2> QED BY <1>2, <2>2
<1>5. /\ told \in Seq(E)
      /\ \A e : e \in Range(told) <=> \E i \in DOMAIN streams : e \in Range(streams[i])
  <2> HIDE DEF streams
  <2>1. streams \in Seq(Seq(E))
    BY <1>4
  <2> QED BY <2>1, FlattenHolds
<1>6. \A e : e \in Range(told) <=> \E deed \in Range(deeds) : e \in Range(Events(deed, by, on, TRUE))
  <2>1. \A i \in DOMAIN deeds : i \in DOMAIN streams /\ streams[i] = Events(deeds[i], by, on, TRUE)
    OBVIOUS
  <2>2. \A deed : deed \in Range(deeds) <=> \E i \in DOMAIN deeds : deed = deeds[i]
    BY DEF Range
  <2> HIDE DEF told, streams, deeds
  <2>3. ASSUME NEW e, NEW i \in DOMAIN streams, e \in Range(streams[i])
        PROVE  \E deed \in Range(deeds) : e \in Range(Events(deed, by, on, TRUE))
    BY <1>4, <2>1, <2>2, <2>3
  <2>4. ASSUME NEW e, NEW deed \in Range(deeds), e \in Range(Events(deed, by, on, TRUE))
        PROVE  \E i \in DOMAIN streams : e \in Range(streams[i])
    <3>1. PICK i \in DOMAIN deeds : deed = deeds[i]
      BY <2>2
    <3>2. i \in DOMAIN streams /\ streams[i] = Events(deed, by, on, TRUE)
      BY <2>1, <3>1
    <3> QED BY <2>4, <3>2
  <2> QED BY <1>5, <2>3, <2>4
<1>7. IsStream(told) /\ ~Terminated(told)
  <2>1. \A deed \in Range(deeds) : deed \in Deeds
    BY <1>2 DEF Range
  <2>2. \A deed \in Deeds : \A e \in Range(Events(deed, by, on, TRUE)) : e.op # "session_end"
    <3> SUFFICES ASSUME NEW deed \in Deeds, NEW e \in Range(Events(deed, by, on, TRUE))
                 PROVE  e.op # "session_end"
      OBVIOUS
    <3> DEFINE s == Events(deed, by, on, TRUE)
    <3>1. ~Terminated(s)
      BY <1>3
    <3> HIDE DEF s
    <3>2. \A i \in DOMAIN s : s[i].op # "session_end"
      BY <3>1 DEF Terminated, SessionEnds
    <3> QED BY <3>2 DEF s, Range
  <2> HIDE DEF told
  <2>3. \A e \in Range(told) : e.op # "session_end"
    BY <1>6, <2>1, <2>2
  <2>4. \A i \in DOMAIN told : told[i].op # "session_end"
    BY <2>3 DEF Range
  <2> QED BY <1>5, <2>4, StreamsAre DEF Terminated, SessionEnds
<1>8. start.op = "session_start" /\ end.op = "session_end" /\ end.complete
  BY DEF StartEvent, EndEvent
<1>9. StreamBy(by, side) = (<<start>> \o told) \o <<end>>
  BY DEF StreamBy
<1> HIDE DEF told, start, end
<1>10. /\ IsStream(<<start>>) /\ ~Terminated(<<start>>) /\ IsStream(<<end>>)
  BY <1>8, ShortStreams
<1>11. IsStream(<<start>> \o told) /\ ~Terminated(<<start>> \o told)
  BY <1>7, <1>10, NoNewEnd
<1>12. ~Completeness(StreamBy(by, side)).partial
  <2> DEFINE s == (<<start>> \o told) \o <<end>>
  <2>1. Terminated(s) /\ LastEnd(s) = end
    BY <1>8, <1>11, OneEnd
  <2> HIDE DEF s
  <2>2. ~Completeness(s).partial
    BY <1>8, <2>1 DEF Completeness
  <2> QED BY <1>9, <2>2 DEF s
<1>13. Range(StreamBy(by, side)) = {start} \cup Range(told) \cup {end}
  <2>1. Range(<<start>> \o told) = Range(<<start>>) \cup Range(told)
    BY <1>7, <1>10, RangeOfBoth
  <2>2. Range((<<start>> \o told) \o <<end>>) = Range(<<start>> \o told) \cup Range(<<end>>)
    BY <1>10, <1>11, RangeOfBoth
  <2> QED BY <1>9, <2>1, <2>2, Ranges
<1>14. Facts(start) = {} /\ Facts(end) = {}
  BY <1>8 DEF Facts
<1> DEFINE s == StreamBy(by, side)
<1> HIDE DEF s
<1>15. \A fact : fact \in FactsOf(s) <=> \E e \in Range(s) : fact \in Facts(e)
  BY DEF FactsOf, Range
<1>16. \A fact : fact \in FactsOf(s) <=> \E e \in Range(told) : fact \in Facts(e)
  BY <1>13, <1>14, <1>15 DEF s
<1>17. FactsOfAll(FactsOf(s), side, by)
  BY <1>6, <1>16 DEF FactsOfAll, DeedFacts
<1> QED BY <1>12, <1>17 DEF s

\* What the comparison does not hold against one recorder or the other.
Explained(strace, aya) ==
    /\ \A fact \in strace \ aya : \/ fact.is \in {"Read", "Resolved", "Spawned"}
                                  \/ fact.is = "Wrote" /\ HasCounterpart(fact, aya)
    /\ \A fact \in aya \ strace : fact.is = "Wrote" /\ HasCounterpart(fact, strace)

\* What only strace sees the outcome of, and what aya cannot spell.
ToldApart(deed) ==
    \/ deed.does \in {"alter", "connect"} /\ deed.failed
    \/ deed.does \in {"put", "alter"} /\ deed.relative /\ (deed.place # "project" \/ deed.names = <<>>)

Wrote(kind, path) == [is |-> "Wrote", kind |-> kind, abs |-> path.abs, names |-> path.names]

\* The two spellings of one path are the same, or a pair.
LEMMA SpellingsPair ==
    ASSUME NEW on \in Hosts, NEW deed \in FileDeeds,
           deed.relative => deed.place = "project" /\ deed.names # <<>>, NEW kind
    PROVE  LET real == Wrote(kind, RealPath(deed, on))
               spelled == Wrote(kind, SpelledPath(deed, on))
           IN  real = spelled \/ (HasCounterpart(real, {spelled}) /\ HasCounterpart(spelled, {real}))
<1> DEFINE real == Wrote(kind, RealPath(deed, on))
           spelled == Wrote(kind, SpelledPath(deed, on))
<1>1. CASE ~deed.relative
  BY <1>1 DEF SpelledPath
<1>2. CASE deed.relative
  <2>1. deed.place = "project" /\ deed.names # <<>>
    BY <1>2
  <2>2. SpelledPath(deed, on) = [abs |-> FALSE, names |-> deed.names]
    BY <1>2, <2>1 DEF SpelledPath
  <2>3. RealPath(deed, on) = [abs |-> TRUE, names |-> on.real["project"] \o deed.names]
    BY <2>1 DEF RealPath, At
  <2>4. on.real["project"] \in Seq(Range(on.real["project"])) /\ deed.names \in Seq(Range(deed.names))
    BY HostAssumption, DeedAssumption, ZonesInOrder DEF FileDeeds
  <2> DEFINE S == Range(on.real["project"]) \cup Range(deed.names)
  <2>5. on.real["project"] \in Seq(S) /\ deed.names \in Seq(S)
    BY <2>4
  <2> HIDE DEF S
  <2>6. IsSuffix(deed.names, on.real["project"] \o deed.names)
    BY <2>5, EndsAsSpelled
  <2>7. /\ real.is = "Wrote" /\ real.kind = kind /\ real.abs = TRUE
        /\ real.names = on.real["project"] \o deed.names
        /\ spelled.is = "Wrote" /\ spelled.kind = kind /\ spelled.abs = FALSE
        /\ spelled.names = deed.names
    <3>1. \A path : LET w == Wrote(kind, path)
                    IN  w.is = "Wrote" /\ w.kind = kind /\ w.abs = path.abs /\ w.names = path.names
      BY DEF Wrote
    <3>2. /\ RealPath(deed, on).abs = TRUE /\ SpelledPath(deed, on).abs = FALSE
          /\ RealPath(deed, on).names = on.real["project"] \o deed.names
          /\ SpelledPath(deed, on).names = deed.names
      <4> DEFINE p == RealPath(deed, on)
                 q == SpelledPath(deed, on)
                 below == on.real["project"] \o deed.names
      <4>1. p = [abs |-> TRUE, names |-> below] /\ q = [abs |-> FALSE, names |-> deed.names]
        BY <2>2, <2>3
      <4> HIDE DEF p, q, below
      <4>2. p.abs = TRUE /\ p.names = below /\ q.abs = FALSE /\ q.names = deed.names
        BY <4>1
      <4> QED BY <4>2 DEF p, q, below
    <3> QED BY <3>1, <3>2
  <2> HIDE DEF real, spelled
  <2>8. Pair(real, spelled) /\ KindMatches(kind, kind)
    BY <2>1, <2>6, <2>7 DEF Pair, KindMatches
  <2>9. HasCounterpart(real, {spelled}) /\ HasCounterpart(spelled, {real})
    BY <2>7, <2>8 DEF HasCounterpart
  <2> QED BY <2>9 DEF real, spelled
<1>3. deed.relative \in BOOLEAN
  BY DeedPath
<1> QED BY <1>1, <1>2, <1>3

\* More to choose from is no loss.
LEMMA CounterpartStays ==
    ASSUME NEW fact, NEW A, NEW B, A \subseteq B, HasCounterpart(fact, A)
    PROVE  HasCounterpart(fact, B)
  BY DEF HasCounterpart

\* One event on each side, of one write.
LEMMA OneWriteEach ==
    ASSUME NEW on \in Hosts, NEW deed \in FileDeeds,
           deed.relative => deed.place = "project" /\ deed.names # <<>>,
           NEW kinds, NEW S, NEW A,
           S = {Wrote(kind, RealPath(deed, on)) : kind \in kinds},
           A = {Wrote(kind, SpelledPath(deed, on)) : kind \in kinds}
    PROVE  Explained(S, A)
<1>1. ASSUME NEW kind \in kinds
      PROVE  /\ Wrote(kind, RealPath(deed, on)) \in A
                \/ HasCounterpart(Wrote(kind, RealPath(deed, on)), A)
             /\ Wrote(kind, SpelledPath(deed, on)) \in S
                \/ HasCounterpart(Wrote(kind, SpelledPath(deed, on)), S)
  <2> DEFINE real == Wrote(kind, RealPath(deed, on))
             spelled == Wrote(kind, SpelledPath(deed, on))
  <2>1. real \in S /\ spelled \in A
    OBVIOUS
  <2>2. real = spelled \/ (HasCounterpart(real, {spelled}) /\ HasCounterpart(spelled, {real}))
    BY SpellingsPair
  <2> HIDE DEF real, spelled
  <2>3. /\ real \in A \/ HasCounterpart(real, A)
        /\ spelled \in S \/ HasCounterpart(spelled, S)
    BY <2>1, <2>2, CounterpartStays
  <2> QED BY <2>3 DEF real, spelled
<1>2. \A kind, path : Wrote(kind, path).is = "Wrote"
  BY DEF Wrote
<1> QED BY <1>1, <1>2 DEF Explained

\* The facts of a deed by either recorder.
LEMMA RangeFacts ==
    /\ \A a : UNION {Facts(e) : e \in Range(<<a>>)} = Facts(a)
    /\ \A a, b : UNION {Facts(e) : e \in Range(<<a, b>>)} = Facts(a) \cup Facts(b)
    /\ UNION {Facts(e) : e \in Range(<<>>)} = {}
<1>1. ASSUME NEW a PROVE UNION {Facts(e) : e \in Range(<<a>>)} = Facts(a)
  BY Ranges
<1>2. ASSUME NEW a, NEW b PROVE UNION {Facts(e) : e \in Range(<<a, b>>)} = Facts(a) \cup Facts(b)
  BY Ranges
<1>3. UNION {Facts(e) : e \in Range(<<>>)} = {}
  BY Ranges
<1> QED BY <1>1, <1>2, <1>3

Asserts(e, facts) == Facts(e) = facts

\* What a write asserts, unless it failed.
LEMMA WriteAsserts ==
    ASSUME NEW by, NEW kind, NEW path, NEW origin, NEW exec
    PROVE  /\ Asserts(WriteEvent(by, kind, path, origin, exec, FALSE), {Wrote(kind, path)})
           /\ Asserts(WriteEvent(by, kind, path, origin, exec, TRUE), {})
<1> DEFINE e == WriteEvent(by, kind, path, origin, exec, FALSE)
           f == WriteEvent(by, kind, path, origin, exec, TRUE)
<1>1. /\ e.op = "fs_write" /\ e.failed = FALSE /\ e.kind = kind /\ e.path = path
      /\ f.op = "fs_write" /\ f.failed = TRUE
  BY DEF WriteEvent
<1> HIDE DEF e, f
<1>2. Facts(e) = {Wrote(kind, path)} /\ Facts(f) = {}
  BY <1>1 DEF Facts, Wrote
<1> QED BY <1>2 DEF e, f, Asserts

\* Of one deed, what one recorder says is explained by what the other says.
LEMMA DeedExplained ==
    ASSUME NEW on \in Hosts, NEW deed \in Deeds, ~ToldApart(deed)
    PROVE  Explained(DeedFacts(deed, "strace", on), DeedFacts(deed, "aya", on))
<1> DEFINE S == DeedFacts(deed, "strace", on)
           A == DeedFacts(deed, "aya", on)
           real == RealPath(deed, on)
           spelled == SpelledPath(deed, on)
<1>0. /\ S = UNION {Facts(e) : e \in Range(StraceEvents(deed, on, TRUE))}
      /\ A = UNION {Facts(e) : e \in Range(AyaEvents(deed, on))}
  BY DEF DeedFacts, Events
<1>1. deed \in FileDeeds => deed.failed \in BOOLEAN /\ deed.relative \in BOOLEAN
  BY DeedPath
<1>2. CASE deed.does = "put" /\ deed.failed
  <2>1. deed \in FileDeeds
    BY <1>2 DEF FileDeeds, OnFiles
  <2>2. StraceEvents(deed, on, TRUE)
            = <<WriteEvent("strace", "Open", real, StraceOrigin(deed, TRUE), FALSE, TRUE)>>
    BY <1>2 DEF StraceEvents, StraceOrigin
  <2>3. AyaEvents(deed, on) = <<WriteEvent("aya", "Open", spelled, AyaOrigin(deed, on), FALSE, TRUE)>>
    <3>1. AyaEvents(deed, on)
              = <<WriteEvent("aya", "Open", spelled, AyaOrigin(deed, on), FALSE, TRUE)>> \o <<>>
      BY <1>1, <1>2, <2>1 DEF AyaEvents, AyaOrigin
    <3> QED BY <3>1, ShortSequences
  <2>4. S = {} /\ A = {}
    <3> DEFINE e == WriteEvent("strace", "Open", real, StraceOrigin(deed, TRUE), FALSE, TRUE)
               f == WriteEvent("aya", "Open", spelled, AyaOrigin(deed, on), FALSE, TRUE)
    <3>1. Facts(e) = {} /\ Facts(f) = {}
      BY WriteAsserts DEF Asserts
    <3> HIDE DEF e, f
    <3>2. S = Facts(e)
      BY <1>0, <2>2, RangeFacts DEF e
    <3>3. A = Facts(f)
      BY <1>0, <2>3, RangeFacts DEF f
    <3> QED BY <3>1, <3>2, <3>3
  <2> QED BY <2>4 DEF Explained
<1>3. CASE deed.does = "put" /\ ~deed.failed
  <2>1. deed \in FileDeeds
    BY <1>3 DEF FileDeeds, OnFiles
  <2>2. StraceEvents(deed, on, TRUE) = <<WriteEvent("strace", "Open", real, "Kernel", FALSE, FALSE),
                                         WriteEvent("strace", "Write", real, "Kernel", FALSE, FALSE)>>
    BY <1>3 DEF StraceEvents
  <2>3. AyaEvents(deed, on) = <<WriteEvent("aya", "Open", spelled, AyaOrigin(deed, on), FALSE, FALSE),
                                WriteEvent("aya", "Write", spelled, AyaOrigin(deed, on), FALSE, FALSE)>>
    <3>1. deed.failed = FALSE
      BY <1>1, <1>3, <2>1
    <3>2. AyaEvents(deed, on)
              = <<WriteEvent("aya", "Open", spelled, AyaOrigin(deed, on), FALSE, FALSE)>>
                \o <<WriteEvent("aya", "Write", spelled, AyaOrigin(deed, on), FALSE, FALSE)>>
      BY <1>3, <3>1 DEF AyaEvents, AyaOrigin
    <3> QED BY <3>2, ShortSequences
  <2>4. /\ S = {Wrote("Open", real)} \cup {Wrote("Write", real)}
        /\ A = {Wrote("Open", spelled)} \cup {Wrote("Write", spelled)}
    <3> DEFINE e == WriteEvent("strace", "Open", real, "Kernel", FALSE, FALSE)
               f == WriteEvent("strace", "Write", real, "Kernel", FALSE, FALSE)
               g == WriteEvent("aya", "Open", spelled, AyaOrigin(deed, on), FALSE, FALSE)
               h == WriteEvent("aya", "Write", spelled, AyaOrigin(deed, on), FALSE, FALSE)
    <3>1. /\ Facts(e) = {Wrote("Open", real)} /\ Facts(f) = {Wrote("Write", real)}
          /\ Facts(g) = {Wrote("Open", spelled)} /\ Facts(h) = {Wrote("Write", spelled)}
      <4> HIDE DEF real, spelled
      <4>1. Asserts(e, {Wrote("Open", real)})
        BY WriteAsserts
      <4>2. Asserts(f, {Wrote("Write", real)})
        BY WriteAsserts
      <4>3. Asserts(g, {Wrote("Open", spelled)})
        BY WriteAsserts
      <4>4. Asserts(h, {Wrote("Write", spelled)})
        BY WriteAsserts
      <4> QED BY <4>1, <4>2, <4>3, <4>4 DEF Asserts
    <3>2. StraceEvents(deed, on, TRUE) = <<e, f>> /\ AyaEvents(deed, on) = <<g, h>>
      BY <2>2, <2>3
    <3> HIDE DEF e, f, g, h
    <3>3. S = Facts(e) \cup Facts(f)
      BY <1>0, <3>2, RangeFacts
    <3>4. A = Facts(g) \cup Facts(h)
      BY <1>0, <3>2, RangeFacts
    <3> QED BY <3>1, <3>3, <3>4
  <2>5. /\ S = {Wrote(kind, real) : kind \in {"Open", "Write"}}
        /\ A = {Wrote(kind, spelled) : kind \in {"Open", "Write"}}
    BY <2>4
  <2>6. deed.relative => deed.place = "project" /\ deed.names # <<>>
    BY <1>3 DEF ToldApart
  <2> QED BY <2>1, <2>5, <2>6, OneWriteEach
<1>4. CASE deed.does = "alter"
  <2>1. deed \in FileDeeds
    BY <1>4 DEF FileDeeds, OnFiles
  <2>2. deed.failed = FALSE
    BY <1>1, <1>4, <2>1 DEF ToldApart
  <2>3. StraceEvents(deed, on, TRUE)
            = <<WriteEvent("strace", deed.kind, real, StraceOrigin(deed, TRUE), deed.exec, FALSE)>>
    BY <1>4, <2>2 DEF StraceEvents, StraceOrigin
  <2>4. AyaEvents(deed, on)
            = <<WriteEvent("aya", deed.kind, spelled, AyaOrigin(deed, on), FALSE, FALSE)>>
    BY <1>4 DEF AyaEvents, AyaOrigin
  <2>5. S = {Wrote(deed.kind, real)} /\ A = {Wrote(deed.kind, spelled)}
    <3> DEFINE e == WriteEvent("strace", deed.kind, real, StraceOrigin(deed, TRUE), deed.exec, FALSE)
               f == WriteEvent("aya", deed.kind, spelled, AyaOrigin(deed, on), FALSE, FALSE)
    <3>1. Facts(e) = {Wrote(deed.kind, real)} /\ Facts(f) = {Wrote(deed.kind, spelled)}
      <4> HIDE DEF real, spelled
      <4>1. Asserts(e, {Wrote(deed.kind, real)})
        BY WriteAsserts
      <4>2. Asserts(f, {Wrote(deed.kind, spelled)})
        BY WriteAsserts
      <4> QED BY <4>1, <4>2 DEF Asserts
    <3>2. StraceEvents(deed, on, TRUE) = <<e>> /\ AyaEvents(deed, on) = <<f>>
      BY <2>3, <2>4
    <3> HIDE DEF e, f
    <3>3. S = Facts(e)
      BY <1>0, <3>2, RangeFacts
    <3>4. A = Facts(f)
      BY <1>0, <3>2, RangeFacts
    <3> QED BY <3>1, <3>3, <3>4
  <2>6. /\ S = {Wrote(kind, real) : kind \in {deed.kind}}
        /\ A = {Wrote(kind, spelled) : kind \in {deed.kind}}
    BY <2>5
  <2>7. deed.relative => deed.place = "project" /\ deed.names # <<>>
    BY <1>4 DEF ToldApart
  <2> QED BY <2>1, <2>6, <2>7, OneWriteEach
<1>5. CASE deed.does = "connect"
  <2>1. deed.failed = FALSE
    BY <1>5, DeedAssumption DEF ToldApart
  <2>2. /\ StraceEvents(deed, on, TRUE) = <<ConnectEvent("strace", deed, FALSE)>>
        /\ AyaEvents(deed, on) = <<ConnectEvent("aya", deed, FALSE)>>
    BY <1>5, <2>1 DEF StraceEvents, AyaEvents
  <2>3. Facts(ConnectEvent("strace", deed, FALSE)) = Facts(ConnectEvent("aya", deed, FALSE))
    <3> DEFINE e == ConnectEvent("strace", deed, FALSE)
               f == ConnectEvent("aya", deed, FALSE)
    <3>1. /\ e.op = "net_connect" /\ e.failed = FALSE /\ e.ip = deed.ip /\ e.port = deed.port
          /\ f.op = "net_connect" /\ f.failed = FALSE /\ f.ip = deed.ip /\ f.port = deed.port
      BY DEF ConnectEvent
    <3> HIDE DEF e, f
    <3>2. Facts(e) = Facts(f)
      BY <3>1 DEF Facts
    <3> QED BY <3>2 DEF e, f
  <2>4. S = A
    BY <1>0, <2>2, <2>3, RangeFacts
  <2> QED BY <2>4 DEF Explained
<1>6. CASE deed.does \in {"consult", "lookup"}
  <2>1. AyaEvents(deed, on) = <<>>
    BY <1>6 DEF AyaEvents
  <2>2. A = {}
    BY <1>0, <2>1, RangeFacts
  <2>3. \E e : StraceEvents(deed, on, TRUE) = <<e>> /\ e.op \in {"fs_read", "dns_query"}
    <3>1. CASE deed.does = "consult"
      BY <3>1 DEF StraceEvents
    <3>2. CASE deed.does = "lookup"
      BY <3>2 DEF StraceEvents
    <3> QED BY <1>6, <3>1, <3>2
  <2>4. PICK e : StraceEvents(deed, on, TRUE) = <<e>> /\ e.op \in {"fs_read", "dns_query"}
    BY <2>3
  <2>5. S = Facts(e)
    BY <1>0, <2>4, RangeFacts
  <2>6. \A fact \in Facts(e) : fact.is \in {"Read", "Resolved"}
    BY <2>4 DEF Facts
  <2> QED BY <2>2, <2>5, <2>6 DEF Explained
<1>7. CASE deed.does = "spawn"
  <2>1. /\ StraceEvents(deed, on, TRUE) = <<SpawnEvent("strace", deed)>>
        /\ AyaEvents(deed, on) = <<SpawnEvent("aya", deed)>>
    BY <1>7 DEF StraceEvents, AyaEvents
  <2>2. Facts(SpawnEvent("strace", deed)) = Facts(SpawnEvent("aya", deed))
    <3> DEFINE e == SpawnEvent("strace", deed)
               f == SpawnEvent("aya", deed)
    <3>1. e.op = "proc_spawn" /\ e.bin = deed.bin /\ f.op = "proc_spawn" /\ f.bin = deed.bin
      BY DEF SpawnEvent
    <3> HIDE DEF e, f
    <3>2. Facts(e) = Facts(f)
      BY <3>1 DEF Facts
    <3> QED BY <3>2 DEF e, f
  <2>3. S = A
    BY <1>0, <2>1, <2>2, RangeFacts
  <2> QED BY <2>3 DEF Explained
<1> QED BY <1>2, <1>3, <1>4, <1>5, <1>6, <1>7, DeedAssumption

\* Two whole recordings of one install, one by each recorder, differ in nothing that
\* is not known to differ (parity.rs pairs a path with its spelling by one component
\* suffix and one kind, and allows aya neither reads nor lookups).
THEOREM RecordersAgree == Spec => []WholeRecordingsAgree
<1>1. TellInv => WholeRecordingsAgree
  <2> SUFFICES ASSUME TellInv, NEW side \in Sides,
                      \A deed \in Range(truth[side]) : ~ToldApart(deed)
               PROVE  ParityPassed(StreamBy("strace", side), StreamBy("aya", side))
    BY DEF WholeRecordingsAgree, ToldApart
  <2> DEFINE on == host[side]
             S == FactsOf(StreamBy("strace", side))
             A == FactsOf(StreamBy("aya", side))
  <2>1. /\ ~Completeness(StreamBy("strace", side)).partial
        /\ ~Completeness(StreamBy("aya", side)).partial
        /\ FactsOfAll(S, side, "strace") /\ FactsOfAll(A, side, "aya")
    BY StreamAsserts
  <2>2. on \in Hosts /\ \A deed \in Range(truth[side]) : deed \in Deeds
    <3>1. truth[side] \in Seq(Deeds)
      BY DEF TellInv
    <3> QED BY <3>1 DEF TellInv, SettingOK, Range
  <2> HIDE DEF S, A
  <2>3. \A deed \in Range(truth[side]) :
            Explained(DeedFacts(deed, "strace", on), DeedFacts(deed, "aya", on))
    BY <2>2, DeedExplained
  <2>4. \A deed \in Range(truth[side]) :
            DeedFacts(deed, "strace", on) \subseteq S /\ DeedFacts(deed, "aya", on) \subseteq A
    BY <2>1 DEF FactsOfAll
  <2>5. ASSUME NEW fact \in S \ A PROVE ExpectedMissingFromAya(fact, A)
    <3>1. PICK deed \in Range(truth[side]) : fact \in DeedFacts(deed, "strace", on)
      BY <2>1 DEF FactsOfAll
    <3>2. fact \in DeedFacts(deed, "strace", on) \ DeedFacts(deed, "aya", on)
      BY <2>4, <2>5, <3>1
    <3>3. \/ fact.is \in {"Read", "Resolved", "Spawned"}
          \/ fact.is = "Wrote" /\ HasCounterpart(fact, DeedFacts(deed, "aya", on))
      BY <2>3, <3>2 DEF Explained
    <3>4. HasCounterpart(fact, DeedFacts(deed, "aya", on)) => HasCounterpart(fact, A)
      BY <2>4, CounterpartStays
    <3> QED BY <3>3, <3>4 DEF ExpectedMissingFromAya
  <2>6. ASSUME NEW fact \in A \ S PROVE ExpectedMissingFromStrace(fact, S, A)
    <3>1. PICK deed \in Range(truth[side]) : fact \in DeedFacts(deed, "aya", on)
      BY <2>1 DEF FactsOfAll
    <3>2. fact \in DeedFacts(deed, "aya", on) \ DeedFacts(deed, "strace", on)
      BY <2>4, <2>6, <3>1
    <3>3. fact.is = "Wrote" /\ HasCounterpart(fact, DeedFacts(deed, "strace", on))
      BY <2>3, <3>2 DEF Explained
    <3>4. HasCounterpart(fact, S)
      BY <2>4, <3>3, CounterpartStays
    <3> QED BY <3>3, <3>4 DEF ExpectedMissingFromStrace
  <2>7. Unexplained(StreamBy("strace", side), StreamBy("aya", side)) = {}
    BY <2>5, <2>6 DEF Unexplained, S, A
  <2> QED BY <2>1, <2>7 DEF ParityPassed
<1> QED BY <1>1, FilesTell, PTL
=============================================================================
