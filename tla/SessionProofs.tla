--------------------------- MODULE SessionProofs ---------------------------
(***************************************************************************)
(* What an events file promises its readers, for any number of events,     *)
(* heartbeats and failing writes, whenever the recorder dies: it reads as  *)
(* complete only if it is whole, what it says of itself is true, and the   *)
(* writer over its failing file implements Evidence.                       *)
(***************************************************************************)
EXTENDS Session, SequenceTheorems, FiniteSetTheorems, WellFoundedInduction, TLAPS

(* Lines, and the text a sink stands for: what is on the medium and, after *)
(* it, what waits in the buffer.  A line that is half on the medium is one *)
(* line of the text.                                                       *)

LineKinds == {"session_start", "event", "heartbeat", "garbage"} \cup EndKinds
Lines == [kind : LineKinds, n : Nat, m : Nat]
TextLines == {l \in Lines : l.kind # "garbage"}
Media == [lines : Seq(Lines), tail : {"eol", "noeol", "cut"}]
Sinks == [medium : Media, buffer : Seq(TextLines), resume : BOOLEAN, ok : BOOLEAN]

Half(s) == IF s.resume THEN 1 ELSE 0
TextLen(s) == Len(s.medium.lines) + Len(s.buffer) - Half(s)
TextAt(s, i) == IF i <= Len(s.medium.lines) THEN s.medium.lines[i]
                ELSE s.buffer[i - Len(s.medium.lines) + Half(s)]

\* A line was run together with another, or was cut and will not be continued.
Garbled(med) == \E i \in DOMAIN med.lines : med.lines[i].kind = "garbage"
Spoilt(s) == Garbled(s.medium) \/ (s.medium.tail = "cut" /\ ~s.resume)

\* Line i of a medium is whole.
Whole(med, i) == i < Len(med.lines) \/ med.tail # "cut"

WellFormed(s) ==
    /\ s \in Sinks
    /\ s.medium.tail # "eol" => s.medium.lines # <<>>
    /\ s.medium.tail = "noeol" => s.resume
    /\ s.resume => s.buffer # <<>> /\ s.medium.tail # "eol"
    /\ s.resume /\ ~Garbled(s.medium)
         => s.medium.lines[Len(s.medium.lines)] = s.buffer[1]

-----------------------------------------------------------------------------
(* What one call does to the text                                          *)

\* Whole lines of a medium stay where they are and whole.
Grows(med, later) ==
    /\ Len(med.lines) <= Len(later.lines)
    /\ \A i \in DOMAIN med.lines :
          Whole(med, i) => later.lines[i] = med.lines[i] /\ Whole(later, i)

NoEventWaits(s) == \A j \in DOMAIN s.buffer : s.buffer[j].kind # "event"

\* After the text was spoilt no event reaches the medium any more.
StaysSpoilt(s, f) ==
    /\ Spoilt(f)
    /\ NoEventWaits(s) =>
         /\ NoEventWaits(f)
         /\ \A i \in DOMAIN f.medium.lines :
               f.medium.lines[i].kind = "event" =>
                   i \in DOMAIN s.medium.lines /\ f.medium.lines[i] = s.medium.lines[i]

\* The call moved lines towards the medium and left the text as it was.
Carries(s, f) ==
    /\ WellFormed(f)
    /\ Grows(s.medium, f.medium)
    /\ Spoilt(s) => StaysSpoilt(s, f)
    /\ ~Spoilt(s) => /\ ~Spoilt(f)
                     /\ TextLen(f) = TextLen(s)
                     /\ \A i \in 1..TextLen(s) : TextAt(f, i) = TextAt(s, i)

\* The call added line l at the end of the text.
Adds(s, f, l) ==
    /\ WellFormed(f)
    /\ Grows(s.medium, f.medium)
    /\ Spoilt(s) /\ l.kind # "event" => StaysSpoilt(s, f)
    /\ ~Spoilt(s) => /\ ~Spoilt(f)
                     /\ TextLen(f) = TextLen(s) + 1
                     /\ \A i \in 1..TextLen(s) : TextAt(f, i) = TextAt(s, i)
                     /\ TextAt(f, TextLen(f)) = l

\* The call cut line l short and kept nothing of it.
Breaks(s, f, l) ==
    /\ WellFormed(f)
    /\ Grows(s.medium, f.medium)
    /\ Spoilt(f)
    /\ f.buffer = <<>>
    /\ \A i \in DOMAIN f.medium.lines :
          \/ i \in 1..TextLen(s) /\ f.medium.lines[i] = TextAt(s, i)
          \/ i = TextLen(s) + 1 /\ f.medium.lines[i] = l

-----------------------------------------------------------------------------
(* The inductive invariant                                                 *)

Working == {"start", "start_flush", "running", "counted", "beat_flush",
            "event_flush", "forced_flush"}
Ending == {"end_flush", "returned"}
Dropping == {"drop", "drop_flush", "unbuffer", "failed", "dead"}

\* The sink is one that its calls can produce; it is empty whenever the writer is
\* between two operations, and whole as long as no call has failed.
SinkInv ==
    /\ Sink \in Sinks
    /\ pc # "dead" => WellFormed(Sink)
    /\ pc = "dead" => buffer = <<>> /\ ~resume
    /\ pc \in {"start", "running"} => buffer = <<>> /\ medium.tail = "eol"
    /\ Spoilt(Sink) => pc \in Dropping /\ NoEventWaits(Sink)

\* The counters follow the events, and the end is declared when work is over.
CountInv ==
    /\ pc \in Working \cup Ending \cup Dropping
    /\ {events_emitted, heartbeats, observed, acknowledged} \subseteq Nat
    /\ events_emitted <= observed /\ acknowledged <= observed
    /\ pc \in Working \cup Ending => observed = events_emitted
    /\ pc \in Working => declared = "none"
    /\ declared \in {"none"} \cup EndKinds

\* Event i of the text.
HasEvent(s, i, n) == i \in 1..TextLen(s) /\ TextAt(s, i) = Line("event", n, 0)

\* The events of the text are the first events, each once and in their order.
EventsInOrder(s, emitted) ==
    \A i, j \in 1..TextLen(s) :
        TextAt(s, i).kind = "event" =>
            /\ TextAt(s, i).n \in 1..emitted
            /\ TextAt(s, j).kind = "event" /\ i < j => TextAt(s, i).n < TextAt(s, j).n

\* All the events that were counted are there.
AllThere(s, emitted) == \A n \in 1..emitted : \E i \in 1..TextLen(s) : HasEvent(s, i, n)

\* The order of the events on a medium alone.
MediumOrder(med, seen) ==
    \A i, j \in DOMAIN med.lines :
        med.lines[i].kind = "event" =>
            /\ med.lines[i].n \in 1..seen
            /\ med.lines[j].kind = "event" /\ i < j => med.lines[i].n < med.lines[j].n

\* An end comes after every event that was counted, and says how many there were.
\* A complete one is the first end, and nothing observed went uncounted.
EndsAreTrue(s, emitted, seen, said) ==
    \A i \in 1..TextLen(s) :
        TextAt(s, i).kind \in EndKinds =>
            /\ TextAt(s, i).n = emitted
            /\ said # "none"
            /\ \A j \in 1..TextLen(s) : TextAt(s, j).kind = "event" => j < i
            /\ \A n \in 1..emitted : \E j \in 1..i : HasEvent(s, j, n)
            /\ TextAt(s, i).kind = "complete" =>
                  /\ said = "complete"
                  /\ seen = emitted
                  /\ \A j \in 1..i : TextAt(s, j).kind # "partial"

\* A text not spoilt is as the counters say; only its last lines go with the buffer
\* when the recorder dies.
TextInv ==
    ~Spoilt(Sink) =>
        /\ EventsInOrder(Sink, events_emitted)
        /\ pc # "dead" => AllThere(Sink, events_emitted)
        /\ EndsAreTrue(Sink, events_emitted, observed, declared)

\* The same for the events on the medium, also when it is spoilt.
MediumInv == MediumOrder(medium, observed)

\* What was acknowledged is whole on the medium.
AckInv ==
    \A n \in 1..acknowledged : \E i \in DOMAIN medium.lines :
        medium.lines[i] = Line("event", n, 0) /\ Whole(medium, i)

IInv == SinkInv /\ CountInv /\ TextInv /\ MediumInv /\ AckInv

-----------------------------------------------------------------------------
(* Lemmas about the sink                                                   *)

(* One line lands behind whatever the medium holds: the lines before stay, *)
(* an unfinished last line is continued or spoilt.                         *)
Landed(med, l, cont, t, m) ==
    /\ m \in Media /\ m.tail = t /\ m.lines # <<>>
    /\ \A i \in 1..Len(med.lines) :
          med.tail = "eol" \/ cont \/ i < Len(med.lines)
             => m.lines[i] = med.lines[i]
    /\ med.tail = "eol" => /\ Len(m.lines) = Len(med.lines) + 1
                           /\ m.lines[Len(m.lines)] = l
    /\ med.tail # "eol" => Len(m.lines) = Len(med.lines)
    /\ med.tail # "eol" /\ ~cont => m.lines[Len(m.lines)] = Garbage

\* One line lands on any medium.
LEMMA LandsOne ==
    ASSUME NEW med \in Media, med.tail # "eol" => med.lines # <<>>,
           NEW l \in TextLines, NEW cont \in BOOLEAN, NEW t \in {"eol", "noeol", "cut"}
    PROVE  Landed(med, l, cont, t, Land(med, l, cont, t))
<1> DEFINE m == Land(med, l, cont, t)
<1> SUFFICES Landed(med, l, cont, t, m)
  OBVIOUS
<1>m. m = Land(med, l, cont, t)
  OBVIOUS
<1> HIDE DEF m
<1>1. /\ med.lines \in Seq(Lines) /\ med.tail \in {"eol", "noeol", "cut"}
      /\ l \in Lines /\ Garbage \in Lines
      /\ Len(med.lines) \in Nat /\ DOMAIN med.lines = 1..Len(med.lines)
  BY DEF Media, TextLines, Lines, LineKinds, Garbage, Line
<1>2. CASE med.tail = "eol"
  <2>1. m = [lines |-> Append(med.lines, l), tail |-> t]
    BY <1>m, <1>2 DEF Land
  <2> QED BY <1>1, <1>2, <2>1 DEF Media, Landed
<1>3. CASE med.tail # "eol" /\ cont
  <2>1. m = [med EXCEPT !.tail = t]
    BY <1>m, <1>3 DEF Land
  <2>2. m.lines = med.lines /\ m.tail = t /\ m \in Media
    BY <2>1 DEF Media
  <2> QED BY <1>1, <1>3, <2>2 DEF Landed
<1>4. CASE med.tail # "eol" /\ ~cont
  <2>1. m = [lines |-> [med.lines EXCEPT ![Len(med.lines)] = Garbage], tail |-> t]
    BY <1>m, <1>4 DEF Land
  <2>2. /\ m.lines = [med.lines EXCEPT ![Len(med.lines)] = Garbage]
        /\ m.tail = t
    BY <2>1
  <2>3. /\ m.lines \in Seq(Lines) /\ Len(m.lines) = Len(med.lines)
        /\ Len(med.lines) \in 1..Len(med.lines)
    BY <1>1, <1>4, <2>2
  <2>4. m \in Media
    BY <2>1, <2>2, <2>3 DEF Media
  <2> QED BY <1>1, <1>4, <2>2, <2>3, <2>4 DEF Landed
<1> QED BY <1>2, <1>3, <1>4

(* What a well-formed sink is, field by field.                             *)
LEMMA SinkTypes ==
    ASSUME NEW s, WellFormed(s)
    PROVE  /\ s.medium \in Media /\ s.buffer \in Seq(TextLines) /\ s.resume \in BOOLEAN
           /\ s.medium.lines \in Seq(Lines) /\ s.medium.tail \in {"eol", "noeol", "cut"}
           /\ DOMAIN s.medium.lines = 1..Len(s.medium.lines)
           /\ DOMAIN s.buffer = 1..Len(s.buffer)
<1>1. s \in Sinks
  BY DEF WellFormed
<1>2. /\ s.medium \in Media /\ s.buffer \in Seq(TextLines) /\ s.resume \in BOOLEAN
  BY <1>1 DEF Sinks
<1>3. s.medium.lines \in Seq(Lines) /\ s.medium.tail \in {"eol", "noeol", "cut"}
  BY <1>2 DEF Media
<1> QED BY <1>2, <1>3

(* The lengths of a well-formed sink.                                      *)
LEMMA SinkLengths ==
    ASSUME NEW s, WellFormed(s)
    PROVE  /\ Len(s.medium.lines) \in Nat /\ Len(s.buffer) \in Nat
           /\ s.medium.tail # "eol" => Len(s.medium.lines) > 0
           /\ Half(s) \in Nat /\ Half(s) <= Len(s.buffer)
           /\ s.resume => Half(s) = 1
           /\ ~s.resume => Half(s) = 0
           /\ s.buffer # <<>> => Len(s.buffer) > 0
           /\ TextLen(s) = Len(s.medium.lines) + Len(s.buffer) - Half(s)
           /\ TextLen(s) \in Nat
<1>1. /\ s.medium.lines \in Seq(Lines) /\ s.buffer \in Seq(TextLines)
      /\ s.medium.tail # "eol" => s.medium.lines # <<>>
      /\ s.resume => s.buffer # <<>>
  BY SinkTypes DEF WellFormed
<1>2. Len(s.medium.lines) \in Nat /\ Len(s.buffer) \in Nat
  BY <1>1
<1>3. /\ s.medium.tail # "eol" => Len(s.medium.lines) > 0
      /\ s.buffer # <<>> => Len(s.buffer) > 0
  BY <1>1
<1>4. (s.resume => Half(s) = 1) /\ (~s.resume => Half(s) = 0)
  BY DEF Half
<1>5. Half(s) \in Nat /\ Half(s) <= Len(s.buffer)
  BY <1>1, <1>2, <1>3, <1>4
<1>6. TextLen(s) = Len(s.medium.lines) + Len(s.buffer) - Half(s)
  BY DEF TextLen
<1>7. TextLen(s) \in Nat
  BY <1>2, <1>5, <1>6
<1> QED BY <1>2, <1>3, <1>4, <1>5, <1>6, <1>7

(* Part of the first waiting line reaches the medium.                      *)
LEMMA PartLands ==
    ASSUME NEW s, WellFormed(s), s.buffer # <<>>, NEW t \in {"cut", "noeol"},
           s.resume /\ s.medium.tail = "noeol" => t = "noeol",
           NEW f, f = [medium |-> Land(s.medium, s.buffer[1], s.resume, t),
                       buffer |-> s.buffer, resume |-> TRUE, ok |-> FALSE]
    PROVE  Carries(s, f)
<1>t. /\ s.medium \in Media /\ s.buffer \in Seq(TextLines) /\ s.resume \in BOOLEAN
      /\ s.medium.lines \in Seq(Lines) /\ s.medium.tail \in {"eol", "noeol", "cut"}
  BY SinkTypes
<1>d. DOMAIN s.medium.lines = 1..Len(s.medium.lines) /\ DOMAIN s.buffer = 1..Len(s.buffer)
  BY SinkTypes
<1>n. /\ Len(s.medium.lines) \in Nat /\ Len(s.buffer) \in Nat
      /\ s.medium.tail # "eol" => Len(s.medium.lines) > 0
      /\ Half(s) \in Nat /\ Half(s) <= Len(s.buffer)
      /\ s.resume => Half(s) = 1
      /\ ~s.resume => Half(s) = 0
      /\ TextLen(s) = Len(s.medium.lines) + Len(s.buffer) - Half(s)
      /\ TextLen(s) \in Nat
  BY SinkLengths
<1>w. /\ s.medium.tail # "eol" => s.medium.lines # <<>>
      /\ s.medium.tail = "noeol" => s.resume
      /\ s.resume => s.medium.tail # "eol"
      /\ s.resume /\ ~Garbled(s.medium)
           => s.medium.lines[Len(s.medium.lines)] = s.buffer[1]
  BY DEF WellFormed
<1>b. \A j \in 1..Len(s.buffer) : s.buffer[j] \in TextLines
  BY <1>t
<1> DEFINE m == Land(s.medium, s.buffer[1], s.resume, t)
<1>0. s.buffer[1] \in TextLines /\ Len(s.buffer) > 0 /\ s.buffer[1].kind # "garbage"
  <2>1. Len(s.buffer) > 0
    BY SinkLengths
  <2>2. s.buffer[1] \in TextLines
    BY <1>b, <1>n, <2>1
  <2> QED BY <2>1, <2>2 DEF TextLines
<1>1. /\ f.medium = m /\ f.buffer = s.buffer /\ f.resume = TRUE /\ f.ok = FALSE
  OBVIOUS
<1>2. /\ m \in Media /\ m.tail = t /\ m.lines # <<>>
      /\ \A i \in 1..Len(s.medium.lines) :
            s.medium.tail = "eol" \/ s.resume \/ i < Len(s.medium.lines)
                => m.lines[i] = s.medium.lines[i]
      /\ s.medium.tail = "eol" => /\ Len(m.lines) = Len(s.medium.lines) + 1
                                  /\ m.lines[Len(m.lines)] = s.buffer[1]
      /\ s.medium.tail # "eol" => Len(m.lines) = Len(s.medium.lines)
      /\ s.medium.tail # "eol" /\ ~s.resume => m.lines[Len(m.lines)] = Garbage
  <2>1. t \in {"eol", "noeol", "cut"}
    OBVIOUS
  <2>2. Landed(s.medium, s.buffer[1], s.resume, t, m)
    BY <1>0, <1>t, <1>w, <2>1, LandsOne
  <2> HIDE DEF m
  <2> QED BY <2>2 DEF Landed
<1> HIDE DEF m
<1>3. /\ m.lines \in Seq(Lines) /\ Len(m.lines) \in Nat /\ Len(m.lines) > 0
      /\ DOMAIN m.lines = 1..Len(m.lines)
  BY <1>2 DEF Media
<1>g. Garbage.kind = "garbage"
  BY DEF Garbage, Line
<1>4. Garbled(s.medium) => Garbled(m)
  <2> SUFFICES ASSUME NEW i \in 1..Len(s.medium.lines), s.medium.lines[i].kind = "garbage"
               PROVE  Garbled(m)
    BY <1>d DEF Garbled
  <2>1. i \in 1..Len(m.lines)
    BY <1>2, <1>3, <1>n, <1>t
  <2>2. m.lines[i].kind = "garbage"
    BY <1>2, <1>g, <1>n, <1>t
  <2> QED BY <1>3, <2>1, <2>2 DEF Garbled
<1>5. s.medium.tail # "eol" /\ ~s.resume => Garbled(m)
  BY <1>2, <1>3, <1>g DEF Garbled
<1>6. ~Spoilt(s) => ~Garbled(m)
  <2> SUFFICES ASSUME ~Spoilt(s), NEW i \in 1..Len(m.lines)
               PROVE  m.lines[i].kind # "garbage"
    BY <1>3 DEF Garbled
  <2>1. s.medium.tail = "eol" \/ s.resume
    BY <1>t, <1>w DEF Spoilt
  <2>2. \A k \in 1..Len(s.medium.lines) : s.medium.lines[k].kind # "garbage"
    BY <1>d DEF Spoilt, Garbled
  <2>3. CASE i \in 1..Len(s.medium.lines)
    BY <1>2, <2>1, <2>2, <2>3
  <2>4. CASE i \notin 1..Len(s.medium.lines)
    <3>1. s.medium.tail = "eol" /\ i = Len(m.lines)
      BY <1>2, <1>3, <1>n, <2>4
    <3> QED BY <1>0, <1>2, <3>1
  <2> QED BY <2>3, <2>4
<1>7. ~Garbled(m) => m.lines[Len(m.lines)] = s.buffer[1]
  <2> SUFFICES ASSUME ~Garbled(m) PROVE m.lines[Len(m.lines)] = s.buffer[1]
    OBVIOUS
  <2>1. CASE s.medium.tail = "eol"
    BY <1>2, <2>1
  <2>2. CASE s.medium.tail # "eol"
    <3>1. s.resume /\ ~Garbled(s.medium)
      BY <1>4, <1>5, <1>t, <2>2
    <3>2. Len(m.lines) = Len(s.medium.lines) /\ Len(s.medium.lines) \in 1..Len(s.medium.lines)
      BY <1>2, <1>n, <2>2
    <3>3. m.lines[Len(s.medium.lines)] = s.medium.lines[Len(s.medium.lines)]
      BY <1>2, <3>1, <3>2
    <3> QED BY <1>w, <3>1, <3>2, <3>3
  <2> QED BY <2>1, <2>2
<1>8. WellFormed(f)
  <2>1. f \in Sinks
    BY <1>1, <1>2, <1>t DEF Sinks
  <2> QED BY <1>1, <1>2, <1>7, <2>1 DEF WellFormed
<1>9. Grows(s.medium, f.medium)
  <2>1. Len(s.medium.lines) <= Len(m.lines)
    BY <1>2, <1>n
  <2>2. ASSUME NEW i \in 1..Len(s.medium.lines), Whole(s.medium, i)
        PROVE  m.lines[i] = s.medium.lines[i] /\ Whole(m, i)
    <3>1. s.medium.tail = "eol" \/ s.resume \/ i < Len(s.medium.lines)
      BY <1>t, <1>w, <2>2 DEF Whole
    <3>2. CASE i < Len(m.lines)
      BY <1>2, <3>1, <3>2 DEF Whole
    <3>3. CASE i = Len(m.lines)
      <4>1. s.medium.tail # "eol" /\ s.medium.tail # "cut" /\ s.resume
        BY <1>2, <1>n, <1>t, <1>w, <2>2, <3>3 DEF Whole
      <4> QED BY <1>2, <1>t, <3>1, <4>1 DEF Whole
    <3> QED BY <1>3, <1>n, <2>1, <3>2, <3>3
  <2> QED BY <1>1, <1>d, <2>1, <2>2 DEF Grows
<1>10. Spoilt(s) => StaysSpoilt(s, f)
  <2> SUFFICES ASSUME Spoilt(s) PROVE StaysSpoilt(s, f)
    OBVIOUS
  <2>1. Spoilt(f)
    BY <1>1, <1>4, <1>5 DEF Spoilt
  <2>2. ASSUME NoEventWaits(s), NEW i \in 1..Len(m.lines), m.lines[i].kind = "event"
        PROVE  i \in 1..Len(s.medium.lines) /\ m.lines[i] = s.medium.lines[i]
    <3>1. s.buffer[1].kind # "event"
      BY <1>0, <1>d, <1>n, <2>2 DEF NoEventWaits
    <3> QED BY <1>2, <1>g, <1>n, <1>t, <2>2, <3>1
  <2> QED BY <1>1, <1>3, <1>d, <2>1, <2>2 DEF StaysSpoilt, NoEventWaits
<1>11. ~Spoilt(s) => /\ ~Spoilt(f)
                     /\ TextLen(f) = TextLen(s)
                     /\ \A i \in 1..TextLen(s) : TextAt(f, i) = TextAt(s, i)
  <2> SUFFICES ASSUME ~Spoilt(s)
               PROVE  /\ ~Spoilt(f)
                      /\ TextLen(f) = TextLen(s)
                      /\ \A i \in 1..TextLen(s) : TextAt(f, i) = TextAt(s, i)
    OBVIOUS
  <2>1. ~Spoilt(f)
    BY <1>1, <1>6 DEF Spoilt
  <2>2. s.medium.tail = "eol" <=> ~s.resume
    BY <1>t, <1>w DEF Spoilt
  <2>3. Half(f) = 1 /\ Len(m.lines) = Len(s.medium.lines) + 1 - Half(s)
    <3>1. Half(f) = 1
      BY <1>1 DEF Half
    <3>2. CASE s.resume
      BY <1>2, <1>n, <2>2, <3>1, <3>2
    <3>3. CASE ~s.resume
      BY <1>2, <1>n, <2>2, <3>1, <3>3
    <3> QED BY <3>2, <3>3
  <2>4. TextLen(f) = Len(m.lines) + Len(s.buffer) - 1
    BY <1>1, <2>3 DEF TextLen
  <2>5. ASSUME NEW i \in 1..TextLen(s) PROVE TextAt(f, i) = TextAt(s, i)
    <3>1. CASE i \in 1..Len(s.medium.lines)
      <4>1. i <= Len(m.lines) /\ i <= Len(s.medium.lines)
        BY <1>2, <1>n, <3>1
      <4> QED BY <1>1, <1>2, <2>2, <3>1, <4>1 DEF TextAt
    <3>2. CASE i \notin 1..Len(s.medium.lines) /\ i <= Len(m.lines)
      <4>1. /\ s.medium.tail = "eol" /\ i = Len(s.medium.lines) + 1
            /\ i = Len(m.lines) /\ Half(s) = 0
        BY <1>2, <1>n, <2>2, <3>2
      <4>2. i - Len(s.medium.lines) + Half(s) = 1 /\ ~(i <= Len(s.medium.lines))
        BY <1>n, <4>1
      <4>3. TextAt(s, i) = s.buffer[1]
        BY <4>2 DEF TextAt
      <4>4. TextAt(f, i) = m.lines[i]
        BY <1>1, <3>2 DEF TextAt
      <4> QED BY <1>2, <4>1, <4>3, <4>4
    <3>3. CASE i > Len(m.lines)
      <4>1. /\ ~(i <= Len(s.medium.lines)) /\ ~(i <= Len(m.lines))
            /\ i - Len(m.lines) + Half(f) = i - Len(s.medium.lines) + Half(s)
        BY <1>3, <1>n, <2>3, <3>3
      <4> QED BY <1>1, <4>1 DEF TextAt
    <3> QED BY <1>3, <1>n, <3>1, <3>2, <3>3
  <2>6. TextLen(f) = TextLen(s)
    BY <1>n, <1>3, <2>3, <2>4
  <2> QED BY <2>1, <2>5, <2>6
<1> QED BY <1>8, <1>9, <1>10, <1>11 DEF Carries

(* The first k waiting lines reach the medium.                             *)
LEMMA LinesLand ==
    ASSUME NEW s, WellFormed(s), NEW k \in 0..Len(s.buffer), NEW ok \in BOOLEAN
    PROVE  Carries(s, [medium |-> LandAll(s, k),
                       buffer |-> SubSeq(s.buffer, k + 1, Len(s.buffer)),
                       resume |-> k = 0 /\ s.resume, ok |-> ok])
<1> DEFINE f == [medium |-> LandAll(s, k),
                 buffer |-> SubSeq(s.buffer, k + 1, Len(s.buffer)),
                 resume |-> k = 0 /\ s.resume, ok |-> ok]
<1> SUFFICES Carries(s, f)
  OBVIOUS
<1>f. /\ f.medium = LandAll(s, k) /\ f.ok = ok
      /\ f.buffer = SubSeq(s.buffer, k + 1, Len(s.buffer))
      /\ f.resume = (k = 0 /\ s.resume)
      /\ f = [medium |-> f.medium, buffer |-> f.buffer, resume |-> f.resume, ok |-> f.ok]
  OBVIOUS
<1> HIDE DEF f
<1>t. /\ s.medium \in Media /\ s.buffer \in Seq(TextLines) /\ s.resume \in BOOLEAN
      /\ s.medium.lines \in Seq(Lines) /\ s.medium.tail \in {"eol", "noeol", "cut"}
  BY SinkTypes
<1>d. DOMAIN s.medium.lines = 1..Len(s.medium.lines) /\ DOMAIN s.buffer = 1..Len(s.buffer)
  BY SinkTypes
<1>n. /\ Len(s.medium.lines) \in Nat /\ Len(s.buffer) \in Nat
      /\ s.medium.tail # "eol" => Len(s.medium.lines) > 0
      /\ Half(s) \in Nat /\ Half(s) <= Len(s.buffer)
      /\ s.resume => Half(s) = 1
      /\ ~s.resume => Half(s) = 0
      /\ TextLen(s) = Len(s.medium.lines) + Len(s.buffer) - Half(s)
      /\ TextLen(s) \in Nat
  BY SinkLengths
<1>w. /\ s.medium.tail # "eol" => s.medium.lines # <<>>
      /\ s.medium.tail = "noeol" => s.resume
      /\ s.resume => s.medium.tail # "eol"
      /\ s.resume /\ ~Garbled(s.medium)
           => s.medium.lines[Len(s.medium.lines)] = s.buffer[1]
  BY DEF WellFormed
<1>b. \A j \in 1..Len(s.buffer) : s.buffer[j] \in TextLines
  BY <1>t
<1>g. Garbage.kind = "garbage"
  BY DEF Garbage, Line
<1>1. CASE k = 0
  <2>1. SubSeq(s.buffer, 1, Len(s.buffer)) = s.buffer
    BY <1>t, SubSeqFull
  <2>2. LandAll(s, k) = s.medium
    BY <1>1 DEF LandAll
  <2>3. /\ f.medium = s.medium /\ f.buffer = s.buffer /\ f.ok = ok
        /\ f.resume = s.resume
    BY <1>1, <1>f, <1>t, <2>1, <2>2
  <2>4. f \in Sinks
    BY <1>f, <1>t, <2>3 DEF Sinks
  <2>5. WellFormed(f)
    BY <2>3, <2>4 DEF WellFormed
  <2>6. Grows(s.medium, f.medium)
    BY <1>n, <2>3 DEF Grows
  <2>7. Spoilt(s) => StaysSpoilt(s, f)
    BY <2>3 DEF Spoilt, StaysSpoilt, NoEventWaits
  <2>8. TextLen(f) = TextLen(s)
    BY <2>3 DEF TextLen, Half
  <2>9. \A i \in 1..TextLen(s) : TextAt(f, i) = TextAt(s, i)
    BY <2>3 DEF TextAt, Half
  <2>10. ~Spoilt(s) => ~Spoilt(f)
    BY <2>3 DEF Spoilt
  <2> QED BY <2>5, <2>6, <2>7, <2>8, <2>9, <2>10 DEF Carries
<1>2. CASE k > 0
  <2> DEFINE first == Land(s.medium, s.buffer[1], s.resume, "eol")
             rest == SubSeq(s.buffer, 2, k)
             left == SubSeq(s.buffer, k + 1, Len(s.buffer))
             m == LandAll(s, k)
  <2>0. s.buffer[1] \in TextLines /\ Len(s.buffer) > 0 /\ k \in Nat /\ k <= Len(s.buffer)
    BY <1>2, <1>b, <1>n
  <2>1. /\ first \in Media /\ first.tail = "eol"
        /\ \A i \in 1..Len(s.medium.lines) :
              s.medium.tail = "eol" \/ s.resume \/ i < Len(s.medium.lines)
                  => first.lines[i] = s.medium.lines[i]
        /\ s.medium.tail = "eol" => /\ Len(first.lines) = Len(s.medium.lines) + 1
                                    /\ first.lines[Len(first.lines)] = s.buffer[1]
        /\ s.medium.tail # "eol" => Len(first.lines) = Len(s.medium.lines)
        /\ s.medium.tail # "eol" /\ ~s.resume => first.lines[Len(first.lines)] = Garbage
    <3>1. Landed(s.medium, s.buffer[1], s.resume, "eol", first)
      BY <1>t, <1>w, <2>0, LandsOne
    <3> HIDE DEF first
    <3> QED BY <3>1 DEF Landed
  <2>2. /\ rest \in Seq(TextLines) /\ Len(rest) = k - 1
        /\ \A j \in 1..(k - 1) : rest[j] = s.buffer[j + 1]
    <3>1. \A j \in 2..k : s.buffer[j] \in TextLines
      BY <1>b, <1>n, <2>0
    <3>2. /\ rest \in Seq(TextLines)
          /\ Len(rest) = IF 2 <= k THEN k - 2 + 1 ELSE 0
          /\ \A j \in 1..(k - 2 + 1) : rest[j] = s.buffer[2 + j - 1]
      BY <2>0, <3>1, SubSeqProperties
    <3>3. /\ k - 2 + 1 = k - 1 /\ (~(2 <= k) => k - 1 = 0)
          /\ \A j \in 1..(k - 1) : 2 + j - 1 = j + 1
      BY <1>2, <2>0
    <3> QED BY <3>2, <3>3
  <2>3. /\ left \in Seq(TextLines) /\ Len(left) = Len(s.buffer) - k
        /\ \A j \in 1..(Len(s.buffer) - k) : left[j] = s.buffer[j + k]
    <3>1. /\ k + 1 \in 1..(Len(s.buffer) + 1) /\ Len(s.buffer) \in k..Len(s.buffer)
          /\ Len(s.buffer) - (k + 1) + 1 = Len(s.buffer) - k
      BY <1>n, <2>0
    <3>2. /\ left \in Seq(TextLines) /\ Len(left) = Len(s.buffer) - (k + 1) + 1
          /\ \A j \in 1..(Len(s.buffer) - (k + 1) + 1) : left[j] = s.buffer[(k + 1) + j - 1]
      BY <1>t, <3>1, SubSeqProperties
    <3>3. \A j \in 1..(Len(s.buffer) - k) : (k + 1) + j - 1 = j + k
      BY <1>n, <2>0
    <3> QED BY <3>1, <3>2, <3>3
  <2>4. m = [lines |-> first.lines \o rest, tail |-> "eol"]
    BY <1>2 DEF LandAll
  <2>7. f.medium = m /\ f.buffer = left /\ f.resume = FALSE /\ f.ok = ok
    <3>1. (k = 0 /\ s.resume) = FALSE
      BY <1>2, <2>0
    <3> QED BY <1>f, <3>1
  <2> HIDE DEF first, rest, left, m
  <2>5. /\ first.lines \in Seq(Lines) /\ Len(first.lines) \in Nat /\ rest \in Seq(Lines)
        /\ Len(first.lines) >= Len(s.medium.lines)
    BY <1>n, <2>1, <2>2 DEF Media, TextLines
  <2>6. /\ m \in Media /\ m.tail = "eol" /\ m.lines \in Seq(Lines)
        /\ Len(m.lines) = Len(first.lines) + (k - 1)
        /\ Len(m.lines) \in Nat
        /\ DOMAIN m.lines = 1..Len(m.lines)
        /\ \A i \in 1..Len(first.lines) : m.lines[i] = first.lines[i]
        /\ \A j \in 1..(k - 1) : m.lines[Len(first.lines) + j] = s.buffer[j + 1]
    <3>1. /\ first.lines \o rest \in Seq(Lines)
          /\ Len(first.lines \o rest) = Len(first.lines) + Len(rest)
      BY <2>5
    <3>2. \A i \in 1..Len(first.lines) : (first.lines \o rest)[i] = first.lines[i]
      BY <2>5
    <3>3. \A j \in 1..Len(rest) : (first.lines \o rest)[Len(first.lines) + j] = rest[j]
      BY <2>5
    <3>4. m.lines = first.lines \o rest /\ m.tail = "eol" /\ m \in Media
      BY <2>4, <3>1 DEF Media
    <3>5. Len(m.lines) = Len(first.lines) + (k - 1) /\ Len(m.lines) \in Nat
      BY <2>0, <1>2, <2>2, <2>5, <3>1, <3>4
    <3>6. \A j \in 1..(k - 1) : m.lines[Len(first.lines) + j] = s.buffer[j + 1]
      BY <2>2, <3>3, <3>4
    <3> QED BY <3>1, <3>2, <3>4, <3>5, <3>6
  <2>a. /\ Len(s.medium.lines) \in Nat /\ Len(s.buffer) \in Nat /\ Half(s) \in Nat
        /\ k \in Nat /\ k > 0 /\ k <= Len(s.buffer)
        /\ Len(first.lines) \in Nat /\ Len(m.lines) \in Nat
        /\ Len(first.lines) >= Len(s.medium.lines)
        /\ Len(m.lines) = Len(first.lines) + (k - 1)
        /\ TextLen(s) = Len(s.medium.lines) + Len(s.buffer) - Half(s)
    BY <1>2, <1>n, <2>0, <2>5, <2>6
  <2>c. PICK a \in Nat, b \in Nat, h \in Nat, p \in Nat :
           /\ a = Len(s.medium.lines) /\ b = Len(s.buffer) /\ h = Half(s)
           /\ p = Len(first.lines)
    BY <2>a
  <2>e. k \in Nat /\ k > 0 /\ k <= b /\ p >= a
    BY <2>a, <2>c
  <2>8. Len(s.medium.lines) <= Len(m.lines)
    BY <1>2, <1>n, <2>0, <2>5, <2>6
  <2>9. \A i \in 1..Len(s.medium.lines) :
            s.medium.tail = "eol" \/ s.resume \/ i < Len(s.medium.lines)
                => m.lines[i] = s.medium.lines[i]
    <3> TAKE i \in 1..Len(s.medium.lines)
    <3>1. i \in 1..Len(first.lines)
      BY <1>n, <2>5
    <3> QED BY <2>1, <2>6, <3>1
  <2>10. s.medium.tail # "eol" /\ ~s.resume
           => Garbled(m) /\ m.lines[Len(s.medium.lines)] = Garbage
    <3> SUFFICES ASSUME s.medium.tail # "eol", ~s.resume
                 PROVE  Garbled(m) /\ m.lines[Len(s.medium.lines)] = Garbage
      OBVIOUS
    <3>1. /\ Len(first.lines) = Len(s.medium.lines)
          /\ Len(s.medium.lines) \in 1..Len(first.lines)
      BY <1>n, <2>1
    <3>2. m.lines[Len(s.medium.lines)] = Garbage
      BY <2>1, <2>6, <3>1
    <3>3. Len(s.medium.lines) \in DOMAIN m.lines
      BY <1>n, <2>6, <2>8, <3>1
    <3> QED BY <1>g, <3>2, <3>3 DEF Garbled
  <2>11. Garbled(s.medium) => Garbled(m)
    <3> SUFFICES ASSUME NEW i \in 1..Len(s.medium.lines), s.medium.lines[i].kind = "garbage"
                 PROVE  Garbled(m)
      BY <1>d DEF Garbled
    <3>1. i \in DOMAIN m.lines
      BY <1>n, <2>6, <2>8
    <3>2. CASE m.lines[i] = s.medium.lines[i]
      BY <3>1, <3>2 DEF Garbled
    <3>3. CASE m.lines[i] # s.medium.lines[i]
      BY <1>n, <2>9, <2>10, <3>3
    <3> QED BY <3>2, <3>3
  <2>12. WellFormed(f)
    <3>1. f \in Sinks
      BY <1>f, <2>3, <2>6, <2>7 DEF Sinks
    <3> QED BY <2>6, <2>7, <3>1 DEF WellFormed
  <2>13. Grows(s.medium, f.medium)
    <3>1. ASSUME NEW i \in 1..Len(s.medium.lines), Whole(s.medium, i)
          PROVE  m.lines[i] = s.medium.lines[i] /\ Whole(m, i)
      <4>1. s.medium.tail = "eol" \/ s.resume \/ i < Len(s.medium.lines)
        BY <1>t, <1>w, <3>1 DEF Whole
      <4> QED BY <2>6, <2>9, <4>1 DEF Whole
    <3> QED BY <1>d, <2>7, <2>8, <3>1 DEF Grows
  <2>14. Spoilt(s) => StaysSpoilt(s, f)
    <3> SUFFICES ASSUME Spoilt(s) PROVE StaysSpoilt(s, f)
      OBVIOUS
    <3>1. Spoilt(f)
      BY <2>7, <2>10, <2>11 DEF Spoilt
    <3>2. ASSUME NoEventWaits(s), NEW i \in 1..Len(m.lines), m.lines[i].kind = "event"
          PROVE  i \in 1..Len(s.medium.lines) /\ m.lines[i] = s.medium.lines[i]
      <4>0. \A j \in 1..Len(s.buffer) : s.buffer[j].kind # "event"
        BY <1>d, <3>2 DEF NoEventWaits
      <4>1. CASE i \in 1..Len(s.medium.lines)
        <5>1. m.lines[i] # Garbage
          BY <1>g, <3>2
        <5> QED BY <1>n, <2>9, <2>10, <4>1, <5>1
      <4>2. CASE i \in 1..Len(first.lines) /\ i \notin 1..Len(s.medium.lines)
        <5>1. s.medium.tail = "eol" /\ i = Len(first.lines)
          BY <1>n, <2>1, <2>5, <4>2
        <5>2. m.lines[i] = s.buffer[1]
          BY <2>1, <2>6, <4>2, <5>1
        <5>3. 1 \in 1..Len(s.buffer)
          BY <1>n, <2>0
        <5> QED BY <3>2, <4>0, <5>2, <5>3
      <4>3. CASE i \notin 1..Len(first.lines)
        <5> DEFINE j == i - Len(first.lines)
        <5>1. j \in 1..(k - 1) /\ i = Len(first.lines) + j
          BY <2>0, <2>5, <2>6, <4>3
        <5> HIDE DEF j
        <5>2. m.lines[i] = s.buffer[j + 1]
          BY <2>6, <5>1
        <5>3. j + 1 \in 1..Len(s.buffer)
          BY <1>n, <2>0, <5>1
        <5> QED BY <3>2, <4>0, <5>2, <5>3
      <4> QED BY <4>1, <4>2, <4>3
    <3>3. NoEventWaits(s) => NoEventWaits(f)
      <4> SUFFICES ASSUME NoEventWaits(s), NEW j \in 1..Len(left)
                   PROVE  left[j].kind # "event"
        BY <2>3, <2>7 DEF NoEventWaits
      <4>1. j \in 1..(Len(s.buffer) - k) /\ j + k \in 1..Len(s.buffer)
        <5>1. Len(left) = Len(s.buffer) - k
          BY <2>3
        <5> QED BY <2>a, <5>1
      <4> QED BY <1>d, <2>3, <4>1 DEF NoEventWaits
    <3> QED BY <1>d, <2>6, <2>7, <3>1, <3>2, <3>3 DEF StaysSpoilt
  <2>15. ~Spoilt(s) => /\ ~Spoilt(f)
                       /\ TextLen(f) = TextLen(s)
                       /\ \A i \in 1..TextLen(s) : TextAt(f, i) = TextAt(s, i)
    <3> SUFFICES ASSUME ~Spoilt(s)
                 PROVE  /\ ~Spoilt(f)
                        /\ TextLen(f) = TextLen(s)
                        /\ \A i \in 1..TextLen(s) : TextAt(f, i) = TextAt(s, i)
      OBVIOUS
    <3>1. (s.medium.tail = "eol" <=> ~s.resume) /\ ~Garbled(s.medium)
      BY <1>t, <1>w DEF Spoilt
    <3>2. Len(first.lines) = Len(s.medium.lines) + 1 - Half(s)
      <4>1. CASE s.resume
        BY <1>n, <2>1, <3>1, <4>1
      <4>2. CASE ~s.resume
        BY <1>n, <2>1, <3>1, <4>2
      <4> QED BY <4>1, <4>2
    <3>3. first.lines[Len(first.lines)] = s.buffer[1]
      <4>1. CASE ~s.resume
        BY <2>1, <3>1, <4>1
      <4>2. CASE s.resume
        <5>1. /\ Len(first.lines) = Len(s.medium.lines)
              /\ Len(s.medium.lines) \in 1..Len(s.medium.lines)
          BY <1>n, <2>1, <3>1, <4>2
        <5> QED BY <1>w, <2>1, <3>1, <4>2, <5>1
      <4> QED BY <4>1, <4>2
    <3>h. Half(f) = 0
      BY <2>7 DEF Half
    <3>4. TextLen(f) = TextLen(s)
      <4>1. TextLen(f) = Len(m.lines) + Len(left) - 0
        BY <2>7, <3>h DEF TextLen
      <4>2. Len(left) = Len(s.buffer) - k
        BY <2>3
      <4>3. TextLen(f) = p + (k - 1) + (b - k) - 0
        BY <2>a, <2>c, <4>1, <4>2
      <4>4. TextLen(s) = a + b - h /\ p = a + 1 - h
        BY <2>a, <2>c, <3>2
      <4>5. p + (k - 1) + (b - k) - 0 = a + b - h
        BY <2>e, <4>4
      <4> QED BY <4>3, <4>4, <4>5
    <3>5. ASSUME NEW i \in 1..TextLen(s) PROVE TextAt(f, i) = TextAt(s, i)
      <4>0. i \in Nat /\ i > 0
        BY <1>n
      <4>1. CASE i <= Len(s.medium.lines)
        <5>1. i \in 1..Len(s.medium.lines) /\ i <= Len(m.lines)
          BY <1>n, <2>6, <2>8, <4>0, <4>1
        <5>2. m.lines[i] = s.medium.lines[i]
          BY <2>9, <3>1, <5>1
        <5> QED BY <2>7, <4>1, <5>1, <5>2 DEF TextAt
      <4>2. CASE i = Len(first.lines) /\ ~(i <= Len(s.medium.lines))
        <5>1. i <= Len(m.lines) /\ i \in 1..Len(first.lines)
          BY <2>0, <1>2, <2>5, <2>6, <4>0, <4>2
        <5>2. i - Len(s.medium.lines) + Half(s) = 1
          BY <1>n, <3>2, <4>2
        <5>3. TextAt(f, i) = m.lines[i]
          BY <2>7, <5>1 DEF TextAt
        <5>4. TextAt(s, i) = s.buffer[1]
          BY <4>2, <5>2 DEF TextAt
        <5> QED BY <2>6, <3>3, <4>2, <5>1, <5>3, <5>4
      <4>3. CASE i > Len(first.lines) /\ i <= Len(m.lines)
        <5> DEFINE j == i - Len(first.lines)
        <5>1. /\ j \in 1..(k - 1) /\ i = Len(first.lines) + j
              /\ i - Len(s.medium.lines) + Half(s) = j + 1
              /\ ~(i <= Len(s.medium.lines))
          <6>1. i > p /\ i <= p + (k - 1) /\ p = a + 1 - h
            BY <2>a, <2>c, <3>2, <4>3
          <6>2. i - p \in 1..(k - 1) /\ i = p + (i - p) /\ i - a + h = (i - p) + 1 /\ ~(i <= a)
            BY <2>e, <4>0, <6>1
          <6> QED BY <2>c, <6>2
        <5> HIDE DEF j
        <5>2. TextAt(f, i) = m.lines[i]
          BY <2>7, <4>3 DEF TextAt
        <5>3. m.lines[i] = s.buffer[j + 1]
          BY <2>6, <5>1
        <5>4. TextAt(s, i) = s.buffer[j + 1]
          BY <5>1 DEF TextAt
        <5> QED BY <5>2, <5>3, <5>4
      <4>4. CASE ~(i <= Len(m.lines))
        <5> DEFINE j == i - Len(m.lines)
        <5>1. /\ j \in 1..(Len(s.buffer) - k)
              /\ i - Len(m.lines) + Half(f) = j
              /\ i - Len(s.medium.lines) + Half(s) = j + k
              /\ ~(i <= Len(s.medium.lines))
          <6>1. i <= TextLen(s)
            BY <1>n
          <6>2. i <= a + b - h /\ ~(i <= p + (k - 1)) /\ p = a + 1 - h
            BY <2>a, <2>c, <3>2, <4>4, <6>1
          <6>3. /\ i - (p + (k - 1)) \in 1..(b - k)
                /\ i - (p + (k - 1)) + 0 = i - (p + (k - 1))
                /\ i - a + h = i - (p + (k - 1)) + k /\ ~(i <= a)
            BY <2>e, <4>0, <6>2
          <6> QED BY <2>a, <2>c, <3>h, <6>3
        <5> HIDE DEF j
        <5>2. TextAt(f, i) = left[j]
          BY <2>7, <4>4, <5>1 DEF TextAt
        <5>3. TextAt(s, i) = s.buffer[j + k]
          BY <5>1 DEF TextAt
        <5> QED BY <2>3, <5>1, <5>2, <5>3
      <4>5. \/ i <= Len(s.medium.lines)
            \/ i = Len(first.lines) /\ ~(i <= Len(s.medium.lines))
            \/ i > Len(first.lines) /\ i <= Len(m.lines)
            \/ ~(i <= Len(m.lines))
        BY <1>n, <2>5, <2>6, <3>2, <4>0
      <4> QED BY <4>1, <4>2, <4>3, <4>4, <4>5
    <3>6. ~Garbled(m)
      <4> SUFFICES ASSUME NEW i \in 1..Len(m.lines) PROVE m.lines[i].kind # "garbage"
        BY <2>6 DEF Garbled
      <4>0. i \in Nat /\ i > 0
        BY <2>6
      <4>1. CASE i \in 1..Len(s.medium.lines)
        <5>1. m.lines[i] = s.medium.lines[i]
          BY <2>9, <3>1, <4>1
        <5> QED BY <1>d, <3>1, <4>1, <5>1 DEF Garbled
      <4>2. CASE i = Len(first.lines)
        <5>1. m.lines[i] = s.buffer[1]
          <6>1. i \in 1..Len(first.lines)
            BY <2>a, <4>0, <4>2
          <6> QED BY <2>6, <3>3, <4>2, <6>1
        <5> QED BY <2>0, <5>1 DEF TextLines
      <4>3. CASE i > Len(first.lines)
        <5> DEFINE j == i - Len(first.lines)
        <5>1. j \in 1..(k - 1) /\ i = Len(first.lines) + j /\ j + 1 \in 1..Len(s.buffer)
          <6>1. i > p /\ i <= p + (k - 1)
            BY <2>6, <2>a, <2>c, <4>3
          <6>2. i - p \in 1..(k - 1) /\ i = p + (i - p) /\ (i - p) + 1 \in 1..b
            BY <2>e, <4>0, <6>1
          <6> QED BY <2>c, <6>2
        <5> HIDE DEF j
        <5>2. m.lines[i] = s.buffer[j + 1] /\ s.buffer[j + 1] \in TextLines
          BY <1>b, <2>6, <5>1
        <5> QED BY <5>2 DEF TextLines
      <4> QED BY <1>n, <2>5, <3>2, <4>0, <4>1, <4>2, <4>3
    <3>7. ~Spoilt(f)
      BY <2>6, <2>7, <3>6 DEF Spoilt
    <3> QED BY <3>4, <3>5, <3>7
  <2> QED BY <2>12, <2>13, <2>14, <2>15 DEF Carries
<1> QED BY <1>1, <1>2, <1>n

(* A sink is what its medium and its buffer are: whether the call that led *)
(* to it failed makes no difference.                                       *)
SameSink(f, g) == f.medium = g.medium /\ f.buffer = g.buffer /\ f.resume = g.resume

\* The outcome a call returns is not part of the sink it leaves.
LEMMA OutcomeAside ==
    ASSUME NEW s, NEW l, NEW f, NEW g \in Sinks, SameSink(f, g)
    PROVE  /\ Carries(s, f) => Carries(s, g)
           /\ Adds(s, f, l) => Adds(s, g, l)
           /\ Breaks(s, f, l) => Breaks(s, g, l)
<1>1. f.medium = g.medium /\ f.buffer = g.buffer /\ f.resume = g.resume
  BY DEF SameSink
<1>2. WellFormed(f) => WellFormed(g)
  BY <1>1 DEF WellFormed
<1>3. Spoilt(f) = Spoilt(g)
  BY <1>1 DEF Spoilt
<1>4. StaysSpoilt(s, f) => StaysSpoilt(s, g)
  BY <1>1, <1>3 DEF StaysSpoilt, NoEventWaits
<1>5. TextLen(f) = TextLen(g)
  BY <1>1 DEF TextLen, Half
<1>6. \A i : TextAt(f, i) = TextAt(g, i)
  BY <1>1 DEF TextAt, Half
<1>7. Carries(s, f) => Carries(s, g)
  BY <1>1, <1>2, <1>3, <1>4, <1>5, <1>6 DEF Carries
<1>8. Adds(s, f, l) => Adds(s, g, l)
  BY <1>1, <1>2, <1>3, <1>4, <1>5, <1>6 DEF Adds
<1>9. Breaks(s, f, l) => Breaks(s, g, l)
  BY <1>1, <1>2, <1>3 DEF Breaks
<1> QED BY <1>7, <1>8, <1>9

(* One call after another: what the first carried or added stays.          *)
LEMMA GrowsTwice ==
    ASSUME NEW s, NEW f, NEW g, WellFormed(s), WellFormed(f), WellFormed(g),
           Grows(s.medium, f.medium), Grows(f.medium, g.medium)
    PROVE  Grows(s.medium, g.medium)
<1>1. /\ DOMAIN s.medium.lines = 1..Len(s.medium.lines)
      /\ DOMAIN f.medium.lines = 1..Len(f.medium.lines)
  BY SinkTypes
<1>2. PICK a \in Nat, b \in Nat, c \in Nat :
         a = Len(s.medium.lines) /\ b = Len(f.medium.lines) /\ c = Len(g.medium.lines)
  BY SinkLengths
<1>3. a <= b /\ b <= c
  BY <1>2 DEF Grows
<1>4. ASSUME NEW i \in 1..a, Whole(s.medium, i)
      PROVE  g.medium.lines[i] = s.medium.lines[i] /\ Whole(g.medium, i)
  <2>1. i \in 1..b
    BY <1>3
  <2>2. f.medium.lines[i] = s.medium.lines[i] /\ Whole(f.medium, i)
    BY <1>1, <1>2, <1>4 DEF Grows
  <2>3. g.medium.lines[i] = f.medium.lines[i] /\ Whole(g.medium, i)
    BY <1>1, <1>2, <2>1, <2>2 DEF Grows
  <2> QED BY <2>2, <2>3
<1>5. a <= c
  BY <1>3
<1> QED BY <1>1, <1>2, <1>4, <1>5 DEF Grows

\* Two calls on a spoilt text let no event through either.
LEMMA SpoiltTwice ==
    ASSUME NEW s, NEW f, NEW g, StaysSpoilt(s, f), StaysSpoilt(f, g)
    PROVE  StaysSpoilt(s, g)
BY DEF StaysSpoilt

\* Two calls that only move lines are one that does.
LEMMA CarriesTwice ==
    ASSUME NEW s, NEW f, NEW g, WellFormed(s), Carries(s, f), Carries(f, g)
    PROVE  Carries(s, g)
<1>1. WellFormed(f) /\ WellFormed(g) /\ Grows(s.medium, g.medium)
  BY GrowsTwice DEF Carries
<1>2. Spoilt(s) => StaysSpoilt(s, g)
  BY SpoiltTwice DEF Carries, StaysSpoilt
<1>3. ~Spoilt(s) => /\ ~Spoilt(g)
                    /\ TextLen(g) = TextLen(s)
                    /\ \A i \in 1..TextLen(s) : TextAt(g, i) = TextAt(s, i)
  BY DEF Carries
<1> QED BY <1>1, <1>2, <1>3 DEF Carries

\* Moving lines before a line is added changes nothing of what it adds.
LEMMA CarriesThenAdds ==
    ASSUME NEW s, NEW f, NEW g, NEW l, WellFormed(s), Carries(s, f), Adds(f, g, l)
    PROVE  Adds(s, g, l)
<1>1. WellFormed(f) /\ WellFormed(g) /\ Grows(s.medium, g.medium)
  BY GrowsTwice DEF Carries, Adds
<1>2. Spoilt(s) /\ l.kind # "event" => StaysSpoilt(s, g)
  BY SpoiltTwice DEF Carries, Adds, StaysSpoilt
<1>3. ~Spoilt(s) => /\ ~Spoilt(g)
                    /\ TextLen(g) = TextLen(s) + 1
                    /\ \A i \in 1..TextLen(s) : TextAt(g, i) = TextAt(s, i)
                    /\ TextAt(g, TextLen(g)) = l
  BY DEF Carries, Adds
<1> QED BY <1>1, <1>2, <1>3 DEF Adds

\* Nor does moving lines after it.
LEMMA AddsThenCarries ==
    ASSUME NEW s, NEW f, NEW g, NEW l, WellFormed(s), Adds(s, f, l), Carries(f, g)
    PROVE  Adds(s, g, l)
<1>1. WellFormed(f) /\ WellFormed(g) /\ Grows(s.medium, g.medium)
  BY GrowsTwice DEF Carries, Adds
<1>2. Spoilt(s) /\ l.kind # "event" => StaysSpoilt(s, g)
  BY SpoiltTwice DEF Carries, Adds, StaysSpoilt
<1>3. TextLen(s) \in Nat
  BY SinkLengths
<1>4. ASSUME ~Spoilt(s)
      PROVE  /\ ~Spoilt(g)
             /\ TextLen(g) = TextLen(s) + 1
             /\ \A i \in 1..TextLen(s) : TextAt(g, i) = TextAt(s, i)
             /\ TextAt(g, TextLen(g)) = l
  <2>1. /\ ~Spoilt(f) /\ TextLen(f) = TextLen(s) + 1
        /\ \A i \in 1..TextLen(s) : TextAt(f, i) = TextAt(s, i)
        /\ TextAt(f, TextLen(f)) = l
    BY <1>4 DEF Adds
  <2>2. /\ ~Spoilt(g) /\ TextLen(g) = TextLen(f)
        /\ \A i \in 1..TextLen(f) : TextAt(g, i) = TextAt(f, i)
    BY <2>1 DEF Carries
  <2>3. \A i \in 1..TextLen(s) : i \in 1..TextLen(f)
    BY <1>3, <2>1
  <2>4. TextLen(f) \in 1..TextLen(f)
    BY <1>3, <2>1
  <2> QED BY <2>1, <2>2, <2>3, <2>4
<1> QED BY <1>1, <1>2, <1>4 DEF Adds

(* A flush moves lines, whole or in part, from the buffer to the medium.   *)
LEMMA FlushesCarry ==
    ASSUME NEW s, WellFormed(s)
    PROVE  /\ Carries(s, FlushOk(s)) /\ FlushOk(s).ok = TRUE
           /\ FlushOk(s).buffer = <<>> /\ FlushOk(s).resume = FALSE
           /\ \A f \in FlushFails(s) : Carries(s, f) /\ f.ok = FALSE
<1>1. s.buffer \in Seq(TextLines) /\ s.resume \in BOOLEAN
  BY SinkTypes
<1>2. /\ Len(s.buffer) \in Nat
      /\ s.resume => Half(s) = 1
      /\ Half(s) \in Nat /\ Half(s) <= Len(s.buffer)
  BY SinkLengths
<1>3. /\ Carries(s, FlushOk(s)) /\ FlushOk(s).ok = TRUE
      /\ FlushOk(s).buffer = <<>> /\ FlushOk(s).resume = FALSE
  <2> DEFINE k == Len(s.buffer)
             f == [medium |-> LandAll(s, k),
                   buffer |-> SubSeq(s.buffer, k + 1, Len(s.buffer)),
                   resume |-> k = 0 /\ s.resume, ok |-> TRUE]
  <2>0. k \in 0..Len(s.buffer)
    BY <1>2
  <2>1. Carries(s, f)
    BY <2>0, LinesLand
  <2>2. SubSeq(s.buffer, k + 1, Len(s.buffer)) = <<>>
    BY <1>1, <1>2, SubSeqEmpty
  <2>3. (k = 0 /\ s.resume) = FALSE
    BY <1>2
  <2>4. f = FlushOk(s)
    BY <2>2, <2>3 DEF FlushOk
  <2>5. /\ FlushOk(s).ok = TRUE /\ FlushOk(s).buffer = <<>>
        /\ FlushOk(s).resume = FALSE
    BY DEF FlushOk
  <2> HIDE DEF f
  <2> QED BY <2>1, <2>4, <2>5
<1>4. ASSUME NEW f \in FlushFails(s) PROVE Carries(s, f) /\ f.ok = FALSE
  <2>1. PICK k \in 0..(Len(s.buffer) - 1) :
           LET med == LandAll(s, k)
               cont == k = 0 /\ s.resume
           IN  \/ f = [medium |-> med, buffer |-> SubSeq(s.buffer, k + 1, Len(s.buffer)),
                       resume |-> cont, ok |-> FALSE]
               \/ \E t \in IF cont /\ med.tail = "noeol" THEN {"noeol"} ELSE {"cut", "noeol"} :
                     f = [medium |-> Land(med, s.buffer[k + 1], cont, t),
                          buffer |-> SubSeq(s.buffer, k + 1, Len(s.buffer)),
                          resume |-> TRUE, ok |-> FALSE]
    BY DEF FlushFails
  <2> DEFINE w == [medium |-> LandAll(s, k),
                   buffer |-> SubSeq(s.buffer, k + 1, Len(s.buffer)),
                   resume |-> k = 0 /\ s.resume, ok |-> FALSE]
  <2>2. k \in 0..Len(s.buffer) /\ k \in Nat /\ k < Len(s.buffer)
    BY <1>2
  <2>3. Carries(s, w)
    BY <2>2, LinesLand
  <2>4. CASE f = w
    BY <2>3, <2>4
  <2>5. CASE \E t \in IF (k = 0 /\ s.resume) /\ LandAll(s, k).tail = "noeol"
                      THEN {"noeol"} ELSE {"cut", "noeol"} :
               f = [medium |-> Land(LandAll(s, k), s.buffer[k + 1], k = 0 /\ s.resume, t),
                    buffer |-> SubSeq(s.buffer, k + 1, Len(s.buffer)),
                    resume |-> TRUE, ok |-> FALSE]
    <3>1. PICK t \in IF (k = 0 /\ s.resume) /\ LandAll(s, k).tail = "noeol"
                     THEN {"noeol"} ELSE {"cut", "noeol"} :
               f = [medium |-> Land(LandAll(s, k), s.buffer[k + 1], k = 0 /\ s.resume, t),
                    buffer |-> SubSeq(s.buffer, k + 1, Len(s.buffer)),
                    resume |-> TRUE, ok |-> FALSE]
      BY <2>5
    <3>2. t \in {"cut", "noeol"} /\ (w.resume /\ w.medium.tail = "noeol" => t = "noeol")
      OBVIOUS
    <3>3. w.buffer # <<>> /\ w.buffer[1] = s.buffer[k + 1]
      <4>1. \A j \in (k + 1)..Len(s.buffer) : s.buffer[j] \in TextLines
        BY <1>1, <2>2
      <4>2. /\ Len(w.buffer) = Len(s.buffer) - (k + 1) + 1
            /\ \A j \in 1..(Len(s.buffer) - (k + 1) + 1) : w.buffer[j] = s.buffer[k + 1 + j - 1]
        <5>1. k + 1 \in Int /\ Len(s.buffer) \in Int /\ k + 1 <= Len(s.buffer)
          BY <1>2, <2>2
        <5> QED BY <4>1, <5>1, SubSeqProperties
      <4>3. /\ Len(s.buffer) - (k + 1) + 1 > 0 /\ k + 1 + 1 - 1 = k + 1
            /\ 1 \in 1..(Len(s.buffer) - (k + 1) + 1)
        BY <1>2, <2>2
      <4>4. Len(<<>>) = 0
        OBVIOUS
      <4> HIDE DEF w
      <4>5. w.buffer # <<>>
        BY <4>2, <4>3, <4>4
      <4> QED BY <4>2, <4>3, <4>5
    <3>4. f = [medium |-> Land(w.medium, w.buffer[1], w.resume, t),
               buffer |-> w.buffer, resume |-> TRUE, ok |-> FALSE]
      BY <3>1, <3>3
    <3>5. f.ok = FALSE
      BY <3>1
    <3> HIDE DEF w
    <3>6. WellFormed(w)
      BY <2>3 DEF Carries
    <3>7. Carries(w, f)
      BY <3>2, <3>3, <3>4, <3>6, PartLands
    <3> QED BY <2>3, <3>5, <3>7, CarriesTwice
  <2> QED BY <2>1, <2>4, <2>5
<1> QED BY <1>3, <1>4

(* A line put behind what waits in the buffer.                             *)
LEMMA LineWaits ==
    ASSUME NEW s, WellFormed(s), NEW l \in TextLines
    PROVE  Adds(s, [s EXCEPT !.buffer = Append(s.buffer, l)], l)
<1> DEFINE f == [s EXCEPT !.buffer = Append(s.buffer, l)]
           b == Append(s.buffer, l)
<1>1. s \in Sinks
  BY DEF WellFormed
<1>2. /\ s.medium.lines \in Seq(Lines) /\ s.buffer \in Seq(TextLines)
      /\ s.resume \in BOOLEAN
      /\ DOMAIN s.medium.lines = 1..Len(s.medium.lines)
      /\ DOMAIN s.buffer = 1..Len(s.buffer)
  BY SinkTypes
<1>3. /\ b \in Seq(TextLines) /\ Len(b) = Len(s.buffer) + 1
      /\ DOMAIN b = 1..Len(b)
      /\ \A j \in 1..Len(s.buffer) : b[j] = s.buffer[j]
      /\ b[Len(s.buffer) + 1] = l /\ b # <<>>
  BY <1>2, AppendProperties
<1>4. f \in Sinks /\ f.medium = s.medium /\ f.resume = s.resume /\ f.buffer = b
  BY <1>1, <1>3 DEF Sinks
<1> SUFFICES Adds(s, f, l)
  OBVIOUS
<1> HIDE DEF f, b
<1>5. PICK n \in Nat, k \in Nat, h \in Nat :
         /\ n = Len(s.medium.lines) /\ k = Len(s.buffer) /\ h = Half(s)
         /\ h <= k /\ (s.resume => h = 1) /\ (~s.resume => h = 0)
  BY SinkLengths
<1>6. /\ Half(f) = h /\ TextLen(s) = n + k - h /\ TextLen(f) = n + (k + 1) - h
  BY <1>3, <1>4, <1>5 DEF TextLen, Half
<1>7. WellFormed(f)
  <2>1. s.resume => b[1] = s.buffer[1]
    BY <1>3, <1>5
  <2> QED BY <1>3, <1>4, <2>1 DEF WellFormed
<1>8. Grows(s.medium, f.medium)
  BY <1>4, <1>5 DEF Grows
<1>9. Spoilt(f) = Spoilt(s)
  BY <1>4 DEF Spoilt
<1>10. Spoilt(s) /\ l.kind # "event" => StaysSpoilt(s, f)
  <2> SUFFICES ASSUME Spoilt(s), l.kind # "event" PROVE StaysSpoilt(s, f)
    OBVIOUS
  <2>1. ASSUME NoEventWaits(s), NEW j \in 1..Len(b) PROVE b[j].kind # "event"
    <3>1. CASE j = Len(s.buffer) + 1
      BY <1>3, <3>1
    <3>2. CASE j # Len(s.buffer) + 1
      <4>1. j \in 1..Len(s.buffer)
        BY <1>3, <1>5, <3>2
      <4> QED BY <1>2, <1>3, <2>1, <4>1 DEF NoEventWaits
    <3> QED BY <3>1, <3>2
  <2> QED BY <1>3, <1>4, <1>9, <2>1 DEF StaysSpoilt, NoEventWaits
<1>11. TextLen(f) = TextLen(s) + 1
  BY <1>5, <1>6
<1>12. ASSUME NEW i \in 1..TextLen(s) PROVE TextAt(f, i) = TextAt(s, i)
  <2>1. CASE i <= n
    BY <1>4, <1>5, <2>1 DEF TextAt
  <2>2. CASE ~(i <= n)
    <3>1. i - n + h \in 1..k
      <4>1. i \in Nat /\ i <= n + k - h
        BY <1>5, <1>6
      <4> QED BY <2>2, <4>1
    <3>2. TextAt(f, i) = b[i - n + h] /\ TextAt(s, i) = s.buffer[i - n + h]
      BY <1>4, <1>5, <1>6, <2>2 DEF TextAt
    <3> QED BY <1>3, <1>5, <3>1, <3>2
  <2> QED BY <2>1, <2>2
<1>13. TextAt(f, TextLen(f)) = l
  <2> DEFINE i == n + (k + 1) - h
  <2>1. ~(i <= n) /\ i - n + h = k + 1
    BY <1>5
  <2>2. TextAt(f, TextLen(f)) = b[i - n + h]
    BY <1>4, <1>5, <1>6, <2>1 DEF TextAt
  <2> QED BY <1>3, <1>5, <2>1, <2>2
<1> QED BY <1>7, <1>8, <1>9, <1>10, <1>11, <1>12, <1>13 DEF Adds

(* writeln! of a line that fits the buffer.                                *)
LEMMA WritesShortAdd ==
    ASSUME NEW s, WellFormed(s), s.ok = TRUE, NEW l \in TextLines, NEW w \in WritesShort(s, l)
    PROVE  \/ w.ok = TRUE /\ Adds(s, w, l)
           \/ w.ok = FALSE /\ Carries(s, w)
<1>1. s \in Sinks
  BY DEF WellFormed
<1>2. CASE w = [s EXCEPT !.buffer = Append(@, l)]
  <2>1. w.ok = TRUE
    BY <1>1, <1>2 DEF Sinks
  <2> QED BY <1>2, <2>1, LineWaits
<1>3. CASE w \in FlushFails(s)
  BY <1>3, FlushesCarry
<1>4. CASE w = [FlushOk(s) EXCEPT !.buffer = <<l>>]
  <2> DEFINE f == FlushOk(s)
  <2>1. Carries(s, f) /\ f.ok = TRUE /\ f.buffer = <<>>
    BY FlushesCarry
  <2>2. w = [f EXCEPT !.buffer = <<l>>]
    BY <1>4
  <2> HIDE DEF f
  <2>3. WellFormed(f) /\ f \in Sinks
    BY <2>1 DEF Carries, WellFormed
  <2>4. Append(f.buffer, l) = <<l>>
    BY <2>1
  <2>5. Adds(f, w, l)
    BY <2>2, <2>3, <2>4, LineWaits
  <2>6. w.ok = TRUE
    BY <2>1, <2>2, <2>3 DEF Sinks
  <2> QED BY <2>1, <2>5, <2>6, CarriesThenAdds
<1> QED BY <1>2, <1>3, <1>4 DEF WritesShort

(* writeln! of a line larger than the buffer, on a sink not yet spoilt.    *)
LEMMA WritesLongAdd ==
    ASSUME NEW s, WellFormed(s), s.ok = TRUE, ~Spoilt(s),
           NEW l \in TextLines, NEW w \in WritesLong(s, l)
    PROVE  \/ w.ok = TRUE /\ Adds(s, w, l)
           \/ w.ok = FALSE /\ Carries(s, w)
           \/ w.ok = FALSE /\ Breaks(s, w, l)
<1> DEFINE f == FlushOk(s)
           g == [f EXCEPT !.buffer = <<l>>]
<1>1. /\ Carries(s, f) /\ f.ok = TRUE /\ f.buffer = <<>> /\ f.resume = FALSE
      /\ \A r \in FlushFails(s) : Carries(s, r) /\ r.ok = FALSE
  BY FlushesCarry
<1>w. \/ w = [f EXCEPT !.medium = Land(f.medium, l, FALSE, "noeol"),
                       !.buffer = <<l>>, !.resume = TRUE]
      \/ w = [f EXCEPT !.ok = FALSE]
      \/ w = [f EXCEPT !.ok = FALSE, !.medium = Land(f.medium, l, FALSE, "cut")]
      \/ w \in FlushFails(s)
  BY DEF WritesLong
<1> HIDE DEF f
<1>2. WellFormed(f) /\ f \in Sinks /\ ~Spoilt(f) /\ Grows(s.medium, f.medium)
  BY <1>1 DEF Carries, WellFormed
<1>3. PICK med \in Media :
         f = [medium |-> med, buffer |-> <<>>, resume |-> FALSE, ok |-> TRUE]
  <2>1. PICK med \in Media, b \in Seq(TextLines), r \in BOOLEAN, o \in BOOLEAN :
           f = [medium |-> med, buffer |-> b, resume |-> r, ok |-> o]
    BY <1>2 DEF Sinks
  <2> QED BY <1>1, <2>1
<1>4. f.medium.tail = "eol"
  BY <1>1, <1>2, SinkTypes DEF Spoilt, WellFormed
<1>5. Append(f.buffer, l) = <<l>> /\ <<l>> \in Seq(TextLines) /\ <<l>>[1] = l /\ <<l>> # <<>>
  BY <1>1
<1>6. Adds(f, g, l)
  BY <1>2, <1>5, LineWaits
<1>7. /\ g = [medium |-> med, buffer |-> <<l>>, resume |-> FALSE, ok |-> TRUE]
      /\ WellFormed(g) /\ Adds(s, g, l)
  <2>1. Adds(s, g, l)
    BY <1>1, <1>6, CarriesThenAdds
  <2>2. g = [medium |-> med, buffer |-> <<l>>, resume |-> FALSE, ok |-> TRUE]
    <3>1. g = [f EXCEPT !.buffer = <<l>>]
      OBVIOUS
    <3> HIDE DEF g
    <3> QED BY <1>3, <3>1
  <2> HIDE DEF g
  <2> QED BY <2>1, <2>2 DEF Adds
<1>8. CASE w = [f EXCEPT !.medium = Land(f.medium, l, FALSE, "noeol"),
                         !.buffer = <<l>>, !.resume = TRUE]
  <2> DEFINE p == [medium |-> Land(g.medium, g.buffer[1], g.resume, "noeol"),
                   buffer |-> g.buffer, resume |-> TRUE, ok |-> FALSE]
  <2>1. /\ g.medium = med /\ g.buffer = <<l>> /\ g.resume = FALSE /\ f.medium = med
    BY <1>3, <1>7
  <2>2. w = [medium |-> Land(med, l, FALSE, "noeol"), buffer |-> <<l>>,
             resume |-> TRUE, ok |-> TRUE]
    BY <1>3, <1>8
  <2> HIDE DEF g
  <2>3. Carries(g, p)
    BY <1>5, <1>7, <2>1, PartLands
  <2>4. Adds(s, p, l)
    BY <1>7, <2>3, AddsThenCarries
  <2>5. SameSink(p, w)
    BY <1>5, <2>1, <2>2 DEF SameSink
  <2>6. w \in Sinks /\ w.ok = TRUE
    <3>1. p.medium \in Media
      BY <2>3 DEF Carries, WellFormed, Sinks
    <3> QED BY <1>5, <2>1, <2>2, <3>1 DEF Sinks
  <2> HIDE DEF p
  <2> QED BY <2>4, <2>5, <2>6, OutcomeAside
<1>9. CASE w = [f EXCEPT !.ok = FALSE]
  <2>1. w \in Sinks /\ SameSink(f, w) /\ w.ok = FALSE
    BY <1>2, <1>9 DEF Sinks, SameSink
  <2> QED BY <1>1, <2>1, OutcomeAside
<1>10. CASE w = [f EXCEPT !.ok = FALSE, !.medium = Land(f.medium, l, FALSE, "cut")]
  <2> DEFINE m == Land(f.medium, l, FALSE, "cut")
  <2>0. f.medium = med
    BY <1>3
  <2>1. w = [medium |-> m, buffer |-> <<>>, resume |-> FALSE, ok |-> FALSE]
    BY <1>3, <1>10
  <2>2. Landed(f.medium, l, FALSE, "cut", m)
    <3>1. f.medium \in Media
      BY <1>3
    <3> QED BY <1>4, <3>1, LandsOne
  <2> HIDE DEF m
  <2>3. /\ m \in Media /\ m.tail = "cut" /\ m.lines # <<>>
        /\ Len(m.lines) = Len(f.medium.lines) + 1 /\ m.lines[Len(m.lines)] = l
        /\ \A i \in 1..Len(f.medium.lines) : m.lines[i] = f.medium.lines[i]
    BY <1>4, <2>2 DEF Landed
  <2>4. w.medium = m /\ w.buffer = <<>> /\ w.resume = FALSE /\ w.ok = FALSE /\ w \in Sinks
    BY <2>1, <2>3 DEF Sinks
  <2>5. WellFormed(w) /\ Spoilt(w)
    BY <2>3, <2>4 DEF WellFormed, Spoilt
  <2>6. PICK n \in Nat : n = Len(f.medium.lines)
    BY <1>2, SinkLengths
  <2>7. /\ DOMAIN f.medium.lines = 1..n /\ DOMAIN m.lines = 1..(n + 1)
    BY <1>2, <2>3, <2>6, SinkTypes DEF Media
  <2>8. Grows(f.medium, m)
    <3>1. n <= Len(m.lines) /\ \A i \in 1..n : i < Len(m.lines)
      BY <2>3, <2>6
    <3> QED BY <2>3, <2>6, <2>7, <3>1 DEF Grows, Whole
  <2>9. Grows(s.medium, w.medium)
    BY <1>2, <2>4, <2>5, <2>8, GrowsTwice
  <2>10. TextLen(s) = n /\ \A i \in 1..n : TextAt(s, i) = f.medium.lines[i]
    <3>1. TextLen(f) = n
      <4>1. Len(f.buffer) = 0 /\ Half(f) = 0
        BY <1>1 DEF Half
      <4> QED BY <2>6, <4>1 DEF TextLen
    <3>2. \A i \in 1..n : TextAt(f, i) = f.medium.lines[i]
      BY <2>6 DEF TextAt
    <3> QED BY <1>1, <3>1, <3>2 DEF Carries
  <2>11. ASSUME NEW i \in 1..(n + 1)
         PROVE  \/ i \in 1..n /\ m.lines[i] = TextAt(s, i)
                \/ i = n + 1 /\ m.lines[i] = l
    <3>1. CASE i = n + 1
      BY <2>3, <2>6, <3>1
    <3>2. CASE i \in 1..n
      BY <2>3, <2>6, <2>10, <3>2
    <3> QED BY <3>1, <3>2
  <2>12. Breaks(s, w, l)
    BY <2>4, <2>5, <2>7, <2>9, <2>10, <2>11 DEF Breaks
  <2> QED BY <2>4, <2>12
<1> QED BY <1>1, <1>w, <1>8, <1>9, <1>10

-----------------------------------------------------------------------------
(* Lemmas about the text                                                   *)

(* What holds of a text holds of what it begins with.                      *)
LEMMA TextBegins ==
    ASSUME NEW s, NEW f, NEW e \in Nat, NEW o, NEW d,
           TextLen(s) \in Nat, TextLen(f) \in Nat, TextLen(f) <= TextLen(s),
           \A i \in 1..TextLen(f) : TextAt(f, i) = TextAt(s, i),
           EventsInOrder(s, e), EndsAreTrue(s, e, o, d)
    PROVE  EventsInOrder(f, e) /\ EndsAreTrue(f, e, o, d)
<1>1. \A i \in 1..TextLen(f) : i \in 1..TextLen(s)
  OBVIOUS
<1>2. EventsInOrder(f, e)
  BY <1>1 DEF EventsInOrder
<1>3. EndsAreTrue(f, e, o, d)
  <2> SUFFICES ASSUME NEW i \in 1..TextLen(f), TextAt(f, i).kind \in EndKinds
               PROVE  /\ TextAt(f, i).n = e
                      /\ d # "none"
                      /\ \A j \in 1..TextLen(f) : TextAt(f, j).kind = "event" => j < i
                      /\ \A n \in 1..e : \E j \in 1..i : HasEvent(f, j, n)
                      /\ TextAt(f, i).kind = "complete" =>
                            /\ d = "complete"
                            /\ o = e
                            /\ \A j \in 1..i : TextAt(f, j).kind # "partial"
    BY DEF EndsAreTrue
  <2>1. i \in 1..TextLen(s) /\ TextAt(s, i).kind \in EndKinds
    BY <1>1
  <2>2. /\ TextAt(s, i).n = e
        /\ d # "none"
        /\ \A j \in 1..TextLen(s) : TextAt(s, j).kind = "event" => j < i
        /\ \A n \in 1..e : \E j \in 1..i : HasEvent(s, j, n)
        /\ TextAt(s, i).kind = "complete" =>
              /\ d = "complete"
              /\ o = e
              /\ \A j \in 1..i : TextAt(s, j).kind # "partial"
    BY <2>1 DEF EndsAreTrue
  <2>3. \A j \in 1..i : j \in 1..TextLen(f)
    OBVIOUS
  <2>4. \A j \in 1..i : \A n \in 1..e : HasEvent(s, j, n) => HasEvent(f, j, n)
    BY <2>3 DEF HasEvent
  <2>5. \A j \in 1..TextLen(f) : TextAt(f, j).kind = "event" => j < i
    BY <1>1, <2>2
  <2>6. \A n \in 1..e : \E j \in 1..i : HasEvent(f, j, n)
    BY <2>2, <2>4
  <2>7. TextAt(f, i).kind = "complete" =>
            /\ d = "complete"
            /\ o = e
            /\ \A j \in 1..i : TextAt(f, j).kind # "partial"
    BY <2>2, <2>3
  <2> QED BY <2>2, <2>5, <2>6, <2>7
<1> QED BY <1>2, <1>3

\* Events that are in a text are in the same text on another medium.
LEMMA TextStays ==
    ASSUME NEW s, NEW f, NEW e \in Nat, TextLen(f) = TextLen(s),
           \A i \in 1..TextLen(s) : TextAt(f, i) = TextAt(s, i), AllThere(s, e)
    PROVE  AllThere(f, e)
BY DEF AllThere, HasEvent

(* A longer text.                                                          *)
Extends(s, f, l) ==
    /\ TextLen(s) \in Nat
    /\ TextLen(f) = TextLen(s) + 1
    /\ \A i \in 1..TextLen(s) : TextAt(f, i) = TextAt(s, i)
    /\ TextAt(f, TextLen(f)) = l

\* A text with one more line: the lines before it, and it, by their places.
LEMMA LongerText ==
    ASSUME NEW s, NEW f, NEW l, NEW e \in Nat, Extends(s, f, l)
    PROVE  /\ TextLen(f) \in Nat
           /\ \A i \in 1..TextLen(s) : i \in 1..TextLen(f) /\ TextAt(f, i) = TextAt(s, i)
           /\ \A i \in 1..TextLen(f) : i \in 1..TextLen(s) \/ (i = TextLen(f) /\ TextAt(f, i) = l)
           /\ TextLen(f) \in 1..TextLen(f)
           /\ \A i \in 1..TextLen(s) : i < TextLen(f)
           /\ AllThere(s, e) => AllThere(f, e)
           /\ \A i, n : HasEvent(s, i, n) => HasEvent(f, i, n)
<1>1. /\ TextLen(f) \in Nat
      /\ \A i \in 1..TextLen(s) : i \in 1..TextLen(f) /\ TextAt(f, i) = TextAt(s, i)
      /\ \A i \in 1..TextLen(f) : i \in 1..TextLen(s) \/ (i = TextLen(f) /\ TextAt(f, i) = l)
      /\ TextLen(f) \in 1..TextLen(f)
      /\ \A i \in 1..TextLen(s) : i < TextLen(f)
  BY DEF Extends
<1>2. \A i, n : HasEvent(s, i, n) => HasEvent(f, i, n)
  BY <1>1 DEF HasEvent
<1>3. AllThere(s, e) => AllThere(f, e)
  BY <1>1, <1>2 DEF AllThere
<1> QED BY <1>1, <1>2, <1>3

\* A line that is neither an event nor an end.
LEMMA OtherLine ==
    ASSUME NEW s, NEW f, NEW l, NEW e \in Nat, NEW o, NEW d, Extends(s, f, l),
           l.kind # "event", l.kind \notin EndKinds,
           EventsInOrder(s, e), EndsAreTrue(s, e, o, d)
    PROVE  EventsInOrder(f, e) /\ EndsAreTrue(f, e, o, d)
<1>1. /\ TextLen(f) \in Nat
      /\ \A i \in 1..TextLen(s) : i \in 1..TextLen(f) /\ TextAt(f, i) = TextAt(s, i)
      /\ \A i \in 1..TextLen(f) : i \in 1..TextLen(s) \/ (i = TextLen(f) /\ TextAt(f, i) = l)
      /\ \A i, n : HasEvent(s, i, n) => HasEvent(f, i, n)
  BY LongerText
<1>2. EventsInOrder(f, e)
  BY <1>1 DEF EventsInOrder
<1>3. EndsAreTrue(f, e, o, d)
  <2> SUFFICES ASSUME NEW i \in 1..TextLen(f), TextAt(f, i).kind \in EndKinds
               PROVE  /\ TextAt(f, i).n = e
                      /\ d # "none"
                      /\ \A j \in 1..TextLen(f) : TextAt(f, j).kind = "event" => j < i
                      /\ \A n \in 1..e : \E j \in 1..i : HasEvent(f, j, n)
                      /\ TextAt(f, i).kind = "complete" =>
                            /\ d = "complete"
                            /\ o = e
                            /\ \A j \in 1..i : TextAt(f, j).kind # "partial"
    BY DEF EndsAreTrue
  <2>1. i \in 1..TextLen(s) /\ TextAt(f, i) = TextAt(s, i)
    BY <1>1
  <2>2. /\ TextAt(s, i).n = e
        /\ d # "none"
        /\ \A j \in 1..TextLen(s) : TextAt(s, j).kind = "event" => j < i
        /\ \A n \in 1..e : \E j \in 1..i : HasEvent(s, j, n)
        /\ TextAt(s, i).kind = "complete" =>
              /\ d = "complete"
              /\ o = e
              /\ \A j \in 1..i : TextAt(s, j).kind # "partial"
    BY <2>1 DEF EndsAreTrue
  <2>3. TextLen(s) \in Nat /\ \A j \in 1..i : j \in 1..TextLen(s)
    BY DEF Extends
  <2>5. \A j \in 1..TextLen(f) : TextAt(f, j).kind = "event" => j < i
    BY <1>1, <2>2
  <2>6. \A n \in 1..e : \E j \in 1..i : HasEvent(f, j, n)
    BY <1>1, <2>2
  <2>7. TextAt(f, i).kind = "complete" =>
            /\ d = "complete"
            /\ o = e
            /\ \A j \in 1..i : TextAt(f, j).kind # "partial"
    BY <1>1, <2>1, <2>2, <2>3
  <2> QED BY <2>1, <2>2, <2>5, <2>6, <2>7
<1> QED BY <1>2, <1>3

\* The next event, before any end.
LEMMA NextEvent ==
    ASSUME NEW s, NEW f, NEW e \in Nat, NEW o, NEW p, Extends(s, f, Line("event", e + 1, 0)),
           EventsInOrder(s, e), AllThere(s, e), EndsAreTrue(s, e, o, "none")
    PROVE  /\ EventsInOrder(f, e + 1) /\ AllThere(f, e + 1)
           /\ EndsAreTrue(f, e + 1, p, "none")
<1> DEFINE l == Line("event", e + 1, 0)
<1>l. l.kind = "event" /\ l.n = e + 1 /\ l.kind \notin EndKinds
  BY DEF Line, EndKinds
<1>x. Extends(s, f, l)
  OBVIOUS
<1>y. l = Line("event", e + 1, 0)
  OBVIOUS
<1> HIDE DEF l
<1>1. /\ TextLen(f) \in Nat
      /\ \A i \in 1..TextLen(s) : i \in 1..TextLen(f) /\ TextAt(f, i) = TextAt(s, i)
      /\ \A i \in 1..TextLen(f) : i \in 1..TextLen(s) \/ (i = TextLen(f) /\ TextAt(f, i) = l)
      /\ TextLen(f) \in 1..TextLen(f)
      /\ \A i \in 1..TextLen(s) : i < TextLen(f)
      /\ \A i, n : HasEvent(s, i, n) => HasEvent(f, i, n)
  BY <1>x, LongerText
<1>2. \A i \in 1..TextLen(s) : TextAt(s, i).kind \notin EndKinds
  BY DEF EndsAreTrue
<1>3. EndsAreTrue(f, e + 1, p, "none")
  BY <1>1, <1>2, <1>l DEF EndsAreTrue
<1>4. AllThere(f, e + 1)
  <2> SUFFICES ASSUME NEW n \in 1..(e + 1)
               PROVE  \E i \in 1..TextLen(f) : HasEvent(f, i, n)
    BY DEF AllThere
  <2>1. CASE n = e + 1
    <3>1. TextAt(f, TextLen(f)) = l
      BY <1>x DEF Extends
    <3> QED BY <1>1, <1>y, <2>1, <3>1 DEF HasEvent
  <2>2. CASE n # e + 1
    <3>1. n \in 1..e
      BY <2>2
    <3> QED BY <1>1, <3>1 DEF AllThere
  <2> QED BY <2>1, <2>2
<1>5. EventsInOrder(f, e + 1)
  <2> SUFFICES ASSUME NEW i \in 1..TextLen(f), NEW j \in 1..TextLen(f),
                      TextAt(f, i).kind = "event"
               PROVE  /\ TextAt(f, i).n \in 1..(e + 1)
                      /\ TextAt(f, j).kind = "event" /\ i < j
                           => TextAt(f, i).n < TextAt(f, j).n
    BY DEF EventsInOrder
  <2>1. CASE i \in 1..TextLen(s) /\ j \in 1..TextLen(s)
    BY <1>1, <2>1 DEF EventsInOrder
  <2>2. CASE i \in 1..TextLen(s) /\ j = TextLen(f) /\ TextAt(f, j) = l
    <3>1. TextAt(f, i).n \in 1..e
      BY <1>1, <2>2 DEF EventsInOrder
    <3> QED BY <1>l, <2>2, <3>1
  <2>3. CASE i = TextLen(f) /\ TextAt(f, i) = l
    <3>1. ~(i < j)
      BY <1>1, <2>3
    <3> QED BY <1>l, <2>3, <3>1
  <2> QED BY <1>1, <2>1, <2>2, <2>3
<1> QED BY <1>3, <1>4, <1>5

\* An end: the first one if it is complete.
LEMMA NextEnd ==
    ASSUME NEW s, NEW f, NEW e \in Nat, NEW h, NEW o, NEW d, NEW v \in EndKinds, NEW said,
           Extends(s, f, Line(v, e, h)),
           EventsInOrder(s, e), AllThere(s, e), EndsAreTrue(s, e, o, d),
           said # "none", d # "none" => said = d,
           v = "complete" => d = "none" /\ said = "complete" /\ o = e
    PROVE  EventsInOrder(f, e) /\ EndsAreTrue(f, e, o, said)
<1> DEFINE l == Line(v, e, h)
<1>l. l.kind = v /\ l.n = e /\ l.kind \in EndKinds /\ l.kind # "event"
  BY DEF Line, EndKinds
<1>x. Extends(s, f, l)
  OBVIOUS
<1> HIDE DEF l
<1>1. /\ TextLen(f) \in Nat
      /\ \A i \in 1..TextLen(s) : i \in 1..TextLen(f) /\ TextAt(f, i) = TextAt(s, i)
      /\ \A i \in 1..TextLen(f) : i \in 1..TextLen(s) \/ (i = TextLen(f) /\ TextAt(f, i) = l)
      /\ TextLen(f) \in 1..TextLen(f)
      /\ \A i \in 1..TextLen(s) : i < TextLen(f)
      /\ \A i, n : HasEvent(s, i, n) => HasEvent(f, i, n)
  BY <1>x, LongerText
<1>2. EventsInOrder(f, e)
  BY <1>1, <1>l DEF EventsInOrder
<1>3. EndsAreTrue(f, e, o, said)
  <2> SUFFICES ASSUME NEW i \in 1..TextLen(f), TextAt(f, i).kind \in EndKinds
               PROVE  /\ TextAt(f, i).n = e
                      /\ \A j \in 1..TextLen(f) : TextAt(f, j).kind = "event" => j < i
                      /\ \A n \in 1..e : \E j \in 1..i : HasEvent(f, j, n)
                      /\ TextAt(f, i).kind = "complete" =>
                            /\ said = "complete"
                            /\ o = e
                            /\ \A j \in 1..i : TextAt(f, j).kind # "partial"
    BY DEF EndsAreTrue
  <2>1. CASE i \in 1..TextLen(s)
    <3>1. TextAt(s, i).kind \in EndKinds /\ TextAt(f, i) = TextAt(s, i)
      BY <1>1, <2>1
    <3>2. /\ TextAt(s, i).n = e
          /\ d # "none"
          /\ \A j \in 1..TextLen(s) : TextAt(s, j).kind = "event" => j < i
          /\ \A n \in 1..e : \E j \in 1..i : HasEvent(s, j, n)
          /\ TextAt(s, i).kind = "complete" =>
                /\ d = "complete"
                /\ o = e
                /\ \A j \in 1..i : TextAt(s, j).kind # "partial"
      BY <2>1, <3>1 DEF EndsAreTrue
    <3>3. TextLen(s) \in Nat /\ \A j \in 1..i : j \in 1..TextLen(s)
      BY <1>x, <2>1 DEF Extends
    <3>4. \A j \in 1..TextLen(f) : TextAt(f, j).kind = "event" => j < i
      BY <1>1, <1>l, <3>2
    <3>5. \A n \in 1..e : \E j \in 1..i : HasEvent(f, j, n)
      BY <1>1, <3>2
    <3>6. TextAt(f, i).kind = "complete" =>
              /\ said = "complete"
              /\ o = e
              /\ \A j \in 1..i : TextAt(f, j).kind # "partial"
      BY <1>1, <3>1, <3>2, <3>3
    <3> QED BY <3>1, <3>2, <3>4, <3>5, <3>6
  <2>2. CASE i = TextLen(f) /\ TextAt(f, i) = l
    <3>1. \A j \in 1..TextLen(f) : TextAt(f, j).kind = "event" => j < i
      BY <1>1, <1>l, <2>2
    <3>2. \A n \in 1..e : \E j \in 1..i : HasEvent(f, j, n)
      BY <1>1, <2>2 DEF AllThere
    <3>3. ASSUME v = "complete", NEW j \in 1..i PROVE TextAt(f, j).kind # "partial"
      <4>1. CASE j \in 1..TextLen(s)
        <5>1. TextAt(s, j).kind \notin EndKinds
          BY <3>3, <4>1 DEF EndsAreTrue
        <5> QED BY <1>1, <4>1, <5>1 DEF EndKinds
      <4>2. CASE TextAt(f, j) = l
        BY <1>l, <3>3, <4>2
      <4> QED BY <1>1, <2>2, <4>1, <4>2
    <3> QED BY <1>l, <2>2, <3>1, <3>2, <3>3
  <2> QED BY <1>1, <2>1, <2>2
<1> QED BY <1>2, <1>3

-----------------------------------------------------------------------------
(* What the calls of the writer do to its sink                             *)

\* The writer's sink after a call is the result the call took.
LEMMA SinkAfter ==
    ASSUME NEW s \in Sinks, medium' = s.medium, buffer' = s.buffer, resume' = s.resume
    PROVE  Sink' \in Sinks /\ SameSink(s, Sink')
<1>1. /\ Sink' = [medium |-> medium', buffer |-> buffer', resume |-> resume', ok |-> TRUE]
  BY DEF Sink
<1>2. s.medium \in Media /\ s.buffer \in Seq(TextLines) /\ s.resume \in BOOLEAN
  BY DEF Sinks
<1>3. Sink' \in Sinks
  BY <1>1, <1>2 DEF Sinks
<1>4. SameSink(s, Sink')
  BY <1>1 DEF SameSink
<1> QED BY <1>3, <1>4

\* A flush of the writer's sink only moves lines, and empties the buffer if it succeeds.
LEMMA CallFlushes ==
    ASSUME NEW next, NEW failing, WellFormed(Sink), Call(Flushes(Sink), next, failing)
    PROVE  /\ Carries(Sink, Sink')
           /\ pc' = failing \/ (pc' = next /\ buffer' = <<>> /\ resume' = FALSE)
<1>1. PICK s \in Flushes(Sink) :
         /\ medium' = s.medium /\ buffer' = s.buffer /\ resume' = s.resume
         /\ s.ok = TRUE => pc' = next
         /\ s.ok = FALSE => pc' = failing
  BY DEF Call
<1>2. /\ Carries(Sink, s)
      /\ s.ok = FALSE \/ (s.ok = TRUE /\ s.buffer = <<>> /\ s.resume = FALSE)
  BY FlushesCarry DEF Flushes
<1>3. s \in Sinks
  BY <1>2 DEF Carries, WellFormed
<1>4. Sink' \in Sinks /\ SameSink(s, Sink')
  BY <1>1, <1>3, SinkAfter
<1>5. Carries(Sink, Sink')
  BY <1>2, <1>4, OutcomeAside
<1> QED BY <1>1, <1>2, <1>5

\* A short writeln! adds its line, or fails and only moves lines.
LEMMA CallWritesShort ==
    ASSUME NEW next, NEW failing, NEW l \in TextLines, WellFormed(Sink),
           Call(WritesShort(Sink, l), next, failing)
    PROVE  \/ pc' = next /\ Adds(Sink, Sink', l)
           \/ pc' = failing /\ Carries(Sink, Sink')
<1>1. PICK s \in WritesShort(Sink, l) :
         /\ medium' = s.medium /\ buffer' = s.buffer /\ resume' = s.resume
         /\ s.ok = TRUE => pc' = next
         /\ s.ok = FALSE => pc' = failing
  BY DEF Call
<1>2. Sink.ok = TRUE
  BY DEF Sink
<1>3. \/ s.ok = TRUE /\ Adds(Sink, s, l)
      \/ s.ok = FALSE /\ Carries(Sink, s)
  BY <1>2, WritesShortAdd
<1>4. s \in Sinks
  BY <1>3 DEF Carries, Adds, WellFormed
<1>5. Sink' \in Sinks /\ SameSink(s, Sink')
  BY <1>1, <1>4, SinkAfter
<1> QED BY <1>1, <1>3, <1>5, OutcomeAside

\* Any writeln! adds its line, fails and only moves lines, or cuts its line short.
LEMMA CallWrites ==
    ASSUME NEW next, NEW failing, NEW l \in TextLines, WellFormed(Sink), ~Spoilt(Sink),
           Call(Writes(l), next, failing)
    PROVE  \/ pc' = next /\ Adds(Sink, Sink', l)
           \/ pc' = failing /\ Carries(Sink, Sink')
           \/ pc' = failing /\ Breaks(Sink, Sink', l)
<1>1. PICK s \in Writes(l) :
         /\ medium' = s.medium /\ buffer' = s.buffer /\ resume' = s.resume
         /\ s.ok = TRUE => pc' = next
         /\ s.ok = FALSE => pc' = failing
  BY DEF Call
<1>2. Sink.ok = TRUE
  BY DEF Sink
<1>3. \/ s.ok = TRUE /\ Adds(Sink, s, l)
      \/ s.ok = FALSE /\ Carries(Sink, s)
      \/ s.ok = FALSE /\ Breaks(Sink, s, l)
  BY <1>2, WritesShortAdd, WritesLongAdd DEF Writes
<1>4. s \in Sinks
  BY <1>3 DEF Carries, Adds, Breaks, WellFormed
<1>5. Sink' \in Sinks /\ SameSink(s, Sink')
  BY <1>1, <1>4, SinkAfter
<1> QED BY <1>1, <1>3, <1>5, OutcomeAside

(* The lines the writer writes.                                            *)
LEMMA WriterLines ==
    ASSUME {events_emitted, heartbeats, observed} \subseteq Nat
    PROVE  /\ StartLine \in TextLines /\ EventLine \in TextLines
           /\ HeartbeatLine \in TextLines
           /\ \A v \in EndKinds : EndLine(v) \in TextLines
BY DEF StartLine, EventLine, HeartbeatLine, EndLine, Line, TextLines, Lines, LineKinds,
       EndKinds

-----------------------------------------------------------------------------
(* The invariant is inductive                                              *)

\* What of the invariant follows from a call alone, whichever step made it.
LEMMA OrderFromText ==
    ASSUME NEW s, WellFormed(s), ~Spoilt(s), NEW e \in Nat, NEW seen \in Nat, e <= seen,
           EventsInOrder(s, e)
    PROVE  MediumOrder(s.medium, seen)
<1>1. PICK n \in Nat, k \in Nat, h \in Nat :
         /\ n = Len(s.medium.lines) /\ k = Len(s.buffer) /\ h = Half(s)
         /\ h <= k
         /\ TextLen(s) = n + k - h
  BY SinkLengths
<1>2. DOMAIN s.medium.lines = 1..n
  BY <1>1, SinkTypes
<1>3. ASSUME NEW i \in 1..n
      PROVE  i \in 1..TextLen(s) /\ TextAt(s, i) = s.medium.lines[i]
  <2>1. i \in 1..(n + k - h)
    <3>1. h <= k
      BY <1>1
    <3> QED BY <3>1
  <2> QED BY <1>1, <2>1 DEF TextAt
<1>4. 1..e \subseteq 1..seen
  OBVIOUS
<1> QED BY <1>2, <1>3, <1>4 DEF MediumOrder, EventsInOrder

\* No event reaches a spoilt medium, so the order of those on it stays.
LEMMA OrderStaysSpoilt ==
    ASSUME NEW s, NEW f, WellFormed(s), WellFormed(f), Spoilt(s), StaysSpoilt(s, f), NoEventWaits(s),
           NEW seen \in Nat, NEW later \in Nat, seen <= later, MediumOrder(s.medium, seen)
    PROVE  MediumOrder(f.medium, later)
<1>1. 1..seen \subseteq 1..later
  OBVIOUS
<1> QED BY <1>1 DEF MediumOrder, StaysSpoilt

\* An event cut short is the next one in the order.
LEMMA OrderBreaks ==
    ASSUME NEW s, NEW f, NEW l, WellFormed(s), NEW e \in Nat, NEW seen \in Nat, e <= seen,
           Breaks(s, f, l), EventsInOrder(s, e),
           l.kind = "event" => l.n = e + 1 /\ l.n <= seen
    PROVE  MediumOrder(f.medium, seen)
<1>1. TextLen(s) \in Nat
  BY SinkLengths
<1>2. \A i \in DOMAIN f.medium.lines :
          \/ i \in 1..TextLen(s) /\ f.medium.lines[i] = TextAt(s, i)
          \/ i = TextLen(s) + 1 /\ f.medium.lines[i] = l
  BY DEF Breaks
<1> SUFFICES ASSUME NEW i \in DOMAIN f.medium.lines, NEW j \in DOMAIN f.medium.lines,
                    f.medium.lines[i].kind = "event"
             PROVE  /\ f.medium.lines[i].n \in 1..seen
                    /\ f.medium.lines[j].kind = "event" /\ i < j
                         => f.medium.lines[i].n < f.medium.lines[j].n
  BY DEF MediumOrder
<1>3. CASE i \in 1..TextLen(s) /\ f.medium.lines[i] = TextAt(s, i)
  <2>1. f.medium.lines[i].n \in 1..e
    BY <1>3 DEF EventsInOrder
  <2>2. f.medium.lines[i].n \in 1..seen
    BY <2>1
  <2>3. CASE j \in 1..TextLen(s) /\ f.medium.lines[j] = TextAt(s, j)
    BY <1>3, <2>2, <2>3 DEF EventsInOrder
  <2>4. CASE j = TextLen(s) + 1 /\ f.medium.lines[j] = l
    <3>1. l.kind = "event" => f.medium.lines[i].n < l.n
      BY <2>1
    <3> QED BY <2>2, <2>4, <3>1
  <2> QED BY <1>2, <2>3, <2>4
<1>4. CASE i = TextLen(s) + 1 /\ f.medium.lines[i] = l
  <2>1. ~(i < j)
    <3>1. j \in 1..(TextLen(s) + 1)
      BY <1>1, <1>2
    <3> QED BY <1>1, <1>4, <3>1
  <2>2. l.n \in 1..seen
    BY <1>4
  <2> QED BY <1>4, <2>1, <2>2
<1> QED BY <1>2, <1>3, <1>4

\* What is acknowledged stays on a medium that only grows.
LEMMA AckGrows ==
    ASSUME Grows(medium, medium'), WellFormed(Sink), Sink' \in Sinks, AckInv,
           acknowledged' = acknowledged
    PROVE  AckInv'
<1>1. DOMAIN medium.lines = 1..Len(medium.lines) /\ Len(medium.lines) \in Nat
  <2>1. Sink.medium = medium
    BY DEF Sink
  <2> QED BY <2>1, SinkTypes, SinkLengths
<1>2. DOMAIN medium'.lines = 1..Len(medium'.lines) /\ Len(medium'.lines) \in Nat
  BY DEF Sink, Sinks, Media
<1>3. \A i \in 1..Len(medium.lines) : i \in 1..Len(medium'.lines)
  BY <1>1, <1>2 DEF Grows
<1>4. ASSUME NEW n \in 1..acknowledged
      PROVE  \E i \in DOMAIN medium'.lines :
                medium'.lines[i] = Line("event", n, 0) /\ Whole(medium', i)
  <2>1. PICK i \in DOMAIN medium.lines :
           medium.lines[i] = Line("event", n, 0) /\ Whole(medium, i)
    BY DEF AckInv
  <2>2. medium'.lines[i] = medium.lines[i] /\ Whole(medium', i)
    BY <2>1 DEF Grows
  <2> QED BY <1>1, <1>2, <1>3, <2>1, <2>2
<1> QED BY <1>4 DEF AckInv

\* What a step keeps of the invariant if the sink was written to and the text is
\* as it should be.
LEMMA MovesOn ==
    ASSUME SinkInv, CountInv, TextInv, MediumInv, pc # "dead",
           WellFormed(Sink'),
           Spoilt(Sink) => StaysSpoilt(Sink, Sink'),
           ~Spoilt(Sink) => /\ ~Spoilt(Sink')
                            /\ EventsInOrder(Sink', events_emitted')
                            /\ AllThere(Sink', events_emitted')
                            /\ EndsAreTrue(Sink', events_emitted', observed', declared'),
           events_emitted' \in Nat, observed' \in Nat, events_emitted' <= observed',
           observed <= observed'
    PROVE  /\ TextInv' /\ MediumInv'
           /\ Spoilt(Sink') <=> Spoilt(Sink)
           /\ Spoilt(Sink') => NoEventWaits(Sink')
<1>1. WellFormed(Sink) /\ (Spoilt(Sink) => NoEventWaits(Sink)) /\ observed \in Nat
  BY DEF SinkInv, CountInv
<1>2. Spoilt(Sink) => Spoilt(Sink') /\ NoEventWaits(Sink')
  BY <1>1 DEF StaysSpoilt
<1>3. Sink.medium = medium /\ Sink'.medium = medium'
  BY DEF Sink
<1>4. TextInv'
  BY <1>2 DEF TextInv
<1>5. MediumInv'
  <2>1. CASE Spoilt(Sink)
    <3>1. MediumOrder(Sink'.medium, observed')
      BY <1>1, <1>3, <2>1, OrderStaysSpoilt DEF MediumInv
    <3> QED BY <1>3, <3>1 DEF MediumInv
  <2>2. CASE ~Spoilt(Sink)
    <3>1. MediumOrder(Sink'.medium, observed')
      BY <2>2, OrderFromText
    <3> QED BY <1>3, <3>1 DEF MediumInv
  <2> QED BY <2>1, <2>2
<1> QED BY <1>2, <1>4, <1>5

\* A step that only moves lines keeps what the invariant says of text and medium.
LEMMA CarryStep ==
    ASSUME SinkInv, CountInv, TextInv, MediumInv, AckInv, pc # "dead",
           Carries(Sink, Sink'),
           events_emitted' = events_emitted, declared' = declared,
           acknowledged' = acknowledged,
           observed' = observed \/ (observed' = observed + 1 /\ declared = "none")
    PROVE  /\ TextInv' /\ MediumInv' /\ AckInv'
           /\ Sink' \in Sinks /\ WellFormed(Sink')
           /\ Spoilt(Sink') <=> Spoilt(Sink)
           /\ Spoilt(Sink') => NoEventWaits(Sink')
<1>1. /\ WellFormed(Sink) /\ events_emitted \in Nat /\ observed \in Nat
      /\ events_emitted <= observed
  BY DEF SinkInv, CountInv
<1>2. /\ WellFormed(Sink') /\ Grows(medium, medium')
      /\ Spoilt(Sink) => StaysSpoilt(Sink, Sink')
      /\ Sink' \in Sinks
  <2>1. Sink.medium = medium /\ Sink'.medium = medium'
    BY DEF Sink
  <2> QED BY <2>1 DEF Carries, WellFormed
<1>3. AckInv'
  BY <1>1, <1>2, AckGrows
<1>4. ASSUME ~Spoilt(Sink)
      PROVE  /\ ~Spoilt(Sink')
             /\ EventsInOrder(Sink', events_emitted)
             /\ AllThere(Sink', events_emitted)
             /\ EndsAreTrue(Sink', events_emitted, observed', declared)
  <2>1. /\ ~Spoilt(Sink')
        /\ TextLen(Sink') = TextLen(Sink)
        /\ \A i \in 1..TextLen(Sink) : TextAt(Sink', i) = TextAt(Sink, i)
    BY <1>4 DEF Carries
  <2>2. /\ EventsInOrder(Sink, events_emitted) /\ AllThere(Sink, events_emitted)
        /\ EndsAreTrue(Sink, events_emitted, observed, declared)
    BY <1>4 DEF TextInv
  <2>3. EndsAreTrue(Sink, events_emitted, observed', declared)
    BY <2>2 DEF EndsAreTrue
  <2>4. TextLen(Sink) \in Nat /\ TextLen(Sink') \in Nat /\ TextLen(Sink') <= TextLen(Sink)
    <3>1. TextLen(Sink) \in Nat
      BY <1>1, SinkLengths
    <3> QED BY <2>1, <3>1
  <2>5. EventsInOrder(Sink', events_emitted) /\ EndsAreTrue(Sink', events_emitted, observed', declared)
    BY <1>1, <2>1, <2>2, <2>3, <2>4, TextBegins
  <2>6. AllThere(Sink', events_emitted)
    BY <1>1, <2>1, <2>2, TextStays
  <2> QED BY <2>1, <2>5, <2>6
<1>5. /\ events_emitted' \in Nat /\ observed' \in Nat /\ events_emitted' <= observed'
      /\ observed <= observed'
  BY <1>1
<1>6. /\ TextInv' /\ MediumInv'
      /\ Spoilt(Sink') <=> Spoilt(Sink)
      /\ Spoilt(Sink') => NoEventWaits(Sink')
  BY <1>2, <1>4, <1>5, MovesOn
<1> QED BY <1>2, <1>3, <1>6

\* A step that adds a line does, if the longer text is as the counters say.
LEMMA AddStep ==
    ASSUME SinkInv, CountInv, TextInv, MediumInv, AckInv, pc # "dead",
           NEW l, Adds(Sink, Sink', l), Spoilt(Sink) => l.kind # "event",
           ~Spoilt(Sink) /\ Extends(Sink, Sink', l)
             => /\ EventsInOrder(Sink', events_emitted')
                /\ AllThere(Sink', events_emitted')
                /\ EndsAreTrue(Sink', events_emitted', observed', declared'),
           events_emitted' \in Nat, observed' \in Nat, events_emitted' <= observed',
           observed <= observed', acknowledged' = acknowledged
    PROVE  /\ TextInv' /\ MediumInv' /\ AckInv'
           /\ Sink' \in Sinks /\ WellFormed(Sink')
           /\ Spoilt(Sink') <=> Spoilt(Sink)
           /\ Spoilt(Sink') => NoEventWaits(Sink')
<1>1. WellFormed(Sink)
  BY DEF SinkInv
<1>2. /\ WellFormed(Sink') /\ Grows(medium, medium')
      /\ Spoilt(Sink) => StaysSpoilt(Sink, Sink')
      /\ Sink' \in Sinks
  <2>1. Sink.medium = medium /\ Sink'.medium = medium'
    BY DEF Sink
  <2> QED BY <2>1 DEF Adds, WellFormed
<1>3. AckInv'
  BY <1>1, <1>2, AckGrows
<1>4. ~Spoilt(Sink) => ~Spoilt(Sink') /\ Extends(Sink, Sink', l)
  <2>1. TextLen(Sink) \in Nat
    BY <1>1, SinkLengths
  <2> QED BY <2>1 DEF Adds, Extends
<1>5. /\ TextInv' /\ MediumInv'
      /\ Spoilt(Sink') <=> Spoilt(Sink)
      /\ Spoilt(Sink') => NoEventWaits(Sink')
  BY <1>2, <1>4, MovesOn
<1> QED BY <1>2, <1>3, <1>5

\* A step that cuts a line short leaves a spoilt text and an ordered medium.
LEMMA BreakStep ==
    ASSUME SinkInv, CountInv, TextInv, AckInv, pc # "dead", ~Spoilt(Sink),
           NEW l, Breaks(Sink, Sink', l),
           l.kind = "event" => l.n = events_emitted + 1 /\ l.n <= observed',
           observed' \in Nat, observed <= observed', acknowledged' = acknowledged
    PROVE  /\ TextInv' /\ MediumInv' /\ AckInv'
           /\ Sink' \in Sinks /\ WellFormed(Sink')
           /\ Spoilt(Sink') /\ NoEventWaits(Sink')
<1>1. /\ WellFormed(Sink) /\ events_emitted \in Nat /\ observed \in Nat
      /\ events_emitted <= observed
  BY DEF SinkInv, CountInv
<1>2. Sink.medium = medium /\ Sink'.medium = medium' /\ Sink'.buffer = buffer'
  BY DEF Sink
<1>3. WellFormed(Sink') /\ Spoilt(Sink') /\ Grows(medium, medium') /\ Sink' \in Sinks
  BY <1>2 DEF Breaks, WellFormed
<1>4. NoEventWaits(Sink')
  BY DEF Breaks, NoEventWaits
<1>5. TextInv'
  BY <1>3 DEF TextInv
<1>6. MediumInv'
  <2>1. EventsInOrder(Sink, events_emitted)
    BY DEF TextInv
  <2>2. events_emitted <= observed'
    BY <1>1
  <2>3. MediumOrder(Sink'.medium, observed')
    BY <1>1, <2>1, <2>2, OrderBreaks
  <2> QED BY <1>2, <2>3 DEF MediumInv
<1>7. AckInv'
  BY <1>1, <1>3, AckGrows
<1> QED BY <1>3, <1>4, <1>5, <1>6, <1>7

\* A sink with nothing half written and nothing spoilt ends at a line.
LEMMA EndsAtLine ==
    ASSUME NEW s, WellFormed(s), ~Spoilt(s), ~s.resume
    PROVE  s.medium.tail = "eol"
BY SinkTypes DEF Spoilt, WellFormed

\* A flush, in all its places but the one that ends write_event.
LEMMA FlushStep ==
    ASSUME IInv, NEW next \in Working \cup Ending \cup Dropping, NEW failing \in Dropping,
           pc # "dead", next \notin {"start", "dead"}, failing # "dead",
           pc \in Dropping => next \in Dropping,
           next \in Working => pc \in Working,
           Call(Flushes(Sink), next, failing),
           UNCHANGED <<counters, observed, acknowledged, declared>>
    PROVE  IInv'
<1>0. SinkInv /\ CountInv /\ TextInv /\ MediumInv /\ AckInv /\ WellFormed(Sink)
  BY DEF IInv, SinkInv
<1>1. /\ Carries(Sink, Sink')
      /\ pc' = failing \/ (pc' = next /\ buffer' = <<>> /\ resume' = FALSE)
  BY <1>0, CallFlushes
<1>2. /\ events_emitted' = events_emitted /\ heartbeats' = heartbeats
      /\ observed' = observed /\ acknowledged' = acknowledged /\ declared' = declared
  BY DEF counters
<1>3. /\ TextInv' /\ MediumInv' /\ AckInv'
      /\ Sink' \in Sinks /\ WellFormed(Sink')
      /\ Spoilt(Sink') <=> Spoilt(Sink)
      /\ Spoilt(Sink') => NoEventWaits(Sink')
  BY <1>0, <1>1, <1>2, CarryStep
<1>4. CountInv'
  BY <1>0, <1>1, <1>2 DEF CountInv, Working, Ending, Dropping
<1>5. pc' \in {"start", "running"} => buffer' = <<>> /\ medium'.tail = "eol"
  <2> SUFFICES ASSUME pc' \in {"start", "running"}
               PROVE  buffer' = <<>> /\ medium'.tail = "eol"
    OBVIOUS
  <2>1. pc' = next /\ buffer' = <<>> /\ resume' = FALSE /\ pc \in Working
    BY <1>1 DEF Working, Dropping
  <2>2. ~Spoilt(Sink')
    BY <1>0, <1>3, <2>1 DEF SinkInv, Working, Dropping
  <2>3. Sink'.medium = medium' /\ ~Sink'.resume
    BY <2>1 DEF Sink
  <2> QED BY <1>3, <2>1, <2>2, <2>3, EndsAtLine
<1>6. Spoilt(Sink') => pc' \in Dropping
  BY <1>0, <1>1, <1>3 DEF SinkInv
<1>7. SinkInv'
  <2>1. pc' # "dead"
    BY <1>1
  <2> QED BY <1>3, <1>5, <1>6, <2>1 DEF SinkInv
<1> QED BY <1>3, <1>4, <1>7 DEF IInv

\* A heartbeat is written; it changes no counter the text speaks of.
LEMMA HeartbeatStep ==
    ASSUME IInv, NEW from \in Working, NEW next \in Working \ {"start", "running"},
           HeartbeatWrites(from, next)
    PROVE  IInv'
<1>0. /\ SinkInv /\ CountInv /\ TextInv /\ MediumInv /\ AckInv
      /\ pc \in Working /\ pc # "dead" /\ pc \notin Dropping
  BY DEF IInv, HeartbeatWrites, Working, Dropping
<1>1. WellFormed(Sink) /\ ~Spoilt(Sink)
  BY <1>0 DEF SinkInv
<1>2. {events_emitted, heartbeats, observed, acknowledged} \subseteq Nat
      /\ events_emitted <= observed
  BY <1>0 DEF CountInv
<1>3. /\ events_emitted' = events_emitted /\ heartbeats' = heartbeats + 1
      /\ observed' = observed /\ acknowledged' = acknowledged /\ declared' = declared
  BY DEF HeartbeatWrites
<1>4. HeartbeatLine \in TextLines
  BY <1>2, WriterLines
<1>5. \/ pc' = next /\ Adds(Sink, Sink', HeartbeatLine)
      \/ pc' = "drop" /\ Carries(Sink, Sink')
  BY <1>1, <1>4, CallWritesShort DEF HeartbeatWrites
<1>6. CASE pc' = next /\ Adds(Sink, Sink', HeartbeatLine)
  <2>1. HeartbeatLine.kind # "event" /\ HeartbeatLine.kind \notin EndKinds
    BY DEF HeartbeatLine, Line, EndKinds
  <2>2. /\ EventsInOrder(Sink, events_emitted) /\ AllThere(Sink, events_emitted)
        /\ EndsAreTrue(Sink, events_emitted, observed, declared)
    BY <1>0, <1>1 DEF TextInv
  <2>3. Extends(Sink, Sink', HeartbeatLine)
          => /\ EventsInOrder(Sink', events_emitted)
             /\ AllThere(Sink', events_emitted)
             /\ EndsAreTrue(Sink', events_emitted, observed, declared)
    BY <1>2, <2>1, <2>2, OtherLine, LongerText
  <2>4. /\ TextInv' /\ MediumInv' /\ AckInv'
        /\ Sink' \in Sinks /\ WellFormed(Sink') /\ ~Spoilt(Sink')
    BY <1>0, <1>1, <1>2, <1>3, <1>6, <2>1, <2>3, AddStep
  <2>5. CountInv'
    BY <1>0, <1>2, <1>3, <1>6 DEF CountInv, Working, Dropping
  <2>6. SinkInv'
    <3>1. pc' # "dead" /\ pc' \notin {"start", "running"}
      BY <1>6 DEF Working
    <3> QED BY <2>4, <3>1 DEF SinkInv
  <2> QED BY <2>4, <2>5, <2>6 DEF IInv
<1>7. CASE pc' = "drop" /\ Carries(Sink, Sink')
  <2>1. /\ TextInv' /\ MediumInv' /\ AckInv'
        /\ Sink' \in Sinks /\ WellFormed(Sink') /\ ~Spoilt(Sink')
    BY <1>0, <1>1, <1>3, <1>7, CarryStep
  <2>2. CountInv'
    BY <1>0, <1>2, <1>3, <1>7 DEF CountInv, Working, Ending, Dropping
  <2>3. SinkInv'
    BY <1>7, <2>1 DEF SinkInv
  <2> QED BY <2>1, <2>2, <2>3 DEF IInv
<1> QED BY <1>5, <1>6, <1>7

\* An end is written, by finish_* or by Drop.
LEMMA EndStep ==
    ASSUME IInv, NEW v \in EndKinds, NEW next \in {"end_flush", "drop_flush"},
           NEW failing \in {"drop", "drop_flush"},
           \/ pc = "running" /\ next = "end_flush" /\ declared' = v
           \/ /\ pc = "drop" /\ next = "drop_flush" /\ v = "partial"
              /\ declared' = IF declared = "none" THEN "partial" ELSE declared,
           Call(WritesShort(Sink, EndLine(v)), next, failing),
           UNCHANGED <<counters, observed, acknowledged>>
    PROVE  IInv'
<1>0. SinkInv /\ CountInv /\ TextInv /\ MediumInv /\ AckInv /\ pc # "dead"
  BY DEF IInv
<1>1. WellFormed(Sink) /\ (pc = "running" => ~Spoilt(Sink))
  BY <1>0 DEF SinkInv, Dropping
<1>2. /\ {events_emitted, heartbeats, observed, acknowledged} \subseteq Nat
      /\ events_emitted <= observed /\ acknowledged <= observed
      /\ pc = "running" => declared = "none" /\ observed = events_emitted
      /\ declared \in {"none"} \cup EndKinds
  BY <1>0 DEF CountInv, Working
<1>3. /\ events_emitted' = events_emitted /\ heartbeats' = heartbeats
      /\ observed' = observed /\ acknowledged' = acknowledged
  BY DEF counters
<1>4. EndLine(v) \in TextLines /\ EndLine(v).kind # "event"
  <2>1. EndLine(v) \in TextLines
    BY <1>2, WriterLines
  <2> QED BY <2>1 DEF EndLine, Line, EndKinds
<1>5. \/ pc' = next /\ Adds(Sink, Sink', EndLine(v))
      \/ pc' = failing /\ Carries(Sink, Sink')
  BY <1>1, <1>4, CallWritesShort
<1>6. /\ declared' \in EndKinds /\ declared' # "none"
      /\ declared # "none" => declared' = declared
      /\ v = "complete" => declared = "none" /\ declared' = "complete"
                            /\ observed = events_emitted
  BY <1>2 DEF EndKinds
<1>c. CountInv'
  BY <1>0, <1>2, <1>3, <1>5, <1>6 DEF CountInv, Working, Ending, Dropping
<1>7. CASE pc' = next /\ Adds(Sink, Sink', EndLine(v))
  <2>1. ASSUME ~Spoilt(Sink), Extends(Sink, Sink', EndLine(v))
        PROVE  /\ EventsInOrder(Sink', events_emitted)
               /\ AllThere(Sink', events_emitted)
               /\ EndsAreTrue(Sink', events_emitted, observed, declared')
    <3>1. /\ EventsInOrder(Sink, events_emitted) /\ AllThere(Sink, events_emitted)
          /\ EndsAreTrue(Sink, events_emitted, observed, declared)
      BY <1>0, <2>1 DEF TextInv
    <3>2. Extends(Sink, Sink', Line(v, events_emitted, heartbeats))
      BY <2>1 DEF EndLine
    <3>3. AllThere(Sink', events_emitted)
      BY <1>2, <3>1, <3>2, LongerText
    <3> QED BY <1>2, <1>6, <3>1, <3>2, <3>3, NextEnd
  <2>2. /\ TextInv' /\ MediumInv' /\ AckInv'
        /\ Sink' \in Sinks /\ WellFormed(Sink')
        /\ Spoilt(Sink') <=> Spoilt(Sink)
        /\ Spoilt(Sink') => NoEventWaits(Sink')
    BY <1>0, <1>2, <1>3, <1>4, <1>7, <2>1, AddStep
  <2>3. SinkInv'
    <3>1. pc' \notin {"dead", "start", "running"}
      BY <1>7
    <3>2. Spoilt(Sink') => pc' \in Dropping
      BY <1>1, <1>7, <2>2 DEF Dropping
    <3> QED BY <2>2, <3>1, <3>2 DEF SinkInv
  <2> QED BY <1>c, <2>2, <2>3 DEF IInv
<1>8. CASE pc' = failing /\ Carries(Sink, Sink')
  <2> DEFINE said == declared'
  <2>1. /\ Grows(medium, medium') /\ WellFormed(Sink') /\ Sink' \in Sinks
    <3>1. Sink.medium = medium /\ Sink'.medium = medium'
      BY DEF Sink
    <3> QED BY <1>8, <3>1 DEF Carries, WellFormed
  <2>2. AckInv'
    BY <1>0, <1>1, <1>3, <2>1, AckGrows
  <2>3. ASSUME ~Spoilt(Sink)
        PROVE  /\ ~Spoilt(Sink')
               /\ EventsInOrder(Sink', events_emitted)
               /\ AllThere(Sink', events_emitted)
               /\ EndsAreTrue(Sink', events_emitted, observed, declared')
    <3>1. /\ ~Spoilt(Sink')
          /\ TextLen(Sink') = TextLen(Sink)
          /\ \A i \in 1..TextLen(Sink) : TextAt(Sink', i) = TextAt(Sink, i)
      BY <1>8, <2>3 DEF Carries
    <3>2. /\ EventsInOrder(Sink, events_emitted) /\ AllThere(Sink, events_emitted)
          /\ EndsAreTrue(Sink, events_emitted, observed, declared)
      BY <1>0, <2>3 DEF TextInv
    <3>3. EndsAreTrue(Sink, events_emitted, observed, declared')
      BY <1>6, <3>2 DEF EndsAreTrue
    <3>4. TextLen(Sink) \in Nat /\ TextLen(Sink') \in Nat /\ TextLen(Sink') <= TextLen(Sink)
      <4>1. TextLen(Sink) \in Nat
        BY <1>1, SinkLengths
      <4> QED BY <3>1, <4>1
    <3>5. /\ EventsInOrder(Sink', events_emitted)
          /\ EndsAreTrue(Sink', events_emitted, observed, declared')
      BY <1>2, <3>1, <3>2, <3>3, <3>4, TextBegins
    <3>6. AllThere(Sink', events_emitted)
      BY <1>2, <3>1, <3>2, TextStays
    <3> QED BY <3>1, <3>5, <3>6
  <2>4. /\ events_emitted' \in Nat /\ observed' \in Nat /\ events_emitted' <= observed'
        /\ observed <= observed'
    BY <1>2, <1>3
  <2>5. Spoilt(Sink) => StaysSpoilt(Sink, Sink')
    BY <1>8 DEF Carries
  <2>6. /\ TextInv' /\ MediumInv'
        /\ Spoilt(Sink') <=> Spoilt(Sink)
        /\ Spoilt(Sink') => NoEventWaits(Sink')
    BY <1>0, <1>3, <2>1, <2>3, <2>4, <2>5, MovesOn
  <2>7. SinkInv'
    <3>1. pc' \notin {"dead", "start", "running"} /\ pc' \in Dropping
      BY <1>8 DEF Dropping
    <3> QED BY <2>1, <2>6, <3>1 DEF SinkInv
  <2> QED BY <1>c, <2>2, <2>6, <2>7 DEF IInv
<1> QED BY <1>5, <1>7, <1>8

\* The first line of the stream, or the line of an event, is written.
LEMMA FirstStep ==
    ASSUME IInv, StartWrites
    PROVE  IInv'
<1>0. /\ SinkInv /\ CountInv /\ TextInv /\ MediumInv /\ AckInv
      /\ pc = "start" /\ pc # "dead" /\ pc \in Working
  BY DEF IInv, StartWrites, Working
<1>1. WellFormed(Sink) /\ ~Spoilt(Sink)
  BY <1>0 DEF SinkInv, Dropping
<1>2. /\ {events_emitted, heartbeats, observed, acknowledged} \subseteq Nat
      /\ events_emitted <= observed
  BY <1>0 DEF CountInv
<1>3. /\ events_emitted' = events_emitted /\ heartbeats' = heartbeats
      /\ observed' = observed /\ acknowledged' = acknowledged /\ declared' = declared
  BY DEF StartWrites, counters
<1>4. /\ StartLine \in TextLines
      /\ StartLine.kind # "event" /\ StartLine.kind \notin EndKinds
  <2>1. StartLine \in TextLines
    BY <1>2, WriterLines
  <2> QED BY <2>1 DEF StartLine, Line, EndKinds
<1>5. \/ pc' = "start_flush" /\ Adds(Sink, Sink', StartLine)
      \/ pc' = "unbuffer" /\ Carries(Sink, Sink')
      \/ pc' = "unbuffer" /\ Breaks(Sink, Sink', StartLine)
  BY <1>1, <1>4, CallWrites DEF StartWrites
<1>c. CountInv'
  BY <1>0, <1>2, <1>3, <1>5 DEF CountInv, Working, Ending, Dropping
<1>6. CASE pc' = "start_flush" /\ Adds(Sink, Sink', StartLine)
  <2>1. /\ EventsInOrder(Sink, events_emitted) /\ AllThere(Sink, events_emitted)
        /\ EndsAreTrue(Sink, events_emitted, observed, declared)
    BY <1>0, <1>1 DEF TextInv
  <2>2. Extends(Sink, Sink', StartLine)
          => /\ EventsInOrder(Sink', events_emitted)
             /\ AllThere(Sink', events_emitted)
             /\ EndsAreTrue(Sink', events_emitted, observed, declared)
    BY <1>2, <1>4, <2>1, OtherLine, LongerText
  <2>3. /\ TextInv' /\ MediumInv' /\ AckInv'
        /\ Sink' \in Sinks /\ WellFormed(Sink') /\ ~Spoilt(Sink')
    BY <1>0, <1>1, <1>2, <1>3, <1>4, <1>6, <2>2, AddStep
  <2>4. SinkInv'
    BY <1>6, <2>3 DEF SinkInv
  <2> QED BY <1>c, <2>3, <2>4 DEF IInv
<1>7. CASE pc' = "unbuffer" /\ Carries(Sink, Sink')
  <2>1. /\ TextInv' /\ MediumInv' /\ AckInv'
        /\ Sink' \in Sinks /\ WellFormed(Sink') /\ ~Spoilt(Sink')
    BY <1>0, <1>1, <1>3, <1>7, CarryStep
  <2>2. SinkInv'
    BY <1>7, <2>1 DEF SinkInv
  <2> QED BY <1>c, <2>1, <2>2 DEF IInv
<1>8. CASE pc' = "unbuffer" /\ Breaks(Sink, Sink', StartLine)
  <2>1. /\ TextInv' /\ MediumInv' /\ AckInv'
        /\ Sink' \in Sinks /\ WellFormed(Sink')
        /\ Spoilt(Sink') /\ NoEventWaits(Sink')
    BY <1>0, <1>1, <1>2, <1>3, <1>4, <1>8, BreakStep
  <2>2. SinkInv'
    BY <1>8, <2>1 DEF SinkInv, Dropping
  <2> QED BY <1>c, <2>1, <2>2 DEF IInv
<1> QED BY <1>5, <1>6, <1>7, <1>8

\* write_event writes its line: counted if it is in the text, else the writer is dropped.
LEMMA EventStep ==
    ASSUME IInv, WriteEvent
    PROVE  IInv'
<1>0. /\ SinkInv /\ CountInv /\ TextInv /\ MediumInv /\ AckInv
      /\ pc = "running" /\ pc # "dead" /\ pc \in Working
  BY DEF IInv, WriteEvent, Working
<1>1. WellFormed(Sink) /\ ~Spoilt(Sink)
  BY <1>0 DEF SinkInv, Dropping
<1>2. /\ {events_emitted, heartbeats, observed, acknowledged} \subseteq Nat
      /\ observed = events_emitted /\ acknowledged <= observed /\ declared = "none"
  BY <1>0 DEF CountInv
<1>3. /\ events_emitted' = IF pc' = "counted" THEN events_emitted + 1 ELSE events_emitted
      /\ heartbeats' = heartbeats /\ observed' = observed + 1
      /\ acknowledged' = acknowledged /\ declared' = declared
  BY DEF WriteEvent
<1>4. /\ EventLine \in TextLines /\ EventLine.kind = "event"
      /\ EventLine.n = events_emitted + 1
      /\ EventLine = Line("event", events_emitted + 1, 0)
  <2>1. EventLine \in TextLines
    BY <1>2, WriterLines
  <2>2. EventLine = Line("event", events_emitted + 1, 0)
    BY <1>2 DEF EventLine
  <2> QED BY <2>1, <2>2 DEF Line
<1>5. \/ pc' = "counted" /\ Adds(Sink, Sink', EventLine)
      \/ pc' = "drop" /\ Carries(Sink, Sink')
      \/ pc' = "drop" /\ Breaks(Sink, Sink', EventLine)
  BY <1>1, <1>4, CallWrites DEF WriteEvent
<1>n. /\ events_emitted' \in Nat /\ observed' \in Nat /\ events_emitted' <= observed'
      /\ observed <= observed' /\ acknowledged' <= observed'
      /\ pc' = "counted" => observed' = events_emitted'
  BY <1>2, <1>3
<1>c. CountInv'
  BY <1>0, <1>2, <1>3, <1>5, <1>n DEF CountInv, Working, Ending, Dropping
<1>6. CASE pc' = "counted" /\ Adds(Sink, Sink', EventLine)
  <2>1. /\ EventsInOrder(Sink, events_emitted) /\ AllThere(Sink, events_emitted)
        /\ EndsAreTrue(Sink, events_emitted, observed, "none")
    BY <1>0, <1>1, <1>2 DEF TextInv
  <2>2. events_emitted' = events_emitted + 1 /\ declared' = "none"
    BY <1>2, <1>3, <1>6
  <2>3. Extends(Sink, Sink', EventLine)
          => /\ EventsInOrder(Sink', events_emitted + 1)
             /\ AllThere(Sink', events_emitted + 1)
             /\ EndsAreTrue(Sink', events_emitted + 1, observed', "none")
    BY <1>2, <1>4, <2>1, NextEvent
  <2>4. /\ TextInv' /\ MediumInv' /\ AckInv'
        /\ Sink' \in Sinks /\ WellFormed(Sink') /\ ~Spoilt(Sink')
    BY <1>0, <1>1, <1>3, <1>6, <1>n, <2>2, <2>3, AddStep
  <2>5. SinkInv'
    BY <1>6, <2>4 DEF SinkInv
  <2> QED BY <1>c, <2>4, <2>5 DEF IInv
<1>7. CASE pc' = "drop" /\ Carries(Sink, Sink')
  <2>1. events_emitted' = events_emitted
    BY <1>3, <1>7
  <2>2. /\ TextInv' /\ MediumInv' /\ AckInv'
        /\ Sink' \in Sinks /\ WellFormed(Sink') /\ ~Spoilt(Sink')
    BY <1>0, <1>1, <1>2, <1>3, <1>7, <2>1, CarryStep
  <2>3. SinkInv'
    BY <1>7, <2>2 DEF SinkInv
  <2> QED BY <1>c, <2>2, <2>3 DEF IInv
<1>8. CASE pc' = "drop" /\ Breaks(Sink, Sink', EventLine)
  <2>1. EventLine.n <= observed'
    BY <1>2, <1>3, <1>4
  <2>2. /\ TextInv' /\ MediumInv' /\ AckInv'
        /\ Sink' \in Sinks /\ WellFormed(Sink')
        /\ Spoilt(Sink') /\ NoEventWaits(Sink')
    BY <1>0, <1>1, <1>3, <1>4, <1>8, <1>n, <2>1, BreakStep
  <2>3. SinkInv'
    BY <1>8, <2>2 DEF SinkInv, Dropping
  <2> QED BY <1>c, <2>2, <2>3 DEF IInv
<1> QED BY <1>5, <1>6, <1>7, <1>8

\* The flush that ends write_event: from here on the event is acknowledged.
LEMMA AcknowledgeStep ==
    ASSUME IInv, EventFlushes
    PROVE  IInv'
<1>0. /\ SinkInv /\ CountInv /\ TextInv /\ MediumInv /\ AckInv
      /\ pc = "event_flush" /\ pc # "dead" /\ pc \in Working
  BY DEF IInv, EventFlushes, Working
<1>1. WellFormed(Sink) /\ ~Spoilt(Sink)
  BY <1>0 DEF SinkInv, Dropping
<1>2. /\ {events_emitted, heartbeats, observed, acknowledged} \subseteq Nat
      /\ observed = events_emitted /\ acknowledged <= observed /\ declared = "none"
  BY <1>0 DEF CountInv
<1>3. /\ events_emitted' = events_emitted /\ heartbeats' = heartbeats
      /\ observed' = observed /\ declared' = declared
      /\ acknowledged' = IF pc' = "running" THEN observed ELSE acknowledged
  BY DEF EventFlushes, counters
<1>4. /\ Carries(Sink, Sink')
      /\ pc' = "drop" \/ (pc' = "running" /\ buffer' = <<>> /\ resume' = FALSE)
  BY <1>1, CallFlushes DEF EventFlushes
<1>5. /\ WellFormed(Sink') /\ Grows(medium, medium') /\ Sink' \in Sinks
      /\ ~Spoilt(Sink')
      /\ TextLen(Sink') = TextLen(Sink)
      /\ \A i \in 1..TextLen(Sink) : TextAt(Sink', i) = TextAt(Sink, i)
  <2>1. Sink.medium = medium /\ Sink'.medium = medium'
    BY DEF Sink
  <2> QED BY <1>1, <1>4, <2>1 DEF Carries, WellFormed
<1>6. /\ EventsInOrder(Sink, events_emitted) /\ AllThere(Sink, events_emitted)
      /\ EndsAreTrue(Sink, events_emitted, observed, declared)
  BY <1>0, <1>1 DEF TextInv
<1>7. TextLen(Sink') \in Nat
  BY <1>5, SinkLengths
<1>8. /\ EventsInOrder(Sink', events_emitted) /\ AllThere(Sink', events_emitted)
      /\ EndsAreTrue(Sink', events_emitted, observed, declared)
  <2>1. TextLen(Sink) \in Nat /\ TextLen(Sink') <= TextLen(Sink)
    BY <1>5, <1>7
  <2>2. \A i \in 1..TextLen(Sink') : TextAt(Sink', i) = TextAt(Sink, i)
    BY <1>5
  <2>3. EventsInOrder(Sink', events_emitted) /\ EndsAreTrue(Sink', events_emitted, observed, declared)
    BY <1>2, <1>6, <1>7, <2>1, <2>2, TextBegins
  <2>4. AllThere(Sink', events_emitted)
    BY <1>2, <1>5, <1>6, TextStays
  <2> QED BY <2>3, <2>4
<1>9. TextInv' /\ MediumInv'
  <2>1. TextInv'
    BY <1>3, <1>8 DEF TextInv
  <2>2. MediumOrder(Sink'.medium, observed)
    BY <1>2, <1>5, <1>8, OrderFromText
  <2> QED BY <1>3, <2>1, <2>2 DEF MediumInv, Sink
<1>10. CASE pc' = "drop"
  <2>1. CountInv'
    BY <1>2, <1>3, <1>10 DEF CountInv, Working, Ending, Dropping
  <2>2. SinkInv'
    BY <1>5, <1>10 DEF SinkInv
  <2>3. AckInv'
    BY <1>0, <1>1, <1>3, <1>5, <1>10, AckGrows
  <2> QED BY <1>9, <2>1, <2>2, <2>3 DEF IInv
<1>11. CASE pc' = "running" /\ buffer' = <<>> /\ resume' = FALSE
  <2>0. Sink'.medium = medium' /\ Sink'.buffer = <<>> /\ Sink'.resume = FALSE
    BY <1>11 DEF Sink
  <2>1. medium'.tail = "eol"
    BY <1>5, <2>0, EndsAtLine
  <2>2. CountInv'
    BY <1>2, <1>3, <1>11 DEF CountInv, Working, Ending, Dropping
  <2>3. SinkInv'
    BY <1>5, <1>11, <2>1 DEF SinkInv
  <2>4. AckInv'
    <3>1. TextLen(Sink') = Len(medium'.lines) /\ DOMAIN medium'.lines = 1..Len(medium'.lines)
      <4>1. Len(Sink'.buffer) = 0 /\ Half(Sink') = 0
        BY <2>0 DEF Half
      <4>2. Len(medium'.lines) \in Nat
        BY <1>5, <2>0, SinkLengths
      <4> QED BY <1>5, <2>0, <4>1, <4>2, SinkTypes DEF TextLen
    <3>2. ASSUME NEW n \in 1..observed
          PROVE  \E i \in DOMAIN medium'.lines :
                    medium'.lines[i] = Line("event", n, 0) /\ Whole(medium', i)
      <4>1. PICK i \in 1..TextLen(Sink') : HasEvent(Sink', i, n)
        BY <1>2, <1>8, <3>2 DEF AllThere
      <4>2. medium'.lines[i] = Line("event", n, 0)
        BY <2>0, <3>1, <4>1 DEF HasEvent, TextAt
      <4> QED BY <2>1, <3>1, <4>2 DEF Whole
    <3> QED BY <1>3, <1>11, <3>2 DEF AckInv
  <2> QED BY <1>9, <2>2, <2>3, <2>4 DEF IInv
<1> QED BY <1>4, <1>10, <1>11

\* The recorder is killed: the buffer goes, what reached the medium stays.
LEMMA KilledStep ==
    ASSUME IInv, Killed
    PROVE  IInv'
<1>0. /\ SinkInv /\ CountInv /\ TextInv /\ MediumInv /\ AckInv
      /\ pc # "dead"
  BY DEF IInv, Killed, Stopped
<1>1. WellFormed(Sink) /\ (Spoilt(Sink) => NoEventWaits(Sink))
  BY <1>0 DEF SinkInv
<1>2. /\ {events_emitted, heartbeats, observed, acknowledged} \subseteq Nat
      /\ events_emitted <= observed
  BY <1>0 DEF CountInv
<1>3. /\ events_emitted' = events_emitted /\ heartbeats' = heartbeats
      /\ observed' = observed /\ acknowledged' = acknowledged /\ declared' = declared
      /\ pc' = "dead" /\ buffer' = <<>> /\ resume' = FALSE
  BY DEF Killed, counters
<1>4. PICK s \in Flushes(Sink) : medium' = s.medium
  BY DEF Killed
<1>5. Carries(Sink, s) /\ WellFormed(s)
  <2>1. Carries(Sink, s)
    BY <1>1, <1>4, FlushesCarry DEF Flushes
  <2> QED BY <2>1 DEF Carries
<1>6. /\ Sink'.medium = medium' /\ Sink'.buffer = <<>> /\ Sink'.resume = FALSE
      /\ Sink.medium = medium /\ Sink' \in Sinks
  <2>1. s.medium \in Media /\ <<>> \in Seq(TextLines)
    BY <1>5, SinkTypes
  <2>2. Sink' = [medium |-> medium', buffer |-> <<>>, resume |-> FALSE, ok |-> TRUE]
    BY <1>3 DEF Sink
  <2> QED BY <1>4, <2>1, <2>2 DEF Sink, Sinks
<1>7. AckInv'
  <2>1. Grows(medium, medium')
    BY <1>4, <1>5, <1>6 DEF Carries
  <2> QED BY <1>0, <1>1, <1>3, <1>6, <2>1, AckGrows
<1>8. NoEventWaits(Sink')
  BY <1>6 DEF NoEventWaits
<1>9. CountInv'
  BY <1>0, <1>2, <1>3 DEF CountInv, Working, Ending, Dropping
<1>10. SinkInv'
  BY <1>3, <1>6, <1>8 DEF SinkInv, Dropping
<1>11. CASE Spoilt(Sink)
  <2>1. StaysSpoilt(Sink, s) /\ Spoilt(s)
    BY <1>5, <1>11 DEF Carries, StaysSpoilt
  <2>2. Spoilt(Sink')
    BY <1>4, <1>6, <2>1 DEF Spoilt
  <2>3. MediumOrder(s.medium, observed)
    <3>1. MediumOrder(Sink.medium, observed)
      BY <1>0, <1>6 DEF MediumInv
    <3> QED BY <1>1, <1>2, <1>5, <1>11, <2>1, <3>1, OrderStaysSpoilt
  <2>4. TextInv' /\ MediumInv'
    BY <1>3, <1>4, <2>2, <2>3 DEF TextInv, MediumInv
  <2> QED BY <1>7, <1>9, <1>10, <2>4 DEF IInv
<1>12. CASE ~Spoilt(Sink)
  <2>1. /\ ~Spoilt(s) /\ TextLen(s) = TextLen(Sink)
        /\ \A i \in 1..TextLen(Sink) : TextAt(s, i) = TextAt(Sink, i)
    BY <1>5, <1>12 DEF Carries
  <2>2. /\ EventsInOrder(Sink, events_emitted)
        /\ EndsAreTrue(Sink, events_emitted, observed, declared)
    BY <1>0, <1>12 DEF TextInv
  <2>3. TextLen(s) \in Nat
    BY <1>5, SinkLengths
  <2>4. TextLen(Sink) \in Nat /\ TextLen(s) <= TextLen(Sink)
    BY <2>1, <2>3
  <2>5. EventsInOrder(s, events_emitted) /\ EndsAreTrue(s, events_emitted, observed, declared)
    BY <1>2, <2>1, <2>2, <2>3, <2>4, TextBegins
  <2>6. MediumInv'
    <3>1. MediumOrder(s.medium, observed)
      BY <1>2, <1>5, <2>1, <2>5, OrderFromText
    <3> QED BY <1>3, <1>4, <3>1 DEF MediumInv
  <2>7. PICK n \in Nat, k \in Nat, h \in Nat :
           /\ n = Len(s.medium.lines) /\ k = Len(s.buffer) /\ h = Half(s)
           /\ h <= k /\ TextLen(s) = n + k - h
    BY <1>5, SinkLengths
  <2>8. TextLen(Sink') = n
    <3>1. Len(Sink'.buffer) = 0 /\ Half(Sink') = 0 /\ Len(Sink'.medium.lines) = n
      BY <1>4, <1>6, <2>7 DEF Half
    <3> QED BY <3>1 DEF TextLen
  <2>9. n \in Nat /\ n <= TextLen(s)
    <3>1. n <= n + k - h
      <4>1. h <= k
        BY <2>7
      <4> QED BY <4>1
    <3> QED BY <2>7, <3>1
  <2>10. \A i \in 1..n : TextAt(Sink', i) = TextAt(s, i)
    BY <1>4, <1>6, <2>7 DEF TextAt
  <2>11. /\ EventsInOrder(Sink', events_emitted)
         /\ EndsAreTrue(Sink', events_emitted, observed, declared)
    BY <1>2, <2>3, <2>5, <2>8, <2>9, <2>10, TextBegins
  <2>12. TextInv'
    BY <1>3, <2>11 DEF TextInv
  <2> QED BY <1>7, <1>9, <1>10, <2>6, <2>12 DEF IInv
<1> QED BY <1>11, <1>12

\* The writer moves on without touching its sink.
LEMMA IdleStep ==
    ASSUME IInv, UNCHANGED <<sink, counters, observed, acknowledged, declared>>,
           \/ pc' = pc
           \/ pc = "counted" /\ pc' = "event_flush"
           \/ pc = "running" /\ pc' = "drop"
    PROVE  IInv'
<1>1. /\ medium' = medium /\ buffer' = buffer /\ resume' = resume
      /\ events_emitted' = events_emitted /\ heartbeats' = heartbeats
      /\ observed' = observed /\ acknowledged' = acknowledged /\ declared' = declared
  BY DEF sink, counters
<1>2. Sink' = Sink
  BY <1>1 DEF Sink
<1>3. SinkInv'
  BY <1>1, <1>2 DEF IInv, SinkInv, Dropping
<1>4. CountInv'
  BY <1>1 DEF IInv, CountInv, Working, Ending, Dropping
<1>5. TextInv'
  BY <1>1, <1>2 DEF IInv, TextInv
<1>6. MediumInv' /\ AckInv'
  BY <1>1 DEF IInv, MediumInv, AckInv
<1> QED BY <1>3, <1>4, <1>5, <1>6 DEF IInv

\* The invariant holds before SessionWriter::start.
LEMMA Starts == Init => IInv
<1> SUFFICES ASSUME Init PROVE IInv
  OBVIOUS
<1>1. /\ Sink = [medium |-> [lines |-> <<>>, tail |-> "eol"], buffer |-> <<>>,
                 resume |-> FALSE, ok |-> TRUE]
      /\ medium.lines = <<>> /\ medium.tail = "eol" /\ buffer = <<>> /\ resume = FALSE
      /\ events_emitted = 0 /\ heartbeats = 0 /\ observed = 0 /\ acknowledged = 0
      /\ declared = "none" /\ pc = "start"
  BY DEF Init, Sink
<1>2. Sink \in Sinks /\ WellFormed(Sink)
  BY <1>1 DEF Sinks, Media, WellFormed
<1>3. ~Spoilt(Sink)
  BY <1>1 DEF Spoilt, Garbled
<1>4. TextLen(Sink) = 0
  <2>1. Half(Sink) = 0 /\ Len(Sink.medium.lines) = 0 /\ Len(Sink.buffer) = 0
    BY <1>1 DEF Half
  <2> QED BY <2>1 DEF TextLen
<1>5. SinkInv
  BY <1>1, <1>2, <1>3 DEF SinkInv
<1>6. CountInv
  BY <1>1 DEF CountInv, Working, EndKinds
<1>7. TextInv
  BY <1>1, <1>4 DEF TextInv, EventsInOrder, AllThere, EndsAreTrue
<1>8. MediumInv /\ AckInv
  BY <1>1 DEF MediumInv, MediumOrder, AckInv
<1> QED BY <1>5, <1>6, <1>7, <1>8 DEF IInv

\* Every step of the writer, its file and its death preserves the invariant.
LEMMA Steps == IInv /\ [Next]_vars => IInv'
<1> SUFFICES ASSUME IInv, [Next]_vars PROVE IInv'
  OBVIOUS
<1>1. CASE StartWrites
  BY <1>1, FirstStep
<1>2. CASE StartFlushes
  BY <1>2, FlushStep DEF StartFlushes, Working, Dropping
<1>3. CASE WriteEvent
  BY <1>3, EventStep
<1>4. CASE NoHeartbeat
  BY <1>4, IdleStep DEF NoHeartbeat
<1>5. CASE HeartbeatWrites("counted", "beat_flush")
  BY <1>5, HeartbeatStep DEF Working
<1>6. CASE HeartbeatFlushes("beat_flush", "event_flush")
  BY <1>6, FlushStep DEF HeartbeatFlushes, Working, Dropping
<1>7. CASE HeartbeatWrites("running", "forced_flush")
  BY <1>7, HeartbeatStep DEF Working
<1>8. CASE HeartbeatFlushes("forced_flush", "running")
  BY <1>8, FlushStep DEF HeartbeatFlushes, Working, Dropping
<1>9. CASE EventFlushes
  BY <1>9, AcknowledgeStep
<1>10. ASSUME NEW v \in EndKinds, FinishWrites(v) PROVE IInv'
  BY <1>10, EndStep DEF FinishWrites
<1>11. CASE EndFlushes
  BY <1>11, FlushStep DEF EndFlushes, Working, Ending, Dropping
<1>12. CASE Abandon
  BY <1>12, IdleStep DEF Abandon
<1>13. CASE DropWrites
  BY <1>13, EndStep DEF DropWrites, DropVerdict, EndKinds
<1>14. CASE DropFlushes
  BY <1>14, FlushStep DEF DropFlushes, Working, Dropping
<1>15. CASE Unbuffer
  BY <1>15, FlushStep DEF Unbuffer, Working, Dropping
<1>16. CASE Killed
  BY <1>16, KilledStep
<1>17. CASE Done \/ UNCHANGED vars
  BY <1>17, IdleStep DEF Done, vars, sink, counters
<1> QED BY <1>1, <1>2, <1>3, <1>4, <1>5, <1>6, <1>7, <1>8, <1>9, <1>10, <1>11,
           <1>12, <1>13, <1>14, <1>15, <1>16, <1>17 DEF Next

\* The invariant of the writer over its failing file holds throughout.
LEMMA Invariant == Spec => []IInv
<1> QED BY Starts, Steps, PTL DEF Spec

-----------------------------------------------------------------------------
(* What a reader finds                                                     *)

\* A set of natural numbers has a least member.
LEMMA Least ==
    ASSUME NEW S, S \subseteq Nat, S # {}
    PROVE  \E n \in S : \A m \in S : n <= m
<1> DEFINE LessThan == {pair \in Nat \X Nat : pair[1] < pair[2]}
<1>1. IsWellFoundedOn(LessThan, Nat)
  <2>1. OpToRel(<, Nat) = LessThan
    BY Zenon DEF OpToRel
  <2> QED BY <2>1, NatLessThanWellFounded, Zenon
<1> HIDE DEF LessThan
<1>2. PICK n \in S : \A m \in S : ~ (<<m, n>> \in LessThan)
  BY <1>1, WFMin
<1>3. ASSUME NEW m \in S PROVE n <= m
  <2>1. ~ (m < n)
    BY <1>2 DEF LessThan
  <2> QED BY <2>1
<1> QED BY <1>3

\* A set of line numbers has a last one.
LEMMA LastOne ==
    ASSUME NEW n \in Nat, NEW S, S \subseteq 1..n, S # {}
    PROVE  \E i \in S : \A j \in S : j <= i
<1> DEFINE T == {n - i : i \in S}
<1>0. ASSUME NEW i \in S PROVE n - i \in Nat
  <2>1. i \in 1..n
    OBVIOUS
  <2> QED BY <2>1
<1>1. T \subseteq Nat /\ T # {}
  BY <1>0
<1>2. PICK k \in T : \A m \in T : k <= m
  BY <1>1, Least
<1>3. PICK i \in S : k = n - i
  BY <1>2
<1>4. ASSUME NEW j \in S PROVE j <= i
  <2>1. i \in Nat /\ j \in Nat
    OBVIOUS
  <2>2. n - i <= n - j
    BY <1>2, <1>3
  <2> QED BY <2>1, <2>2
<1> QED BY <1>4

\* A medium that parses is the beginning of a text not spoilt.
LEMMA MediumBegins ==
    ASSUME IInv, Parses
    PROVE  /\ ~Spoilt(Sink)
           /\ Len(medium.lines) \in Nat /\ TextLen(Sink) \in Nat
           /\ DOMAIN medium.lines = 1..Len(medium.lines)
           /\ \A i \in 1..Len(medium.lines) :
                 i \in 1..TextLen(Sink) /\ TextAt(Sink, i) = medium.lines[i]
<1>1. /\ Sink \in Sinks
      /\ pc # "dead" => WellFormed(Sink)
      /\ pc = "dead" => buffer = <<>> /\ ~resume
  BY DEF IInv, SinkInv
<1>2. Sink.medium = medium /\ Sink.buffer = buffer /\ Sink.resume = resume
  BY DEF Sink
<1>3. ~Spoilt(Sink)
  BY <1>2 DEF Parses, Indices, Spoilt, Garbled
<1>4. /\ Len(medium.lines) \in Nat
      /\ DOMAIN medium.lines = 1..Len(medium.lines)
  BY <1>1, <1>2 DEF Sinks, Media
<1>5. PICK n \in Nat, m \in Nat : n = Len(medium.lines) /\ m = TextLen(Sink) /\ n <= m
  <2>1. CASE pc = "dead"
    <3>1. Len(Sink.buffer) = 0 /\ Half(Sink) = 0
      BY <1>1, <1>2, <2>1 DEF Half
    <3>2. TextLen(Sink) = Len(medium.lines)
      BY <1>2, <1>4, <3>1 DEF TextLen
    <3> QED BY <1>4, <3>2
  <2>2. CASE pc # "dead"
    <3>0. /\ Len(Sink.medium.lines) \in Nat /\ Len(Sink.buffer) \in Nat
          /\ Half(Sink) \in Nat /\ Half(Sink) <= Len(Sink.buffer)
          /\ TextLen(Sink) = Len(Sink.medium.lines) + Len(Sink.buffer) - Half(Sink)
      BY <1>1, <2>2, SinkLengths
    <3>1. PICK n \in Nat, k \in Nat, h \in Nat :
             /\ n = Len(medium.lines) /\ h <= k /\ TextLen(Sink) = n + k - h
      BY <1>2, <3>0
    <3>2. n + k - h \in Nat /\ n <= n + k - h
      <4>1. h <= k
        BY <3>1
      <4> QED BY <4>1
    <3> QED BY <3>1, <3>2
  <2> QED BY <2>1, <2>2
<1>6. \A i \in 1..n : i \in 1..m
  BY <1>5
<1>7. \A i \in 1..n : TextAt(Sink, i) = medium.lines[i]
  BY <1>2, <1>5 DEF TextAt
<1> QED BY <1>3, <1>4, <1>5, <1>6, <1>7

\* The verdict is that of the last end, and there is one.
LEMMA VerdictIsAnEnd ==
    ASSUME IInv, Summary # "unreadable"
    PROVE  /\ Parses /\ Summary \in EndKinds
           /\ \E i \in DOMAIN medium.lines :
                 /\ medium.lines[i].kind = Summary
                 /\ \A j \in DOMAIN medium.lines :
                       medium.lines[j].kind \in EndKinds => j <= i
<1>1. Parses /\ Indices(EndKinds) # {} /\ Summary = LastEnd.kind
  BY DEF Summary
<1>2. /\ Len(medium.lines) \in Nat
      /\ DOMAIN medium.lines = 1..Len(medium.lines)
  BY <1>1, MediumBegins
<1>3. \E i \in Indices(EndKinds) : \A j \in Indices(EndKinds) : j <= i
  <2>1. Indices(EndKinds) \subseteq 1..Len(medium.lines)
    BY <1>2 DEF Indices
  <2> QED BY <1>1, <1>2, <2>1, LastOne
<1>4. PICK i \in Indices(EndKinds) :
         LastEnd = medium.lines[i] /\ \A j \in Indices(EndKinds) : j <= i
  BY <1>3 DEF LastEnd
<1> QED BY <1>1, <1>4 DEF Indices

\* An end on a medium that parses is as the counters say.
LEMMA EndOnMedium ==
    ASSUME IInv, Parses, NEW i \in DOMAIN medium.lines, medium.lines[i].kind \in EndKinds
    PROVE  /\ declared # "none" /\ medium.lines[i].n = events_emitted
           /\ \A n \in 1..events_emitted : \E j \in DOMAIN medium.lines :
                 j < i /\ medium.lines[j] = Line("event", n, 0)
           /\ \A j \in DOMAIN medium.lines : medium.lines[j].kind = "event" => j < i
           /\ medium.lines[i].kind = "complete" =>
                 /\ declared = "complete" /\ observed = events_emitted
                 /\ \A j \in DOMAIN medium.lines :
                       j <= i => medium.lines[j].kind # "partial"
<1>1. /\ ~Spoilt(Sink)
      /\ Len(medium.lines) \in Nat /\ TextLen(Sink) \in Nat
      /\ DOMAIN medium.lines = 1..Len(medium.lines)
      /\ \A j \in 1..Len(medium.lines) :
            j \in 1..TextLen(Sink) /\ TextAt(Sink, j) = medium.lines[j]
  BY MediumBegins
<1>2. EndsAreTrue(Sink, events_emitted, observed, declared)
  BY <1>1 DEF IInv, TextInv
<1>3. /\ TextAt(Sink, i).n = events_emitted /\ declared # "none"
      /\ \A j \in 1..TextLen(Sink) : TextAt(Sink, j).kind = "event" => j < i
      /\ \A n \in 1..events_emitted : \E j \in 1..i : HasEvent(Sink, j, n)
      /\ TextAt(Sink, i).kind = "complete" =>
            /\ declared = "complete" /\ observed = events_emitted
            /\ \A j \in 1..i : TextAt(Sink, j).kind # "partial"
  BY <1>1, <1>2 DEF EndsAreTrue
<1>4. ASSUME NEW n \in 1..events_emitted
      PROVE  \E j \in DOMAIN medium.lines : j < i /\ medium.lines[j] = Line("event", n, 0)
  <2>1. PICK j \in 1..i : HasEvent(Sink, j, n)
    BY <1>3
  <2>2. j \in 1..Len(medium.lines)
    BY <1>1
  <2>3. medium.lines[j] = Line("event", n, 0) /\ TextAt(Sink, j).kind = "event"
    BY <1>1, <2>1, <2>2 DEF HasEvent, Line
  <2>4. j < i
    BY <1>1, <1>3, <2>2, <2>3
  <2> QED BY <1>1, <2>2, <2>3, <2>4
<1>5. ASSUME NEW j \in DOMAIN medium.lines, j <= i, medium.lines[i].kind = "complete"
      PROVE  medium.lines[j].kind # "partial"
  <2>1. j \in 1..i
    BY <1>1, <1>5
  <2> QED BY <1>1, <1>3, <1>5, <2>1
<1> QED BY <1>1, <1>3, <1>4, <1>5

\* The numbers of the events on a medium, and how many there are.
EventsOf(med) == {i \in DOMAIN med.lines : med.lines[i].kind = "event" /\ Whole(med, i)}

\* Distinct events on a medium have distinct numbers among those observed.
LEMMA EventsAreNumbered ==
    ASSUME IInv
    PROVE  /\ IsFiniteSet(EventsOf(medium))
           /\ [i \in EventsOf(medium) |-> medium.lines[i].n]
                 \in Injection(EventsOf(medium), 1..observed)
           /\ EventsOnMedium = Cardinality(EventsOf(medium))
           /\ observed \in Nat /\ IsFiniteSet(1..observed) /\ Cardinality(1..observed) = observed
<1> DEFINE f == [i \in EventsOf(medium) |-> medium.lines[i].n]
<1>1. MediumOrder(medium, observed) /\ observed \in Nat
  BY DEF IInv, MediumInv, CountInv
<1>2. DOMAIN medium.lines = 1..Len(medium.lines) /\ Len(medium.lines) \in Nat
  <2>1. Sink.medium = medium /\ Sink \in Sinks
    BY DEF IInv, SinkInv, Sink
  <2> QED BY <2>1 DEF Sinks, Media
<1>3. f \in [EventsOf(medium) -> 1..observed]
  BY <1>1 DEF EventsOf, MediumOrder
<1>4. ASSUME NEW i \in EventsOf(medium), NEW j \in EventsOf(medium), f[i] = f[j]
      PROVE  i = j
  <2>1. i \in 1..Len(medium.lines) /\ j \in 1..Len(medium.lines)
    BY <1>2 DEF EventsOf
  <2>2. medium.lines[i].n = medium.lines[j].n /\ medium.lines[i].n \in 1..observed
    BY <1>1, <1>4 DEF EventsOf, MediumOrder
  <2>3. /\ i < j => medium.lines[i].n < medium.lines[j].n
        /\ j < i => medium.lines[j].n < medium.lines[i].n
    BY <1>1 DEF EventsOf, MediumOrder
  <2> QED BY <2>1, <2>2, <2>3
<1>5. f \in Injection(EventsOf(medium), 1..observed)
  BY <1>3, <1>4 DEF Injection, IsInjective
<1>6. IsFiniteSet(1..observed) /\ Cardinality(1..observed) = observed
  BY <1>1, FS_Interval
<1>7. IsFiniteSet(EventsOf(medium))
  BY <1>5, <1>6, FS_Injection
<1>8. EventsOnMedium = Cardinality(EventsOf(medium))
  <2>1. {i \in Indices({"event"}) : i < Len(medium.lines) \/ medium.tail # "cut"}
          = EventsOf(medium)
    BY DEF Indices, EventsOf, Whole
  <2> QED BY <2>1 DEF EventsOnMedium
<1> QED BY <1>1, <1>5, <1>6, <1>7, <1>8

\* Counting the events before an end by their numbers.
LEMMA CountsTo ==
    ASSUME NEW S, NEW n \in Nat, NEW f, f \in [S -> 1..n],
           \A i, j \in S : f[i] = f[j] => i = j,
           \A k \in 1..n : \E i \in S : f[i] = k
    PROVE  Cardinality(S) = n
<1>1. f \in Injection(S, 1..n)
  BY DEF Injection, IsInjective
<1>2. f \in Surjection(S, 1..n)
  BY DEF Surjection
<1>3. IsFiniteSet(1..n) /\ Cardinality(1..n) = n
  BY FS_Interval
<1> QED BY <1>1, <1>2, <1>3, FS_Injection

\* A reader told "complete" was told so by finish_complete, and finds every event
\* the recorder was handed, in their order.
LEMMA CompleteFromInv ==
    ASSUME IInv PROVE CompleteIsWhole
<1> SUFFICES ASSUME Summary = "complete"
             PROVE  /\ declared = "complete"
                    /\ \A n \in 1..observed : OnMedium(Line("event", n, 0))
                    /\ \A i, j \in Indices({"event"}) :
                          /\ medium.lines[i].n \in 1..observed
                          /\ i < j => medium.lines[i].n < medium.lines[j].n
  BY DEF CompleteIsWhole
<1>1. PICK i \in DOMAIN medium.lines : Parses /\ medium.lines[i].kind = "complete"
  BY VerdictIsAnEnd
<1>2. /\ declared = "complete" /\ observed = events_emitted
      /\ \A n \in 1..events_emitted : \E j \in DOMAIN medium.lines :
            j < i /\ medium.lines[j] = Line("event", n, 0)
  BY <1>1, EndOnMedium DEF EndKinds
<1>3. \A n \in 1..observed : OnMedium(Line("event", n, 0))
  BY <1>2 DEF OnMedium
<1>4. \A j, k \in Indices({"event"}) :
         /\ medium.lines[j].n \in 1..observed
         /\ j < k => medium.lines[j].n < medium.lines[k].n
  BY DEF IInv, MediumInv, MediumOrder, Indices
<1> QED BY <1>2, <1>3, <1>4

\* The events_emitted of an end is the number of events before it.
LEMMA EndCountFromInv ==
    ASSUME IInv PROVE EndCountIsTrue
<1> SUFFICES ASSUME Parses, NEW i \in Indices(EndKinds)
             PROVE  medium.lines[i].n = Cardinality({j \in Indices({"event"}) : j < i})
  BY DEF EndCountIsTrue
<1> DEFINE S == {j \in Indices({"event"}) : j < i}
           f == [j \in S |-> medium.lines[j].n]
<1>1. /\ i \in DOMAIN medium.lines /\ medium.lines[i].kind \in EndKinds
  BY DEF Indices
<1>2. /\ medium.lines[i].n = events_emitted
      /\ \A n \in 1..events_emitted : \E j \in DOMAIN medium.lines :
            j < i /\ medium.lines[j] = Line("event", n, 0)
  BY <1>1, EndOnMedium
<1>3. /\ ~Spoilt(Sink) /\ DOMAIN medium.lines = 1..Len(medium.lines)
      /\ Len(medium.lines) \in Nat
      /\ \A j \in 1..Len(medium.lines) :
            j \in 1..TextLen(Sink) /\ TextAt(Sink, j) = medium.lines[j]
  BY MediumBegins
<1>4. EventsInOrder(Sink, events_emitted) /\ events_emitted \in Nat
  BY <1>3 DEF IInv, TextInv, CountInv
<1>5. ASSUME NEW j \in S PROVE /\ j \in 1..Len(medium.lines)
                               /\ medium.lines[j].kind = "event"
                               /\ medium.lines[j].n \in 1..events_emitted
  <2>1. j \in 1..Len(medium.lines) /\ medium.lines[j].kind = "event"
    BY <1>3 DEF Indices
  <2> QED BY <1>3, <1>4, <2>1 DEF EventsInOrder
<1>6. ASSUME NEW j \in S, NEW k \in S, medium.lines[j].n = medium.lines[k].n PROVE j = k
  <2>1. /\ j < k => medium.lines[j].n < medium.lines[k].n
        /\ k < j => medium.lines[k].n < medium.lines[j].n
    BY <1>3, <1>4, <1>5 DEF EventsInOrder
  <2>2. /\ j \in Nat /\ k \in Nat
        /\ medium.lines[j].n \in Nat /\ medium.lines[k].n \in Nat
    BY <1>3, <1>5
  <2> QED BY <1>6, <2>1, <2>2
<1>7. f \in [S -> 1..events_emitted] /\ \A j, k \in S : f[j] = f[k] => j = k
  BY <1>5, <1>6
<1>8. ASSUME NEW n \in 1..events_emitted PROVE \E j \in S : f[j] = n
  <2>1. PICK j \in DOMAIN medium.lines : j < i /\ medium.lines[j] = Line("event", n, 0)
    BY <1>2
  <2>2. j \in S /\ medium.lines[j].n = n
    BY <2>1 DEF Indices, Line
  <2> QED BY <2>2
<1> HIDE DEF f, S
<1>9. Cardinality(S) = events_emitted
  BY <1>4, <1>7, <1>8, CountsTo
<1> QED BY <1>2, <1>9 DEF S

\* Nothing is concluded before something is declared.
LEMMA RefusedFromInv ==
    ASSUME IInv PROVE RefusedUntilDeclared
BY VerdictIsAnEnd, EndOnMedium DEF RefusedUntilDeclared

\* A reader of the stream is told "complete" only if finish_complete was called and
\* every event handed to write_event is on the medium, each once and in order,
\* whichever writes failed and whenever the recorder died.
THEOREM CompleteStreamIsWhole == Spec => []CompleteIsWhole
<1> QED BY Invariant, CompleteFromInv, PTL

\* The events_emitted that a session_end carries is the number of events before it.
THEOREM EndCountsTruly == Spec => []EndCountIsTrue
<1> QED BY Invariant, EndCountFromInv, PTL

\* An event for which write_event returned Ok stays on the medium.
THEOREM AcknowledgedStays == Spec => []AcknowledgedSurvives
<1>1. IInv => AcknowledgedSurvives
  BY DEF IInv, AckInv, AcknowledgedSurvives, OnMedium
<1> QED BY <1>1, Invariant, PTL

\* Until an end was declared, summarize_stream refuses the stream.
THEOREM NothingReadEarly == Spec => []RefusedUntilDeclared
<1> QED BY Invariant, RefusedFromInv, PTL

-----------------------------------------------------------------------------
(* The writer implements Evidence                                          *)

\* How many events a reader finds, and that a complete stream has them all.
LEMMA KeptSoFar ==
    ASSUME IInv
    PROVE  /\ EventsOnMedium \in 0..observed
           /\ Summary = "complete" => EventsOnMedium = observed
<1> DEFINE E == EventsOf(medium)
           f == [i \in E |-> medium.lines[i].n]
<1>1. /\ IsFiniteSet(E) /\ f \in Injection(E, 1..observed)
      /\ EventsOnMedium = Cardinality(E) /\ observed \in Nat
      /\ IsFiniteSet(1..observed) /\ Cardinality(1..observed) = observed
  BY EventsAreNumbered
<1>2. ASSUME Summary = "complete", NEW n \in 1..observed PROVE \E i \in E : f[i] = n
  <2>1. Parses /\ CompleteIsWhole
    BY <1>2, VerdictIsAnEnd, CompleteFromInv
  <2>2. PICK i \in DOMAIN medium.lines : medium.lines[i] = Line("event", n, 0)
    BY <1>2, <2>1 DEF CompleteIsWhole, OnMedium
  <2> QED BY <2>1, <2>2 DEF Parses, EventsOf, Whole, Line
<1> HIDE DEF E, f
<1>3. Cardinality(E) \in Nat /\ Cardinality(E) <= observed
  BY <1>1, FS_Injection, FS_CardinalityType
<1>4. ASSUME Summary = "complete" PROVE Cardinality(E) = observed
  <2>1. f \in Surjection(E, 1..observed)
    BY <1>1, <1>2, <1>4 DEF Surjection, Injection
  <2> QED BY <1>1, <2>1, FS_Injection
<1> QED BY <1>1, <1>3, <1>4

\* A medium that grows loses no event.
LEMMA KeptGrows ==
    ASSUME IInv, IInv', Grows(medium, medium')
    PROVE  EventsOnMedium' \in EventsOnMedium..observed'
<1>1. EventsOnMedium = Cardinality(EventsOf(medium)) /\ EventsOnMedium \in Nat
  BY EventsAreNumbered, KeptSoFar DEF IInv, CountInv
<1>2. EventsOnMedium' = Cardinality(EventsOf(medium')) /\ IsFiniteSet(EventsOf(medium'))
  <2>1. (EventsOnMedium = Cardinality(EventsOf(medium)) /\ IsFiniteSet(EventsOf(medium)))'
    BY EventsAreNumbered, PTL
  <2> QED BY <2>1
<1>3. EventsOnMedium' \in 0..observed' /\ observed' \in Nat
  <2>1. (EventsOnMedium \in 0..observed)'
    BY KeptSoFar, PTL
  <2> QED BY <2>1 DEF IInv, CountInv
<1>4. EventsOf(medium) \subseteq EventsOf(medium')
  BY DEF EventsOf, Grows
<1>5. Cardinality(EventsOf(medium)) <= Cardinality(EventsOf(medium'))
  BY <1>2, <1>4, FS_Subset
<1> QED BY <1>1, <1>2, <1>3, <1>5

\* No step takes a whole line from the medium.
LEMMA MediumGrows ==
    ASSUME IInv, [Next]_vars
    PROVE  Grows(medium, medium')
<1>0. /\ pc # "dead" => WellFormed(Sink)
      /\ pc \notin Dropping => ~Spoilt(Sink)
      /\ {events_emitted, heartbeats, observed} \subseteq Nat
      /\ Sink.medium = medium /\ Sink'.medium = medium'
  BY DEF IInv, SinkInv, CountInv, Sink
<1>l. /\ StartLine \in TextLines /\ EventLine \in TextLines /\ HeartbeatLine \in TextLines
      /\ \A v \in EndKinds : EndLine(v) \in TextLines
  BY <1>0, WriterLines
<1>1. ASSUME NEW next, NEW failing, pc # "dead", Call(Flushes(Sink), next, failing)
      PROVE  Grows(medium, medium')
  <2>1. Carries(Sink, Sink')
    BY <1>0, <1>1, CallFlushes
  <2> QED BY <1>0, <2>1 DEF Carries
<1>2. ASSUME NEW next, NEW failing, NEW l \in TextLines, pc # "dead",
             Call(WritesShort(Sink, l), next, failing)
      PROVE  Grows(medium, medium')
  <2>1. Adds(Sink, Sink', l) \/ Carries(Sink, Sink')
    BY <1>0, <1>2, CallWritesShort
  <2> QED BY <1>0, <2>1 DEF Carries, Adds
<1>3. ASSUME NEW next, NEW failing, NEW l \in TextLines, pc \in {"start", "running"},
             Call(Writes(l), next, failing)
      PROVE  Grows(medium, medium')
  <2>1. Adds(Sink, Sink', l) \/ Carries(Sink, Sink') \/ Breaks(Sink, Sink', l)
    BY <1>0, <1>3, CallWrites DEF Dropping
  <2> QED BY <1>0, <2>1 DEF Carries, Adds, Breaks
<1>4. CASE StartWrites
  BY <1>3, <1>4, <1>l DEF StartWrites
<1>5. CASE WriteEvent
  BY <1>3, <1>5, <1>l DEF WriteEvent
<1>6. CASE StartFlushes \/ EventFlushes \/ EndFlushes \/ DropFlushes \/ Unbuffer
  BY <1>1, <1>6 DEF StartFlushes, EventFlushes, EndFlushes, DropFlushes, Unbuffer
<1>7. ASSUME NEW from \in {"beat_flush", "forced_flush"}, NEW next, HeartbeatFlushes(from, next)
      PROVE  Grows(medium, medium')
  BY <1>1, <1>7 DEF HeartbeatFlushes
<1>8. ASSUME NEW from \in {"counted", "running"}, NEW next, HeartbeatWrites(from, next)
      PROVE  Grows(medium, medium')
  BY <1>2, <1>8, <1>l DEF HeartbeatWrites
<1>9. ASSUME NEW v \in EndKinds, FinishWrites(v) PROVE Grows(medium, medium')
  BY <1>2, <1>9, <1>l DEF FinishWrites
<1>10. CASE DropWrites
  BY <1>2, <1>10, <1>l DEF DropWrites, DropVerdict, EndKinds
<1>11. CASE Killed
  <2>1. PICK s \in Flushes(Sink) : medium' = s.medium
    BY <1>11 DEF Killed
  <2>2. WellFormed(Sink)
    BY <1>0, <1>11 DEF Killed, Stopped
  <2>3. Carries(Sink, s)
    BY <2>1, <2>2, FlushesCarry DEF Flushes
  <2> QED BY <1>0, <2>1, <2>3 DEF Carries
<1>12. CASE NoHeartbeat \/ Abandon \/ Done \/ UNCHANGED vars
  <2>1. medium' = medium
    BY <1>12 DEF NoHeartbeat, Abandon, Done, vars, sink
  <2>2. Len(medium.lines) \in Nat
    BY <1>0 DEF IInv, SinkInv, Sinks, Media
  <2> QED BY <2>1, <2>2 DEF Grows
<1> QED BY <1>4, <1>5, <1>6, <1>7, <1>8, <1>9, <1>10, <1>11, <1>12 DEF Next

\* A written end waits in the buffer: the medium has not seen it.
LEMMA EndWaits ==
    ASSUME NEW next, NEW failing, NEW l \in TextLines, WellFormed(Sink),
           Call(WritesShort(Sink, l), next, failing)
    PROVE  \/ Adds(Sink, Sink', l) /\ Len(medium'.lines) < TextLen(Sink')
           \/ Carries(Sink, Sink')
<1>1. PICK s \in WritesShort(Sink, l) :
         medium' = s.medium /\ buffer' = s.buffer /\ resume' = s.resume
  BY DEF Call
<1>2. Sink.ok = TRUE /\ Sink.buffer = buffer /\ Sink.resume = resume /\ Sink.medium = medium
  BY DEF Sink
<1>3. \/ s.ok = TRUE /\ Adds(Sink, s, l)
      \/ s.ok = FALSE /\ Carries(Sink, s)
  BY <1>2, WritesShortAdd
<1>4. s \in Sinks /\ Sink' \in Sinks /\ SameSink(s, Sink')
  <2>1. s \in Sinks
    BY <1>3 DEF Carries, Adds, WellFormed
  <2> QED BY <1>1, <2>1, SinkAfter
<1>5. CASE s.ok = FALSE
  BY <1>3, <1>4, <1>5, OutcomeAside
<1>6. CASE s.ok = TRUE
  <2>1. Adds(Sink, Sink', l) /\ WellFormed(Sink')
    <3>1. Adds(Sink, Sink', l)
      BY <1>3, <1>4, <1>6, OutcomeAside
    <3> QED BY <3>1 DEF Adds
  <2>2. \/ buffer' = Append(buffer, l) /\ resume' = resume
        \/ buffer' = <<l>> /\ resume' = FALSE
    <3>1. \A f \in FlushFails(Sink) : f.ok = FALSE
      BY FlushesCarry
    <3>2. \/ s = [Sink EXCEPT !.buffer = Append(Sink.buffer, l)]
          \/ s = [FlushOk(Sink) EXCEPT !.buffer = <<l>>]
      BY <1>6, <3>1 DEF WritesShort
    <3> QED BY <1>1, <1>2, <3>2 DEF FlushOk, Sink
  <2>3. Len(buffer') \in Nat /\ Half(Sink') \in Nat /\ Half(Sink') < Len(buffer')
    <3>1. /\ Len(buffer) \in Nat /\ Half(Sink) \in Nat /\ Half(Sink) <= Len(buffer)
          /\ buffer \in Seq(TextLines)
      BY <1>2, SinkLengths, SinkTypes
    <3>2. CASE buffer' = Append(buffer, l) /\ resume' = resume
      <4>1. Half(Sink') = Half(Sink)
        BY <3>2 DEF Half, Sink
      <4>2. Len(buffer') = Len(buffer) + 1
        BY <3>1, <3>2
      <4> QED BY <3>1, <4>1, <4>2
    <3>3. CASE buffer' = <<l>> /\ resume' = FALSE
      <4>1. Half(Sink') = 0 /\ Len(buffer') = 1
        BY <3>3 DEF Half, Sink
      <4> QED BY <4>1
    <3> QED BY <2>2, <3>2, <3>3
  <2>4. /\ Len(medium'.lines) \in Nat
        /\ TextLen(Sink') = Len(medium'.lines) + Len(buffer') - Half(Sink')
    <3>1. Sink'.medium = medium' /\ Sink'.buffer = buffer'
      BY DEF Sink
    <3> QED BY <2>1, <3>1, SinkLengths
  <2>5. PICK n \in Nat, k \in Nat, h \in Nat :
           /\ n = Len(medium'.lines) /\ k = Len(buffer') /\ h = Half(Sink') /\ h < k
    BY <2>3, <2>4
  <2>6. n < n + k - h
    <3>1. h < k
      BY <2>5
    <3> QED BY <3>1
  <2> QED BY <2>1, <2>4, <2>5, <2>6
<1> QED BY <1>3, <1>5, <1>6

\* The step that declares the end shows a reader nothing yet.
LEMMA DeclaresUnseen ==
    ASSUME IInv, IInv', declared = "none", NEW v \in EndKinds, NEW next, NEW failing,
           pc # "dead", Call(WritesShort(Sink, EndLine(v)), next, failing)
    PROVE  Summary' = "unreadable"
<1> SUFFICES ASSUME Parses', NEW e \in DOMAIN medium'.lines,
                    medium'.lines[e].kind \in EndKinds
             PROVE  FALSE
  BY DEF Summary, Indices
<1>1. /\ WellFormed(Sink) /\ EndLine(v) \in TextLines /\ EndLine(v).kind # "event"
  <2>1. EndLine(v) \in TextLines
    BY WriterLines DEF IInv, CountInv
  <2> QED BY <2>1 DEF IInv, SinkInv, EndLine, Line, EndKinds
<1>2. \/ Adds(Sink, Sink', EndLine(v)) /\ Len(medium'.lines) < TextLen(Sink')
      \/ Carries(Sink, Sink')
  BY <1>1, EndWaits
<1>3. /\ ~Spoilt(Sink') /\ Len(medium'.lines) \in Nat
      /\ DOMAIN medium'.lines = 1..Len(medium'.lines)
      /\ \A i \in 1..Len(medium'.lines) :
            i \in 1..TextLen(Sink') /\ TextAt(Sink', i) = medium'.lines[i]
  <2>1. (/\ ~Spoilt(Sink) /\ Len(medium.lines) \in Nat
         /\ DOMAIN medium.lines = 1..Len(medium.lines)
         /\ \A i \in 1..Len(medium.lines) :
               i \in 1..TextLen(Sink) /\ TextAt(Sink, i) = medium.lines[i])'
    BY MediumBegins, PTL
  <2> QED BY <2>1
<1>4. ~Spoilt(Sink)
  BY <1>1, <1>2, <1>3 DEF Adds, Carries, StaysSpoilt
<1>5. /\ EndsAreTrue(Sink, events_emitted, observed, "none") /\ TextLen(Sink) \in Nat
  BY <1>1, <1>4, SinkLengths DEF IInv, TextInv
<1>6. e \in 1..TextLen(Sink) /\ TextAt(Sink, e) = medium'.lines[e]
  <2>1. CASE Carries(Sink, Sink')
    BY <1>3, <1>4, <2>1 DEF Carries
  <2>2. CASE Adds(Sink, Sink', EndLine(v)) /\ Len(medium'.lines) < TextLen(Sink')
    <3>1. TextLen(Sink') = TextLen(Sink) + 1
          /\ \A i \in 1..TextLen(Sink) : TextAt(Sink', i) = TextAt(Sink, i)
      BY <1>4, <2>2 DEF Adds
    <3>2. e \in 1..TextLen(Sink)
      BY <1>3, <1>5, <2>2, <3>1
    <3> QED BY <1>3, <3>1, <3>2
  <2> QED BY <1>2, <2>1, <2>2
<1> QED BY <1>5, <1>6 DEF EndsAreTrue

\* What a step does to what the promise speaks of.
LEMMA StepKinds ==
    ASSUME IInv, IInv', [Next]_vars
    PROVE  \/ observed' = observed /\ declared' = declared
           \/ declared = "none" /\ declared' = "none" /\ observed' = observed + 1
           \/ /\ declared = "none" /\ declared' \in EndKinds
              /\ observed' = observed /\ Summary' = "unreadable"
<1>1. CASE WriteEvent
  <2>1. declared = "none" /\ declared' = declared /\ observed' = observed + 1
    BY <1>1 DEF WriteEvent, IInv, CountInv, Working
  <2> QED BY <2>1
<1>2. ASSUME NEW v \in EndKinds, FinishWrites(v)
      PROVE  /\ declared = "none" /\ declared' \in EndKinds
             /\ observed' = observed /\ Summary' = "unreadable"
  <2>1. /\ pc = "running" /\ declared' = v /\ observed' = observed
        /\ Call(WritesShort(Sink, EndLine(v)), "end_flush", "drop")
    BY <1>2 DEF FinishWrites
  <2>2. declared = "none"
    BY <2>1 DEF IInv, CountInv, Working
  <2>3. Summary' = "unreadable"
    BY <2>1, <2>2, DeclaresUnseen
  <2> QED BY <2>1, <2>2, <2>3
<1>3. CASE DropWrites
  <2>1. /\ pc = "drop" /\ observed' = observed
        /\ Call(WritesShort(Sink, EndLine("partial")), "drop_flush", "drop_flush")
        /\ declared # "none" => declared' = declared
        /\ declared = "none" => declared' = "partial"
    BY <1>3 DEF DropWrites, DropVerdict
  <2>2. ASSUME declared = "none" PROVE Summary' = "unreadable"
    BY <2>1, <2>2, DeclaresUnseen DEF EndKinds
  <2> QED BY <2>1, <2>2 DEF EndKinds
<1>4. CASE \/ StartWrites \/ StartFlushes \/ NoHeartbeat \/ EventFlushes \/ EndFlushes
           \/ Abandon \/ DropFlushes \/ Unbuffer \/ Killed \/ Done \/ UNCHANGED vars
  BY <1>4 DEF StartWrites, StartFlushes, NoHeartbeat, EventFlushes, EndFlushes, Abandon,
              DropFlushes, Unbuffer, Killed, Done, vars
<1>5. ASSUME NEW from, NEW next, HeartbeatWrites(from, next) \/ HeartbeatFlushes(from, next)
      PROVE  observed' = observed /\ declared' = declared
  BY <1>5 DEF HeartbeatWrites, HeartbeatFlushes
<1> QED BY <1>1, <1>2, <1>3, <1>4, <1>5 DEF Next

\* The medium is a sequence of lines.
LEMMA MediumIndices ==
    ASSUME IInv
    PROVE  DOMAIN medium.lines = 1..Len(medium.lines) /\ Len(medium.lines) \in Nat
<1>1. Sink.medium = medium /\ Sink \in Sinks
  BY DEF IInv, SinkInv, Sink
<1> QED BY <1>1 DEF Sinks, Media

\* A stream that reads as complete holds no partial end.
LEMMA NoPartialBeside ==
    ASSUME IInv
    PROVE  Summary = "complete" =>
             \E c \in DOMAIN medium.lines :
                /\ medium.lines[c].kind = "complete"
                /\ \A j \in DOMAIN medium.lines : medium.lines[j].kind # "partial"
<1> HAVE Summary = "complete"
<1>1. PICK c \in DOMAIN medium.lines :
         /\ Parses /\ medium.lines[c].kind = "complete"
         /\ \A j \in DOMAIN medium.lines : medium.lines[j].kind \in EndKinds => j <= c
  BY VerdictIsAnEnd
<1>2. \A j \in DOMAIN medium.lines : j <= c => medium.lines[j].kind # "partial"
  BY <1>1, EndOnMedium DEF EndKinds
<1>3. \A j \in DOMAIN medium.lines : medium.lines[j].kind # "partial"
  BY <1>1, <1>2 DEF EndKinds
<1> QED BY <1>1, <1>3

\* A verdict follows a declaration, and a complete one follows the keeping of it all.
LEMMA VerdictIsDeclared ==
    ASSUME IInv
    PROVE  /\ Summary \in {"unreadable"} \cup EndKinds
           /\ declared = "none" => Summary = "unreadable"
           /\ Summary = "complete" => declared = "complete" /\ EventsOnMedium = observed
BY VerdictIsAnEnd, RefusedFromInv, CompleteFromInv, KeptSoFar
   DEF RefusedUntilDeclared, CompleteIsWhole

\* A reader who was told "partial" is not told "complete" later.
LEMMA PartialStays ==
    ASSUME IInv, IInv', Grows(medium, medium'), Summary = "partial"
    PROVE  Summary' # "complete"
<1> SUFFICES ASSUME Summary' = "complete" PROVE FALSE
  OBVIOUS
<1>1. PICK p \in DOMAIN medium.lines : Parses /\ medium.lines[p].kind = "partial"
  BY VerdictIsAnEnd
<1>2. /\ DOMAIN medium.lines = 1..Len(medium.lines) /\ Len(medium.lines) \in Nat
  BY <1>1, MediumBegins
<1>3. PICK c \in DOMAIN medium'.lines :
         /\ medium'.lines[c].kind = "complete"
         /\ \A j \in DOMAIN medium'.lines : medium'.lines[j].kind # "partial"
  <2>1. (Summary = "complete" =>
           \E c \in DOMAIN medium.lines :
              /\ medium.lines[c].kind = "complete"
              /\ \A j \in DOMAIN medium.lines : medium.lines[j].kind # "partial")'
    BY NoPartialBeside, PTL
  <2> QED BY <2>1
<1>4. p \in DOMAIN medium'.lines /\ medium'.lines[p].kind = "partial"
  <2>1. (DOMAIN medium.lines = 1..Len(medium.lines) /\ Len(medium.lines) \in Nat)'
    BY MediumIndices, PTL
  <2>2. medium'.lines[p] = medium.lines[p] /\ Len(medium.lines) <= Len(medium'.lines)
    BY <1>1 DEF Grows, Whole, Parses
  <2> QED BY <1>1, <1>2, <2>1, <2>2
<1> QED BY <1>3, <1>4

\* Every step of the writer is a step of the promise, or none.
LEMMA StepsKeepPromise ==
    ASSUME IInv, IInv', [Next]_vars
    PROVE  Promise!Next
<1>1. Grows(medium, medium')
  BY MediumGrows
<1>2. EventsOnMedium' \in EventsOnMedium..observed'
  BY <1>1, KeptGrows
<1>3. /\ Summary \in {"unreadable"} \cup EndKinds /\ Summary' \in {"unreadable"} \cup EndKinds
      /\ declared = "none" => Summary = "unreadable"
      /\ declared' = "none" => Summary' = "unreadable"
      /\ Summary' = "complete" => declared' = "complete" /\ EventsOnMedium' = observed'
  <2>1. (/\ Summary \in {"unreadable"} \cup EndKinds
         /\ declared = "none" => Summary = "unreadable"
         /\ Summary = "complete" => declared = "complete" /\ EventsOnMedium = observed)'
    BY VerdictIsDeclared, PTL
  <2> QED BY <2>1, VerdictIsDeclared
<1>4. Summary = "partial" => Summary' # "complete"
  BY <1>1, PartialStays
<1>5. CASE observed' = observed /\ declared' = declared
  <2>1. Promise!Reveal
    BY <1>2, <1>3, <1>4, <1>5
       DEF Promise!Reveal, Promise!Keep, Promise!Verdicts, EndKinds
  <2> QED BY <2>1 DEF Promise!Next
<1>6. CASE declared = "none" /\ declared' = "none" /\ observed' = observed + 1
  <2>1. Promise!Observe
    BY <1>2, <1>3, <1>6 DEF Promise!Observe, Promise!Keep
  <2> QED BY <2>1 DEF Promise!Next
<1>7. CASE /\ declared = "none" /\ declared' \in EndKinds
           /\ observed' = observed /\ Summary' = "unreadable"
  <2>1. Promise!Declare
    BY <1>2, <1>3, <1>7 DEF Promise!Declare, Promise!Keep, EndKinds
  <2> QED BY <2>1 DEF Promise!Next
<1> QED BY <1>5, <1>6, <1>7, StepKinds

\* The writer over its failing file implements Evidence: what a reader of the
\* medium finds and concludes only ever changes as that specification allows.
THEOREM WriterKeepsPromise == Spec => KeepsPromise
<1>1. Init => Promise!Init
  <2> SUFFICES ASSUME Init PROVE Promise!Init
    OBVIOUS
  <2>1. IInv /\ observed = 0 /\ declared = "none"
    BY Starts DEF Init
  <2>2. EventsOnMedium = 0
    BY <2>1, KeptSoFar
  <2>3. Summary = "unreadable"
    BY <2>1, RefusedFromInv DEF RefusedUntilDeclared
  <2> QED BY <2>1, <2>2, <2>3 DEF Promise!Init
<1>2. IInv /\ IInv' /\ [Next]_vars => [Promise!Next]_(Promise!evidence)
  BY StepsKeepPromise
<1> QED BY <1>1, <1>2, Invariant, PTL DEF Spec, KeepsPromise, Promise!Spec

=============================================================================
