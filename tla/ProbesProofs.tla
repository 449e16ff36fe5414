---------------------------- MODULE ProbesProofs ----------------------------
(***************************************************************************)
(* What the probes and the merge stage say of the file calls, for any      *)
(* tasks, processes, paths and capacities: opens are paired, writes are    *)
(* told once, and a path marked absolute is the one the kernel used.       *)
(***************************************************************************)
EXTENDS Probes, FiniteSetTheorems, WellFoundedInduction, TLAPS

-----------------------------------------------------------------------------
(* Descriptors and sets                                                    *)

Less == {pair \in Nat \X Nat : pair[1] < pair[2]}

\* A set of numbers that is not empty has a least one.
LEMMA LeastElement ==
    ASSUME NEW S \in SUBSET Nat, S # {}
    PROVE  \E m \in S : \A k \in S : m <= k
<1>1. IsWellFoundedOn(Less, Nat)
  BY NatLessThanWellFounded DEF OpToRel, Less
<1>2. PICK m \in S : \A k \in S : ~(<<k, m>> \in Less)
  BY <1>1, WFMin
<1>3. \A k \in S : ~(k < m)
  BY <1>2 DEF Less
<1> QED BY <1>3

\* Where at most n descriptors are taken, one of the first n + 1 is free, and the
\* lowest of those has no free one below it.
LEMMA LowestIsFree ==
    ASSUME NEW taken, IsFiniteSet(taken), NEW n \in Nat, Cardinality(taken) <= n
    PROVE  \E d \in 3 .. (n + 3) : d \notin taken /\ \A k \in 3 .. (d - 1) : k \in taken
<1> DEFINE free == {d \in 3 .. (n + 3) : d \notin taken}
<1>1. free # {}
  <2> SUFFICES ASSUME free = {} PROVE FALSE
    OBVIOUS
  <2>1. 3 .. (n + 3) \in SUBSET taken
    OBVIOUS
  <2>2. Cardinality(3 .. (n + 3)) <= Cardinality(taken)
    BY <2>1, FS_Subset
  <2>3. 3 \in Int /\ n + 3 \in Int /\ ~(3 > n + 3) /\ (n + 3) - 3 + 1 = n + 1
    OBVIOUS
  <2>4. Cardinality(3 .. (n + 3)) = n + 1
    BY <2>3, FS_Interval
  <2>5. Cardinality(taken) \in Nat
    BY FS_CardinalityType
  <2> QED BY <2>2, <2>4, <2>5
<1>2. free \in SUBSET Nat
  OBVIOUS
<1>3. PICK d \in free : \A k \in free : d <= k
  BY <1>1, <1>2, LeastElement
<1>4. \A k \in 3 .. (d - 1) : k \in taken
  BY <1>3
<1> QED BY <1>3, <1>4

\* A finite set as a sequence has each member at one place.
LEMMA SetAsSequence ==
    ASSUME NEW S, IsFiniteSet(S)
    PROVE  /\ DOMAIN SetToSeq(S) = 1 .. Cardinality(S) /\ Cardinality(S) \in Nat
           /\ \A i \in DOMAIN SetToSeq(S) : SetToSeq(S)[i] \in S
           /\ \A x \in S : \E i \in DOMAIN SetToSeq(S) : SetToSeq(S)[i] = x
           /\ \A i, j \in DOMAIN SetToSeq(S) : SetToSeq(S)[i] = SetToSeq(S)[j] => i = j
<1>1. Cardinality(S) \in Nat /\ ExistsBijection(1 .. Cardinality(S), S)
  BY FS_CardinalityType
<1>2. \E f \in [1 .. Cardinality(S) -> S] : IsInjective(f)
  BY <1>1 DEF ExistsBijection, Bijection, Injection, IsInjective
<1>3. SetToSeq(S) \in [1 .. Cardinality(S) -> S] /\ IsInjective(SetToSeq(S))
  BY <1>2 DEF SetToSeq
<1>4. /\ IsFiniteSet(1 .. Cardinality(S)) /\ Cardinality(1 .. Cardinality(S)) = Cardinality(S)
  BY <1>1, FS_Interval
<1>5. SetToSeq(S) \in Injection(1 .. Cardinality(S), S)
  BY <1>3 DEF Injection
<1>6. SetToSeq(S) \in Surjection(1 .. Cardinality(S), S)
  BY <1>4, <1>5, FS_Injection
<1> QED BY <1>1, <1>3, <1>6 DEF IsInjective, Surjection

-----------------------------------------------------------------------------
(* What the merge stage holds                                              *)

Paths == UNION {m.paths : m \in Mixes}
Names == {p.name : p \in Paths} \cup {"cut"}
Kinds == {"open", "write", "close", "mkdir", "connect", "exec"}

FileRecord == [path : Names, abs : BOOLEAN, truncated : BOOLEAN, calls : SUBSET Nat]
Told == [kind : Kinds, path : Names \cup {""}, origin : {"Absolute", "Unresolved"}, calls : SUBSET Nat]
Sent == [kind : Kinds, tgid : Processes, fd : Nat, path : Names \cup {""}, abs : BOOLEAN,
         truncated : BOOLEAN, failed : BOOLEAN, known : BOOLEAN, call : Nat]
Keys == Tracked \X Nat

\* A state of the merge stage, and a record that it may be sent.
MergerOK(l) ==
    /\ l = [files |-> l.files, writes_without_path |-> l.writes_without_path, events |-> l.events]
    /\ DOMAIN l.files \subseteq Keys /\ IsFiniteSet(DOMAIN l.files)
    /\ l.files \in [DOMAIN l.files -> FileRecord]
    /\ l.writes_without_path \subseteq Nat
    /\ l.events \in Seq(Told)
RecordOK(r) ==
    /\ r \in Sent /\ r.tgid \in Tracked
    /\ r.kind = "open" => r.path \in Names
    /\ r.kind = "write" => r.path = ""

\* The events that tell of write i, and the files it is counted in.
Tellers(l, i) == {k \in DOMAIN l.events : l.events[k].kind = "write" /\ i \in l.events[k].calls}
Holders(l, i) == {key \in DOMAIN l.files : i \in l.files[key].calls}
Nameless(l) == {k \in DOMAIN l.events : l.events[k].kind = "write" /\ l.events[k].path = ""}

\* No name is empty, not even that of a path that was cut.
LEMMA NamesAreNotEmpty == "" \notin Names
  BY PathAssumption DEF Names, Paths

\* What is appended to a sequence.
LEMMA Appending ==
    ASSUME NEW S, NEW s \in Seq(S), NEW x \in S
    PROVE  /\ Append(s, x) \in Seq(S) /\ Len(s) \in Nat
           /\ DOMAIN s = 1 .. Len(s) /\ DOMAIN Append(s, x) = 1 .. (Len(s) + 1)
           /\ \A k \in 1 .. Len(s) : Append(s, x)[k] = s[k]
           /\ Append(s, x)[Len(s) + 1] = x
  OBVIOUS

\* An event more: who tells of what.
Added(l, e, more) ==
    /\ MergerOK(more) /\ more.files = l.files
    /\ more.writes_without_path = l.writes_without_path
    /\ more.events = Append(l.events, e)
    /\ \A i : Holders(more, i) = Holders(l, i)
    /\ \A i : e.kind = "write" /\ i \in e.calls =>
           Tellers(more, i) = Tellers(l, i) \cup {Len(l.events) + 1}
    /\ \A i : ~(e.kind = "write" /\ i \in e.calls) => Tellers(more, i) = Tellers(l, i)
    /\ e.kind = "write" /\ e.path = "" => Nameless(more) = Nameless(l) \cup {Len(l.events) + 1}
    /\ ~(e.kind = "write" /\ e.path = "") => Nameless(more) = Nameless(l)

\* Telling an event more leaves the files alone.
LEMMA AddEvent ==
    ASSUME NEW l, MergerOK(l), NEW e \in Told,
           NEW more, more = Tell(l, e)
    PROVE  Added(l, e, more)
<1>1. /\ more.files = l.files /\ more.writes_without_path = l.writes_without_path
      /\ more.events = Append(l.events, e)
      /\ more = [files |-> more.files, writes_without_path |-> more.writes_without_path,
                 events |-> more.events]
  <2>1. l = [files |-> l.files, writes_without_path |-> l.writes_without_path, events |-> l.events]
    BY DEF MergerOK
  <2>2. more = [files |-> l.files, writes_without_path |-> l.writes_without_path,
                events |-> Append(l.events, e)]
    BY <2>1 DEF Tell
  <2> QED BY <2>2
<1>2. l.events \in Seq(Told)
  BY DEF MergerOK
<1>3. MergerOK(more)
  BY <1>1, <1>2 DEF MergerOK
<1>4. PICK n \in Nat : n = Len(l.events)
  BY <1>2, Appending
<1>5. /\ DOMAIN l.events = 1 .. n /\ DOMAIN more.events = 1 .. (n + 1)
      /\ more.events[n + 1] = e /\ \A k \in 1 .. n : more.events[k] = l.events[k]
  BY <1>1, <1>2, <1>4, Appending
<1>6. n + 1 \notin 1 .. n /\ 1 .. (n + 1) = (1 .. n) \cup {n + 1}
  OBVIOUS
<1>7. ASSUME NEW i
      PROVE  /\ e.kind = "write" /\ i \in e.calls => Tellers(more, i) = Tellers(l, i) \cup {n + 1}
             /\ ~(e.kind = "write" /\ i \in e.calls) => Tellers(more, i) = Tellers(l, i)
  BY <1>5, <1>6 DEF Tellers
<1>8. /\ e.kind = "write" /\ e.path = "" => Nameless(more) = Nameless(l) \cup {n + 1}
      /\ ~(e.kind = "write" /\ e.path = "") => Nameless(more) = Nameless(l)
  BY <1>5, <1>6 DEF Nameless
<1>9. \A i : Holders(more, i) = Holders(l, i)
  BY <1>1 DEF Holders
<1> QED BY <1>1, <1>3, <1>4, <1>7, <1>8, <1>9 DEF Added

\* A file less, or a file more that nothing is counted in yet.
LEMMA DropFile ==
    ASSUME NEW l, MergerOK(l), NEW key \in DOMAIN l.files
    PROVE  LET gone == [l EXCEPT !.files = Without(@, key)]
           IN  /\ MergerOK(gone) /\ gone.events = l.events
               /\ gone.writes_without_path = l.writes_without_path
               /\ DOMAIN gone.files = DOMAIN l.files \ {key}
               /\ \A other \in DOMAIN gone.files : gone.files[other] = l.files[other]
               /\ \A i : Holders(gone, i) = Holders(l, i) \ {key}
<1> DEFINE gone == [l EXCEPT !.files = Without(@, key)]
<1>1. /\ gone.events = l.events /\ gone.writes_without_path = l.writes_without_path
      /\ gone.files = Without(l.files, key)
      /\ gone = [files |-> gone.files, writes_without_path |-> gone.writes_without_path,
                 events |-> gone.events]
  BY DEF MergerOK
<1> HIDE DEF gone
<1>2. /\ DOMAIN gone.files = DOMAIN l.files \ {key}
      /\ \A other \in DOMAIN gone.files : gone.files[other] = l.files[other]
      /\ gone.files = [other \in DOMAIN gone.files |-> gone.files[other]]
  BY <1>1 DEF Without, Restrict
<1>3. IsFiniteSet(DOMAIN gone.files)
  BY <1>2, FS_Subset DEF MergerOK
<1>4. MergerOK(gone)
  BY <1>1, <1>2, <1>3 DEF MergerOK
<1>5. \A i : Holders(gone, i) = Holders(l, i) \ {key}
  BY <1>2 DEF Holders
<1> QED BY <1>1, <1>2, <1>4, <1>5 DEF gone

\* A file that nothing is counted in yet.
LEMMA AddFile ==
    ASSUME NEW l, MergerOK(l), NEW key \in Keys, key \notin DOMAIN l.files,
           NEW file \in FileRecord, file.calls = {}
    PROVE  LET more == [l EXCEPT !.files = Put(@, key, file)]
           IN  /\ MergerOK(more) /\ more.events = l.events
               /\ more.writes_without_path = l.writes_without_path
               /\ DOMAIN more.files = DOMAIN l.files \cup {key}
               /\ more.files[key] = file
               /\ \A other \in DOMAIN l.files : more.files[other] = l.files[other]
               /\ \A i : Holders(more, i) = Holders(l, i)
<1> DEFINE more == [l EXCEPT !.files = Put(@, key, file)]
<1>1. /\ more.events = l.events /\ more.writes_without_path = l.writes_without_path
      /\ more.files = Put(l.files, key, file)
      /\ more = [files |-> more.files, writes_without_path |-> more.writes_without_path,
                 events |-> more.events]
  BY DEF MergerOK
<1> HIDE DEF more
<1>2. /\ DOMAIN more.files = DOMAIN l.files \cup {key}
      /\ more.files[key] = file
      /\ \A other \in DOMAIN l.files : more.files[other] = l.files[other]
      /\ more.files = [other \in DOMAIN more.files |-> more.files[other]]
  BY <1>1 DEF Put
<1>3. IsFiniteSet(DOMAIN more.files)
  BY <1>2, FS_AddElement DEF MergerOK
<1>4. MergerOK(more)
  <2>1. \A other \in DOMAIN more.files : more.files[other] \in FileRecord
    BY <1>2 DEF MergerOK
  <2>2. more.files \in [DOMAIN more.files -> FileRecord]
    BY <1>2, <2>1
  <2> QED BY <1>1, <1>2, <1>3, <2>2 DEF MergerOK
<1>5. \A i : Holders(more, i) = Holders(l, i)
  BY <1>2 DEF Holders
<1> QED BY <1>1, <1>2, <1>4, <1>5 DEF more

\* One more write counted in a file.
CountIn(l, key, call) == [l EXCEPT !.files[key].calls = @ \cup {call}]
Counted(l, key, call, more) ==
    /\ MergerOK(more) /\ more.events = l.events
    /\ more.writes_without_path = l.writes_without_path
    /\ DOMAIN more.files = DOMAIN l.files
    /\ more.files[key].path = l.files[key].path /\ more.files[key].abs = l.files[key].abs
    /\ more.files[key].truncated = l.files[key].truncated
    /\ more.files[key].calls = l.files[key].calls \cup {call}
    /\ \A other \in DOMAIN l.files \ {key} : more.files[other] = l.files[other]
    /\ Holders(more, call) = Holders(l, call) \cup {key}
    /\ \A i : i # call => Holders(more, i) = Holders(l, i)

\* Counting disturbs no other file and no event.
LEMMA CountWrite ==
    ASSUME NEW l, MergerOK(l), NEW key \in DOMAIN l.files, NEW call \in Nat,
           NEW more, more = CountIn(l, key, call)
    PROVE  Counted(l, key, call, more)
<1> DEFINE old == l.files[key]
           file == [path |-> old.path, abs |-> old.abs, truncated |-> old.truncated,
                    calls |-> old.calls \cup {call}]
<1>1. old \in FileRecord
  BY DEF MergerOK
<1>2. [old EXCEPT !.calls = @ \cup {call}] = file /\ file \in FileRecord
  <2>1. /\ old = [path |-> old.path, abs |-> old.abs, truncated |-> old.truncated, calls |-> old.calls]
        /\ old.path \in Names /\ old.abs \in BOOLEAN /\ old.truncated \in BOOLEAN
        /\ old.calls \in SUBSET Nat
    BY <1>1 DEF FileRecord
  <2> HIDE DEF old
  <2>2. [old EXCEPT !.calls = @ \cup {call}] = file
    <3>1. PICK p, a, t, c : old = [path |-> p, abs |-> a, truncated |-> t, calls |-> c]
      BY <2>1
    <3>2. old.path = p /\ old.abs = a /\ old.truncated = t /\ old.calls = c
      BY <3>1
    <3>3. [old EXCEPT !.calls = @ \cup {call}]
              = [path |-> p, abs |-> a, truncated |-> t, calls |-> c \cup {call}]
      BY <3>1
    <3> QED BY <3>2, <3>3
  <2>3. file \in FileRecord
    BY <2>1 DEF FileRecord
  <2> QED BY <2>2, <2>3
<1>3. /\ more.events = l.events /\ more.writes_without_path = l.writes_without_path
      /\ more.files = [l.files EXCEPT ![key] = [old EXCEPT !.calls = @ \cup {call}]]
      /\ more = [files |-> more.files, writes_without_path |-> more.writes_without_path,
                 events |-> more.events]
  <2>1. l = [files |-> l.files, writes_without_path |-> l.writes_without_path, events |-> l.events]
    BY DEF MergerOK
  <2>2. more = [l EXCEPT !.files = [l.files EXCEPT ![key] = [old EXCEPT !.calls = @ \cup {call}]]]
    BY DEF CountIn
  <2> DEFINE counted == [l.files EXCEPT ![key] = [old EXCEPT !.calls = @ \cup {call}]]
  <2> HIDE DEF old, counted
  <2>3. more = [l EXCEPT !.files = counted]
    BY <2>2 DEF counted
  <2>4. more = [files |-> counted, writes_without_path |-> l.writes_without_path, events |-> l.events]
    BY <2>1, <2>3
  <2>5. more.files = counted /\ more.events = l.events
        /\ more.writes_without_path = l.writes_without_path
        /\ more = [files |-> more.files, writes_without_path |-> more.writes_without_path,
                   events |-> more.events]
    BY <2>4
  <2> QED BY <2>5 DEF counted
<1>4. more.files = [l.files EXCEPT ![key] = file]
  BY <1>2, <1>3
<1>5. file.calls = l.files[key].calls \cup {call}
  OBVIOUS
<1> HIDE DEF file, old
<1>6. /\ DOMAIN more.files = DOMAIN l.files /\ more.files[key] = file
      /\ \A other \in DOMAIN l.files \ {key} : more.files[other] = l.files[other]
  BY <1>4
<1>7. more.files \in [DOMAIN more.files -> FileRecord]
  BY <1>2, <1>4 DEF MergerOK
<1>8. MergerOK(more)
  BY <1>3, <1>6, <1>7 DEF MergerOK
<1>9. /\ Holders(more, call) = Holders(l, call) \cup {key}
      /\ \A i : i # call => Holders(more, i) = Holders(l, i)
  BY <1>5, <1>6 DEF Holders
<1>10. /\ file.path = l.files[key].path /\ file.abs = l.files[key].abs
       /\ file.truncated = l.files[key].truncated
  BY DEF file, old
<1> QED BY <1>3, <1>5, <1>6, <1>8, <1>9, <1>10 DEF Counted

-----------------------------------------------------------------------------
(* What the merge stage tells                                              *)

\* Write i is told by one event, or is counted in one file and told by none.
Once(l, i) ==
    \/ \E k : Tellers(l, i) = {k} /\ Holders(l, i) = {}
    \/ \E key : Tellers(l, i) = {} /\ Holders(l, i) = {key}
\* Each of the writes w is told once, and nothing else is.
TellsOnce(l, w) ==
    \A i \in Nat : IF i \in w THEN Once(l, i) ELSE Tellers(l, i) = {} /\ Holders(l, i) = {}
\* The writes to unknown descriptors are those of the events without a path.
NamelessCalls(l) == UNION {l.events[k].calls : k \in Nameless(l)}
NamelessOK(l) == l.writes_without_path = NamelessCalls(l)

\* The calls cs used an absolute path where they are said to have used one.
Right(i, name, cs) == cs[i].path.abs /\ cs[i].path.name = name
TrueEvent(e, cs) ==
    /\ e.calls \subseteq DOMAIN cs
    /\ e.origin = "Absolute" => \A i \in e.calls : Right(i, e.path, cs)
TrueFile(f, cs) ==
    /\ f.calls \subseteq DOMAIN cs
    /\ f.abs /\ ~f.truncated => \A i \in f.calls : Right(i, f.path, cs)
Faithful(l, cs) ==
    /\ \A k \in DOMAIN l.events : TrueEvent(l.events[k], cs)
    /\ \A key \in DOMAIN l.files : TrueFile(l.files[key], cs)

\* Places of a sequence are numbers, and the next place is none of them.
LEMMA NextPlace ==
    ASSUME NEW l, MergerOK(l)
    PROVE  /\ Len(l.events) + 1 \notin DOMAIN l.events
           /\ \A i : Len(l.events) + 1 \notin Tellers(l, i)
<1>1. l.events \in Seq(Told)
  BY DEF MergerOK
<1>2. Len(l.events) \in Nat /\ DOMAIN l.events = 1 .. Len(l.events)
  BY <1>1
<1>3. Len(l.events) + 1 \notin DOMAIN l.events
  BY <1>2
<1> QED BY <1>3 DEF Tellers

\* The same events without a path tell of the same writes.
LEMMA SameNameless ==
    ASSUME NEW l, NEW after, Nameless(after) = Nameless(l),
           \A k \in Nameless(l) : after.events[k] = l.events[k]
    PROVE  NamelessCalls(after) = NamelessCalls(l)
<1>1. \A c : c \in NamelessCalls(l) <=> \E k \in Nameless(l) : c \in l.events[k].calls
  BY DEF NamelessCalls
<1>2. \A c : c \in NamelessCalls(after) <=> \E k \in Nameless(after) : c \in after.events[k].calls
  BY DEF NamelessCalls
<1>3. \A c : c \in NamelessCalls(after) <=> c \in NamelessCalls(l)
  BY <1>1, <1>2
<1> QED BY <1>3

\* An event that is no write tells of no write.
LEMMA OtherEvent ==
    ASSUME NEW l, MergerOK(l), NEW e \in Told, e.kind # "write"
    PROVE  LET more == Tell(l, e)
           IN  /\ MergerOK(more) /\ more.files = l.files
               /\ \A w : TellsOnce(l, w) => TellsOnce(more, w)
               /\ NamelessOK(l) => NamelessOK(more)
               /\ \A cs : Faithful(l, cs) /\ TrueEvent(e, cs) => Faithful(more, cs)
<1> DEFINE more == Tell(l, e)
<1>0. more = Tell(l, e)
  OBVIOUS
<1> HIDE DEF more
<1>1. /\ MergerOK(more) /\ more.files = l.files
      /\ more.writes_without_path = l.writes_without_path
      /\ more.events = Append(l.events, e)
      /\ \A i : Holders(more, i) = Holders(l, i)
      /\ \A i : Tellers(more, i) = Tellers(l, i)
      /\ Nameless(more) = Nameless(l)
  <2>1. Added(l, e, more)
    BY <1>0, AddEvent
  <2> QED BY <2>1 DEF Added
<1>2. /\ l.events \in Seq(Told) /\ DOMAIN l.events = 1 .. Len(l.events) /\ Len(l.events) \in Nat
      /\ DOMAIN more.events = 1 .. (Len(l.events) + 1)
      /\ \A k \in DOMAIN l.events : more.events[k] = l.events[k]
      /\ more.events[Len(l.events) + 1] = e
  BY <1>1, Appending DEF MergerOK
<1>3. \A w : TellsOnce(l, w) => TellsOnce(more, w)
  BY <1>1 DEF TellsOnce, Once
<1>4. NamelessOK(l) => NamelessOK(more)
  <2>1. \A k \in Nameless(l) : more.events[k] = l.events[k]
    BY <1>2 DEF Nameless
  <2>2. NamelessCalls(more) = NamelessCalls(l)
    BY <1>1, <2>1, SameNameless
  <2> QED BY <1>1, <2>2 DEF NamelessOK
<1>5. ASSUME NEW cs, Faithful(l, cs), TrueEvent(e, cs) PROVE Faithful(more, cs)
  <2>1. ASSUME NEW k \in DOMAIN more.events PROVE TrueEvent(more.events[k], cs)
    <3>1. k \in DOMAIN l.events \/ k = Len(l.events) + 1
      BY <1>2
    <3> QED BY <3>1, <1>2, <1>5 DEF Faithful
  <2> QED BY <1>1, <1>5, <2>1 DEF Faithful
<1> QED BY <1>1, <1>3, <1>4, <1>5 DEF more

\* What a file's total tells is what was counted in it.
LEMMA TotalOf ==
    ASSUME NEW file \in FileRecord
    PROVE  /\ Total(file) \in Told /\ Total(file).kind = "write"
           /\ Total(file).calls = file.calls /\ Total(file).path = file.path
           /\ \A cs : TrueFile(file, cs) => TrueEvent(Total(file), cs)
<1>1. /\ file.path \in Names /\ file.abs \in BOOLEAN /\ file.truncated \in BOOLEAN
      /\ file.calls \in SUBSET Nat
  BY DEF FileRecord
<1>2. Total(file) = [kind |-> "write", path |-> file.path,
                     origin |-> Origin(file.abs, file.truncated), calls |-> file.calls]
  BY DEF Total, Event
<1>3. Origin(file.abs, file.truncated) \in {"Absolute", "Unresolved"}
  BY DEF Origin
<1>4. Origin(file.abs, file.truncated) = "Absolute" => file.abs /\ ~file.truncated
  BY DEF Origin
<1>5. Total(file) \in Told
  <2>1. PICK origin \in {"Absolute", "Unresolved"} : origin = Origin(file.abs, file.truncated)
    BY <1>3
  <2>2. Total(file) = [kind |-> "write", path |-> file.path, origin |-> origin, calls |-> file.calls]
    BY <1>2, <2>1
  <2>3. "write" \in Kinds
    BY DEF Kinds
  <2>4. file.path \in Names \cup {""}
    BY <1>1
  <2>5. PICK name \in Names \cup {""} : name = file.path
    BY <2>4
  <2>6. PICK counted \in SUBSET Nat : counted = file.calls
    BY <1>1
  <2>7. [kind |-> "write", path |-> name, origin |-> origin, calls |-> counted] \in Told
    BY <2>3 DEF Told
  <2> QED BY <2>2, <2>5, <2>6, <2>7
<1> QED BY <1>2, <1>4, <1>5 DEF TrueFile, TrueEvent

\* Reporting a file moves what was counted in it to an event, once.
LEMMA Flushing ==
    ASSUME NEW l, MergerOK(l), NEW key \in DOMAIN l.files
    PROVE  LET after == FlushFile(l, key)
           IN  /\ MergerOK(after)
               /\ DOMAIN after.files = DOMAIN l.files \ {key}
               /\ \A other \in DOMAIN after.files : after.files[other] = l.files[other]
               /\ \A w : TellsOnce(l, w) => TellsOnce(after, w)
               /\ NamelessOK(l) => NamelessOK(after)
               /\ \A cs : Faithful(l, cs) => Faithful(after, cs)
<1> DEFINE gone == [l EXCEPT !.files = Without(@, key)]
           file == l.files[key]
           after == FlushFile(l, key)
<1>1. /\ MergerOK(gone) /\ gone.events = l.events
      /\ gone.writes_without_path = l.writes_without_path
      /\ DOMAIN gone.files = DOMAIN l.files \ {key}
      /\ \A other \in DOMAIN gone.files : gone.files[other] = l.files[other]
      /\ \A i : Holders(gone, i) = Holders(l, i) \ {key}
  BY DropFile
<1>2. \A i : Tellers(gone, i) = Tellers(l, i)
  BY <1>1 DEF Tellers
<1>3. Nameless(gone) = Nameless(l)
  BY <1>1 DEF Nameless
<1>4. \A i : key \in Holders(l, i) <=> i \in file.calls
  BY DEF Holders
<1>5. file \in FileRecord /\ file.calls \subseteq Nat
  BY DEF MergerOK, FileRecord
<1>6. after = IF file.calls = {} THEN gone ELSE Tell(gone, Total(file))
  BY DEF FlushFile
<1>7. \A cs : Faithful(l, cs) => Faithful(gone, cs) /\ TrueFile(file, cs)
  BY <1>1 DEF Faithful
<1>8. CASE file.calls = {}
  <2>1. after = gone
    BY <1>6, <1>8
  <2> HIDE DEF gone, after, file
  <2>2. \A i : Holders(gone, i) = Holders(l, i)
    BY <1>1, <1>4, <1>8
  <2>3. \A w : TellsOnce(l, w) => TellsOnce(gone, w)
    BY <2>2, <1>2 DEF TellsOnce, Once
  <2>4. NamelessOK(l) => NamelessOK(gone)
    BY <1>1, <1>3, SameNameless DEF NamelessOK
  <2> QED BY <1>1, <1>7, <2>1, <2>3, <2>4 DEF after
<1>9. CASE file.calls # {}
  <2> DEFINE e == Total(file)
             n == Len(l.events) + 1
  <2>1. after = Tell(gone, e)
    BY <1>6, <1>9
  <2>2. e \in Told /\ e.kind = "write" /\ e.calls = file.calls /\ e.path = file.path
    BY <1>5, TotalOf
  <2>3. e.path # ""
    BY <1>5, <2>2, NamesAreNotEmpty DEF FileRecord
  <2>4. \A cs : TrueFile(file, cs) => TrueEvent(e, cs)
    BY <1>5, TotalOf
  <2> HIDE DEF gone, after, file, e
  <2>5. /\ MergerOK(after) /\ after.files = gone.files
        /\ after.writes_without_path = gone.writes_without_path
        /\ after.events = Append(gone.events, e)
        /\ \A i : Holders(after, i) = Holders(gone, i)
        /\ \A i \in file.calls : Tellers(after, i) = Tellers(gone, i) \cup {n}
        /\ \A i : i \notin file.calls => Tellers(after, i) = Tellers(gone, i)
        /\ Nameless(after) = Nameless(gone)
    <3>1. Added(gone, e, after)
      BY <1>1, <2>1, <2>2, AddEvent
    <3> QED BY <1>1, <2>2, <2>3, <3>1 DEF Added
  <2>6. ASSUME NEW w, TellsOnce(l, w) PROVE TellsOnce(after, w)
    <3> SUFFICES ASSUME NEW i \in Nat
                 PROVE  IF i \in w THEN Once(after, i) ELSE Tellers(after, i) = {} /\ Holders(after, i) = {}
      BY DEF TellsOnce
    <3>1. IF i \in w THEN Once(l, i) ELSE Tellers(l, i) = {} /\ Holders(l, i) = {}
      BY <2>6 DEF TellsOnce
    <3>2. CASE i \in file.calls
      <4>1. key \in Holders(l, i)
        BY <1>4, <3>2
      <4>2. i \in w /\ Tellers(l, i) = {} /\ Holders(l, i) = {key}
        BY <3>1, <4>1 DEF Once
      <4>3. Tellers(after, i) = {n} /\ Holders(after, i) = {}
        BY <1>1, <1>2, <2>5, <3>2, <4>2
      <4> QED BY <4>2, <4>3 DEF Once
    <3>3. CASE i \notin file.calls
      <4>1. Tellers(after, i) = Tellers(l, i) /\ Holders(after, i) = Holders(l, i)
        BY <1>1, <1>2, <1>4, <2>5, <3>3
      <4> QED BY <3>1, <4>1 DEF Once
    <3> QED BY <3>2, <3>3
  <2>7. /\ DOMAIN l.events = 1 .. Len(l.events) /\ Len(l.events) \in Nat
        /\ DOMAIN after.events = 1 .. (Len(l.events) + 1)
        /\ \A k \in DOMAIN l.events : after.events[k] = l.events[k]
        /\ after.events[n] = e
    <3>1. l.events \in Seq(Told)
      BY DEF MergerOK
    <3> QED BY <3>1, <1>1, <2>2, <2>5, Appending
  <2>8. NamelessOK(l) => NamelessOK(after)
    <3>1. \A k \in Nameless(l) : after.events[k] = l.events[k]
      BY <2>7 DEF Nameless
    <3>2. NamelessCalls(after) = NamelessCalls(l)
      BY <1>3, <2>5, <3>1, SameNameless
    <3> QED BY <1>1, <2>5, <3>2 DEF NamelessOK
  <2>9. ASSUME NEW cs, Faithful(l, cs) PROVE Faithful(after, cs)
    <3>1. Faithful(gone, cs) /\ TrueEvent(e, cs)
      BY <1>7, <2>4, <2>9
    <3>2. ASSUME NEW k \in DOMAIN after.events PROVE TrueEvent(after.events[k], cs)
      <4>1. k \in DOMAIN l.events \/ k = n
        BY <2>7
      <4> QED BY <4>1, <2>7, <2>9, <3>1 DEF Faithful
    <3> QED BY <2>5, <3>1, <3>2 DEF Faithful
  <2> QED BY <1>1, <2>5, <2>6, <2>8, <2>9 DEF after
<1> QED BY <1>8, <1>9

-----------------------------------------------------------------------------
(* What one record does to the merge stage                                 *)

\* What must be true of a record for the stage to stay true to the calls cs.
TrueRecord(l, r, cs) ==
    /\ r.call \in DOMAIN cs
    /\ Origin(r.abs, r.truncated) = "Absolute" => Right(r.call, r.path, cs)
    /\ r.kind = "write" /\ <<r.tgid, r.fd>> \in DOMAIN l.files =>
           LET f == l.files[<<r.tgid, r.fd>>]
           IN  f.abs /\ ~f.truncated => Right(r.call, f.path, cs)

SameFile(f, g) == f.path = g.path /\ f.abs = g.abs /\ f.truncated = g.truncated

\* A record moves the stage from l to after.
Fed(l, r, after) ==
    /\ MergerOK(after)
    /\ \A w : TellsOnce(l, w) /\ r.call \notin w =>
           TellsOnce(after, IF r.kind = "write" THEN w \cup {r.call} ELSE w)
    /\ NamelessOK(l) => NamelessOK(after)
    /\ \A cs : Faithful(l, cs) /\ TrueRecord(l, r, cs) => Faithful(after, cs)

\* The files the stage has open after it.
Filed(l, r, after) ==
    LET key == <<r.tgid, r.fd>>
    IN  /\ r.kind = "open" /\ ~r.failed =>
               /\ DOMAIN after.files = DOMAIN l.files \cup {key}
               /\ SameFile(after.files[key], r)
        /\ r.kind = "close" => DOMAIN after.files = DOMAIN l.files \ {key}
        /\ (r.kind = "open" => r.failed) /\ r.kind # "close" => DOMAIN after.files = DOMAIN l.files
        /\ \A other \in DOMAIN after.files : other # key \/ r.kind # "open" \/ r.failed =>
               SameFile(after.files[other], l.files[other])

\* The event made of a record tells of the record's own call.
LEMMA EventOfRecord ==
    ASSUME NEW r, RecordOK(r)
    PROVE  /\ EventOf(r) \in Told /\ EventOf(r).kind = r.kind
           /\ EventOf(r).calls = {r.call} /\ EventOf(r).path = r.path
           /\ \A l, cs : TrueRecord(l, r, cs) => TrueEvent(EventOf(r), cs)
<1>1. /\ r.kind \in Kinds /\ r.path \in Names \cup {""} /\ r.call \in Nat
      /\ r.abs \in BOOLEAN /\ r.truncated \in BOOLEAN
  BY DEF RecordOK, Sent
<1>2. PICK origin \in {"Absolute", "Unresolved"} : origin = Origin(r.abs, r.truncated)
  BY DEF Origin
<1>3. EventOf(r) = [kind |-> r.kind, path |-> r.path, origin |-> origin, calls |-> {r.call}]
  BY <1>2 DEF EventOf, Event
<1>4. PICK kind \in Kinds : kind = r.kind
  BY <1>1
<1>5. PICK name \in Names \cup {""} : name = r.path
  BY <1>1
<1>6. PICK call \in Nat : call = r.call
  BY <1>1
<1>7. {call} \in SUBSET Nat
  OBVIOUS
<1>8. [kind |-> kind, path |-> name, origin |-> origin, calls |-> {call}] \in Told
  BY <1>7 DEF Told
<1>9. EventOf(r) \in Told
  BY <1>3, <1>4, <1>5, <1>6, <1>8
<1>10. /\ EventOf(r).kind = r.kind /\ EventOf(r).calls = {r.call} /\ EventOf(r).path = r.path
       /\ EventOf(r).origin = Origin(r.abs, r.truncated)
  BY DEF EventOf, Event
<1>11. ASSUME NEW l, NEW cs, TrueRecord(l, r, cs) PROVE TrueEvent(EventOf(r), cs)
  <2> DEFINE e == EventOf(r)
  <2> HIDE DEF e
  <2>1. /\ e.calls = {r.call} /\ e.path = r.path /\ e.origin = Origin(r.abs, r.truncated)
    BY <1>10 DEF e
  <2>2. r.call \in DOMAIN cs /\ (Origin(r.abs, r.truncated) = "Absolute" => Right(r.call, r.path, cs))
    BY <1>11 DEF TrueRecord
  <2>3. TrueEvent(e, cs)
    BY <2>1, <2>2 DEF TrueEvent
  <2> QED BY <2>3 DEF e
<1> QED BY <1>9, <1>10, <1>11

\* A record that is told and changes no file.
LEMMA Telling ==
    ASSUME NEW l, MergerOK(l), NEW r, RecordOK(r), r.kind # "write"
    PROVE  LET after == Tell(l, EventOf(r))
           IN  Fed(l, r, after) /\ after.files = l.files
<1> DEFINE e == EventOf(r)
           after == Tell(l, e)
<1>1. e \in Told /\ e.kind = r.kind /\ \A cs : TrueRecord(l, r, cs) => TrueEvent(e, cs)
  BY EventOfRecord
<1> HIDE DEF e
<1>2. /\ MergerOK(after) /\ after.files = l.files
      /\ \A w : TellsOnce(l, w) => TellsOnce(after, w)
      /\ NamelessOK(l) => NamelessOK(after)
      /\ \A cs : Faithful(l, cs) /\ TrueEvent(e, cs) => Faithful(after, cs)
  BY <1>1, OtherEvent
<1> HIDE DEF after
<1> QED BY <1>1, <1>2 DEF Fed, after, e

\* The stage still tells, once, what it told.
Kept(l, after) ==
    /\ MergerOK(after)
    /\ \A w : TellsOnce(l, w) => TellsOnce(after, w)
    /\ NamelessOK(l) => NamelessOK(after)
    /\ \A cs : Faithful(l, cs) => Faithful(after, cs)

\* A file that is entered counts nothing yet.
LEMMA Registering ==
    ASSUME NEW l, MergerOK(l), NEW r, RecordOK(r), r.kind = "open",
           NEW key, key = <<r.tgid, r.fd>>, key \notin DOMAIN l.files
    PROVE  LET after == [l EXCEPT !.files = Put(@, key, FileOf(r))]
           IN  /\ Kept(l, after)
               /\ DOMAIN after.files = DOMAIN l.files \cup {key}
               /\ SameFile(after.files[key], r)
               /\ \A other \in DOMAIN l.files : after.files[other] = l.files[other]
<1> DEFINE after == [l EXCEPT !.files = Put(@, key, FileOf(r))]
           file == FileOf(r)
<1>1. key \in Keys
  BY DEF RecordOK, Sent, Keys
<1>2. file \in FileRecord /\ file.calls = {} /\ SameFile(file, r)
  <2>1. r.path \in Names /\ r.abs \in BOOLEAN /\ r.truncated \in BOOLEAN
    BY DEF RecordOK, Sent
  <2>2. file.path = r.path /\ file.abs = r.abs /\ file.truncated = r.truncated /\ file.calls = {}
    BY DEF FileOf
  <2>3. file \in FileRecord
    BY <2>1 DEF FileOf, FileRecord
  <2> QED BY <2>2, <2>3 DEF SameFile
<1> HIDE DEF file
<1>3. /\ MergerOK(after) /\ after.events = l.events
      /\ after.writes_without_path = l.writes_without_path
      /\ DOMAIN after.files = DOMAIN l.files \cup {key}
      /\ after.files[key] = file
      /\ \A other \in DOMAIN l.files : after.files[other] = l.files[other]
      /\ \A i : Holders(after, i) = Holders(l, i)
  BY <1>1, <1>2, AddFile DEF file
<1> HIDE DEF after
<1>4. \A i : Tellers(after, i) = Tellers(l, i)
  BY <1>3 DEF Tellers
<1>5. Nameless(after) = Nameless(l)
  BY <1>3 DEF Nameless
<1>6. \A w : TellsOnce(l, w) => TellsOnce(after, w)
  BY <1>3, <1>4 DEF TellsOnce, Once
<1>7. NamelessOK(l) => NamelessOK(after)
  BY <1>3, <1>5, SameNameless DEF NamelessOK
<1>8. ASSUME NEW cs, Faithful(l, cs) PROVE Faithful(after, cs)
  <2>1. TrueFile(after.files[key], cs)
    BY <1>2, <1>3 DEF TrueFile
  <2> QED BY <1>3, <1>8, <2>1 DEF Faithful
<1>9. Kept(l, after)
  BY <1>3, <1>6, <1>7, <1>8 DEF Kept
<1> QED BY <1>2, <1>3, <1>9 DEF after

\* What happens to the files before a record is told.
LEMMA KeptThenFed ==
    ASSUME NEW l, NEW m, NEW r, NEW after, Kept(l, m), Fed(m, r, after),
           \A cs : TrueRecord(l, r, cs) => TrueRecord(m, r, cs)
    PROVE  Fed(l, r, after)
<1>1. \A w : TellsOnce(l, w) => TellsOnce(m, w)
  BY DEF Kept
<1>2. \A cs : Faithful(l, cs) => Faithful(m, cs)
  BY DEF Kept
<1>3. NamelessOK(l) => NamelessOK(m)
  BY DEF Kept
<1> QED BY <1>1, <1>2, <1>3 DEF Fed

\* An open names its descriptor, after reporting what was counted under it.
LEMMA MergingOpen ==
    ASSUME NEW l, MergerOK(l), NEW r, RecordOK(r), r.kind = "open"
    PROVE  Fed(l, r, MergeOpen(l, r)) /\ Filed(l, r, MergeOpen(l, r))
<1> DEFINE key == <<r.tgid, r.fd>>
           flushed == IF key \in DOMAIN l.files THEN FlushFile(l, key) ELSE l
           registered == IF r.failed THEN l ELSE [flushed EXCEPT !.files = Put(@, key, FileOf(r))]
           after == MergeOpen(l, r)
<1>1. after = Tell(registered, EventOf(r))
  BY DEF MergeOpen
<1>2. /\ Kept(l, flushed)
      /\ DOMAIN flushed.files = DOMAIN l.files \ {key}
      /\ \A other \in DOMAIN flushed.files : flushed.files[other] = l.files[other]
  <2>1. CASE key \in DOMAIN l.files
    BY <2>1, Flushing DEF Kept
  <2>2. CASE key \notin DOMAIN l.files
    <3>1. flushed = l
      BY <2>2
    <3>2. Kept(l, l)
      BY DEF Kept
    <3> QED BY <2>2, <3>1, <3>2
  <2> QED BY <2>1, <2>2
<1> HIDE DEF flushed
<1>3. /\ Kept(l, registered)
      /\ ~r.failed => /\ DOMAIN registered.files = DOMAIN l.files \cup {key}
                      /\ SameFile(registered.files[key], r)
      /\ r.failed => DOMAIN registered.files = DOMAIN l.files
      /\ \A other \in DOMAIN registered.files : other # key \/ r.failed =>
             registered.files[other] = l.files[other]
  <2>1. CASE r.failed
    <3>1. registered = l
      BY <2>1
    <3>2. Kept(l, l)
      BY DEF Kept
    <3> QED BY <2>1, <3>1, <3>2
  <2>2. CASE ~r.failed
    <3>1. registered = [flushed EXCEPT !.files = Put(@, key, FileOf(r))]
      BY <2>2
    <3>2. MergerOK(flushed) /\ key \notin DOMAIN flushed.files
      BY <1>2 DEF Kept
    <3>3. /\ Kept(flushed, registered)
          /\ DOMAIN registered.files = DOMAIN flushed.files \cup {key}
          /\ SameFile(registered.files[key], r)
          /\ \A other \in DOMAIN flushed.files : registered.files[other] = flushed.files[other]
      <4>1. PICK k : k = key
        OBVIOUS
      <4>2. LET entered == [flushed EXCEPT !.files = Put(@, k, FileOf(r))]
            IN  /\ Kept(flushed, entered)
                /\ DOMAIN entered.files = DOMAIN flushed.files \cup {k}
                /\ SameFile(entered.files[k], r)
                /\ \A other \in DOMAIN flushed.files : entered.files[other] = flushed.files[other]
        BY <3>2, <4>1, Registering
      <4>3. registered = [flushed EXCEPT !.files = Put(@, k, FileOf(r))]
        BY <3>1, <4>1
      <4> HIDE DEF registered
      <4> QED BY <4>1, <4>2, <4>3
    <3> HIDE DEF registered
    <3>4. Kept(l, registered)
      BY <1>2, <3>3 DEF Kept
    <3> QED BY <1>2, <2>2, <3>3, <3>4
  <2> QED BY <2>1, <2>2
<1> HIDE DEF registered
<1>4. Fed(registered, r, after) /\ after.files = registered.files
  BY <1>1, <1>3, Telling DEF Kept
<1>5. Fed(l, r, after)
  <2>1. \A cs : TrueRecord(l, r, cs) => TrueRecord(registered, r, cs)
    BY DEF TrueRecord
  <2> QED BY <1>3, <1>4, <2>1, KeptThenFed
<1>6. Filed(l, r, after)
  BY <1>3, <1>4 DEF Filed, SameFile
<1> QED BY <1>5, <1>6 DEF after

\* A close reports what was counted, and no longer knows the descriptor.
LEMMA MergingClose ==
    ASSUME NEW l, MergerOK(l), NEW r, RecordOK(r), r.kind = "close"
    PROVE  Fed(l, r, MergeClose(l, r)) /\ Filed(l, r, MergeClose(l, r))
<1> DEFINE key == <<r.tgid, r.fd>>
           after == MergeClose(l, r)
<1>1. /\ Kept(l, after)
      /\ DOMAIN after.files = DOMAIN l.files \ {key}
      /\ \A other \in DOMAIN after.files : after.files[other] = l.files[other]
  <2>1. CASE key \in DOMAIN l.files
    BY <2>1, Flushing DEF Kept, MergeClose
  <2>2. CASE key \notin DOMAIN l.files
    <3>1. after = l
      BY <2>2 DEF MergeClose
    <3>2. Kept(l, l)
      BY DEF Kept
    <3> QED BY <2>2, <3>1, <3>2
  <2> QED BY <2>1, <2>2
<1> HIDE DEF after
<1>2. Fed(l, r, after)
  BY <1>1 DEF Kept, Fed
<1>3. Filed(l, r, after)
  BY <1>1 DEF Filed, SameFile
<1> QED BY <1>2, <1>3 DEF after

\* A write to a file the stage knows is counted in it.
LEMMA MergingKnownWrite ==
    ASSUME NEW l, MergerOK(l), NEW r, RecordOK(r), r.kind = "write",
           NEW key, key = <<r.tgid, r.fd>>, key \in DOMAIN l.files
    PROVE  LET after == [l EXCEPT !.files[key].calls = @ \cup {r.call}]
           IN  Fed(l, r, after) /\ Filed(l, r, after)
<1> DEFINE after == [l EXCEPT !.files[key].calls = @ \cup {r.call}]
           f == l.files[key]
<1>1. r.call \in Nat
  BY DEF RecordOK, Sent
<1>2. Counted(l, key, r.call, after)
  <2>1. PICK call \in Nat : call = r.call
    BY <1>1
  <2>2. after = CountIn(l, key, call)
    BY <2>1 DEF CountIn
  <2> HIDE DEF after
  <2>3. Counted(l, key, call, after)
    BY <2>2, CountWrite
  <2> QED BY <2>1, <2>3
<1> HIDE DEF after
<1>3. /\ MergerOK(after) /\ after.events = l.events
      /\ after.writes_without_path = l.writes_without_path
      /\ DOMAIN after.files = DOMAIN l.files
      /\ after.files[key].path = f.path /\ after.files[key].abs = f.abs
      /\ after.files[key].truncated = f.truncated /\ after.files[key].calls = f.calls \cup {r.call}
      /\ \A other \in DOMAIN l.files \ {key} : after.files[other] = l.files[other]
      /\ Holders(after, r.call) = Holders(l, r.call) \cup {key}
      /\ \A i : i # r.call => Holders(after, i) = Holders(l, i)
  BY <1>2 DEF Counted
<1>4. \A i : Tellers(after, i) = Tellers(l, i)
  BY <1>3 DEF Tellers
<1>5. Nameless(after) = Nameless(l)
  BY <1>3 DEF Nameless
<1>6. NamelessOK(l) => NamelessOK(after)
  BY <1>3, <1>5, SameNameless DEF NamelessOK
<1>7. ASSUME NEW w, TellsOnce(l, w), r.call \notin w PROVE TellsOnce(after, w \cup {r.call})
  <2> SUFFICES ASSUME NEW i \in Nat
               PROVE  IF i \in w \cup {r.call} THEN Once(after, i)
                      ELSE Tellers(after, i) = {} /\ Holders(after, i) = {}
    BY DEF TellsOnce
  <2>1. CASE i = r.call
    <3>1. Tellers(l, i) = {} /\ Holders(l, i) = {}
      BY <1>7, <2>1 DEF TellsOnce
    <3>2. Tellers(after, i) = {} /\ Holders(after, i) = {key}
      BY <1>3, <1>4, <2>1, <3>1
    <3> QED BY <2>1, <3>2 DEF Once
  <2>2. CASE i # r.call
    <3>1. Tellers(after, i) = Tellers(l, i) /\ Holders(after, i) = Holders(l, i)
      BY <1>3, <1>4, <2>2
    <3> QED BY <1>7, <2>2, <3>1 DEF TellsOnce, Once
  <2> QED BY <2>1, <2>2
<1>8. ASSUME NEW cs, Faithful(l, cs), TrueRecord(l, r, cs) PROVE Faithful(after, cs)
  <2>1. /\ r.call \in DOMAIN cs
        /\ f.abs /\ ~f.truncated => Right(r.call, f.path, cs)
    BY <1>8 DEF TrueRecord
  <2>2. TrueFile(f, cs)
    BY <1>8 DEF Faithful
  <2> HIDE DEF f
  <2>3. TrueFile(after.files[key], cs)
    BY <1>3, <2>1, <2>2 DEF TrueFile
  <2>4. \A other \in DOMAIN after.files : TrueFile(after.files[other], cs)
    BY <1>3, <1>8, <2>3 DEF Faithful
  <2> QED BY <1>3, <1>8, <2>4 DEF Faithful
<1>9. Fed(l, r, after)
  BY <1>3, <1>6, <1>7, <1>8 DEF Fed
<1>10. Filed(l, r, after)
  BY <1>3 DEF Filed, SameFile
<1> QED BY <1>9, <1>10 DEF after

\* A write to another descriptor is told on its own, without a path.
LEMMA MergingUnknownWrite ==
    ASSUME NEW l, MergerOK(l), NEW r, RecordOK(r), r.kind = "write",
           <<r.tgid, r.fd>> \notin DOMAIN l.files
    PROVE  LET after == [Tell(l, EventOf(r)) EXCEPT !.writes_without_path = @ \cup {r.call}]
           IN  Fed(l, r, after) /\ Filed(l, r, after)
<1> DEFINE e == EventOf(r)
           told == Tell(l, e)
           after == [told EXCEPT !.writes_without_path = @ \cup {r.call}]
           n == Len(l.events) + 1
<1>1. /\ e \in Told /\ e.kind = "write" /\ e.calls = {r.call} /\ e.path = ""
      /\ \A cs : TrueRecord(l, r, cs) => TrueEvent(e, cs)
  BY EventOfRecord DEF RecordOK
<1> HIDE DEF e
<1>2. Added(l, e, told)
  BY <1>1, AddEvent
<1> HIDE DEF told
<1>3. /\ after.files = told.files /\ after.events = told.events
      /\ after.writes_without_path = told.writes_without_path \cup {r.call}
      /\ after = [files |-> after.files, writes_without_path |-> after.writes_without_path,
                   events |-> after.events]
  <2>1. told = [files |-> told.files, writes_without_path |-> told.writes_without_path,
                events |-> told.events]
    BY <1>2 DEF Added, MergerOK
  <2>2. after = [files |-> told.files, writes_without_path |-> told.writes_without_path \cup {r.call},
                 events |-> told.events]
    BY <2>1
  <2> HIDE DEF after
  <2> QED BY <2>2
<1> HIDE DEF after
<1>4. /\ after.files = l.files /\ after.events = Append(l.events, e)
      /\ after.writes_without_path = l.writes_without_path \cup {r.call}
      /\ MergerOK(after)
  <2>1. r.call \in Nat
    BY DEF RecordOK, Sent
  <2>2. told.files = l.files /\ told.events = Append(l.events, e) /\ MergerOK(told)
        /\ told.writes_without_path = l.writes_without_path
    BY <1>2 DEF Added
  <2> QED BY <1>3, <2>1, <2>2 DEF MergerOK
<1>5. /\ \A i : Holders(after, i) = Holders(l, i)
      /\ Tellers(after, r.call) = Tellers(l, r.call) \cup {n}
      /\ \A i : i # r.call => Tellers(after, i) = Tellers(l, i)
      /\ Nameless(after) = Nameless(l) \cup {n}
  <2>1. /\ \A i : Holders(told, i) = Holders(l, i)
        /\ \A i : e.kind = "write" /\ i \in e.calls => Tellers(told, i) = Tellers(l, i) \cup {n}
        /\ \A i : ~(e.kind = "write" /\ i \in e.calls) => Tellers(told, i) = Tellers(l, i)
        /\ e.kind = "write" /\ e.path = "" => Nameless(told) = Nameless(l) \cup {n}
    BY <1>2 DEF Added
  <2>2. /\ \A i : Holders(after, i) = Holders(told, i)
        /\ \A i : Tellers(after, i) = Tellers(told, i)
        /\ Nameless(after) = Nameless(told)
    BY <1>3 DEF Holders, Tellers, Nameless
  <2> QED BY <1>1, <2>1, <2>2
<1>6. /\ n \notin DOMAIN l.events /\ DOMAIN after.events = DOMAIN l.events \cup {n}
      /\ \A k \in DOMAIN l.events : after.events[k] = l.events[k]
      /\ after.events[n] = e
  <2>1. l.events \in Seq(Told)
    BY DEF MergerOK
  <2>2. PICK m \in Nat : m = Len(l.events)
    BY <2>1, Appending, <1>1
  <2>3. /\ DOMAIN l.events = 1 .. m /\ DOMAIN after.events = 1 .. (m + 1)
        /\ \A k \in 1 .. m : after.events[k] = l.events[k]
        /\ after.events[m + 1] = e
    <3>1. LET more == Append(l.events, e)
          IN  /\ DOMAIN l.events = 1 .. Len(l.events) /\ DOMAIN more = 1 .. (Len(l.events) + 1)
              /\ \A k \in 1 .. Len(l.events) : more[k] = l.events[k]
              /\ more[Len(l.events) + 1] = e
      <4>1. PICK s \in Seq(Told) : s = l.events
        BY <2>1
      <4>2. PICK x \in Told : x = e
        BY <1>1
      <4>3. /\ DOMAIN s = 1 .. Len(s) /\ DOMAIN Append(s, x) = 1 .. (Len(s) + 1)
            /\ \A k \in 1 .. Len(s) : Append(s, x)[k] = s[k]
            /\ Append(s, x)[Len(s) + 1] = x
        BY Appending
      <4> QED BY <4>1, <4>2, <4>3
    <3> QED BY <1>4, <2>2, <3>1
  <2>4. m + 1 \notin 1 .. m /\ 1 .. (m + 1) = (1 .. m) \cup {m + 1}
    OBVIOUS
  <2> QED BY <2>2, <2>3, <2>4
<1>7. NamelessOK(l) => NamelessOK(after)
  <2>1. NamelessCalls(after) = NamelessCalls(l) \cup {r.call}
    <3>1. \A k \in Nameless(l) : after.events[k] = l.events[k]
      BY <1>6 DEF Nameless
    <3>2. after.events[n].calls = {r.call}
      BY <1>1, <1>6
    <3>3. \A c : c \in NamelessCalls(l) <=> \E k \in Nameless(l) : c \in l.events[k].calls
      BY DEF NamelessCalls
    <3>4. \A c : c \in NamelessCalls(after) <=> \E k \in Nameless(after) : c \in after.events[k].calls
      BY DEF NamelessCalls
    <3>5. \A c : c \in NamelessCalls(after) <=> c \in NamelessCalls(l) \/ c = r.call
      BY <1>5, <3>1, <3>2, <3>3, <3>4
    <3> QED BY <3>5
  <2> QED BY <1>4, <2>1 DEF NamelessOK
<1>8. ASSUME NEW w, TellsOnce(l, w), r.call \notin w PROVE TellsOnce(after, w \cup {r.call})
  <2> SUFFICES ASSUME NEW i \in Nat
               PROVE  IF i \in w \cup {r.call} THEN Once(after, i)
                      ELSE Tellers(after, i) = {} /\ Holders(after, i) = {}
    BY DEF TellsOnce
  <2>1. CASE i = r.call
    <3>1. Tellers(l, i) = {} /\ Holders(l, i) = {}
      BY <1>8, <2>1 DEF TellsOnce
    <3>2. Tellers(after, i) = {n} /\ Holders(after, i) = {}
      BY <1>5, <2>1, <3>1
    <3> QED BY <2>1, <3>2 DEF Once
  <2>2. CASE i # r.call
    <3>1. Tellers(after, i) = Tellers(l, i) /\ Holders(after, i) = Holders(l, i)
      BY <1>5, <2>2
    <3> QED BY <1>8, <2>2, <3>1 DEF TellsOnce, Once
  <2> QED BY <2>1, <2>2
<1>9. ASSUME NEW cs, Faithful(l, cs), TrueRecord(l, r, cs) PROVE Faithful(after, cs)
  <2>1. TrueEvent(e, cs)
    BY <1>1, <1>9
  <2>2. \A k \in DOMAIN after.events : TrueEvent(after.events[k], cs)
    BY <1>6, <1>9, <2>1 DEF Faithful
  <2> QED BY <1>4, <1>9, <2>2 DEF Faithful
<1>10. Fed(l, r, after)
  BY <1>4, <1>7, <1>8, <1>9 DEF Fed
<1>11. Filed(l, r, after)
  BY <1>4 DEF Filed, SameFile
<1> QED BY <1>10, <1>11 DEF after, told, e

\* Whatever the record, the stage keeps its books.
LEMMA Merging ==
    ASSUME NEW l, MergerOK(l), NEW r, RecordOK(r)
    PROVE  Fed(l, r, MergeOne(l, r)) /\ Filed(l, r, MergeOne(l, r))
<1>1. CASE r.kind = "open"
  <2>1. MergeOne(l, r) = MergeOpen(l, r)
    BY <1>1 DEF MergeOne
  <2> QED BY <1>1, <2>1, MergingOpen
<1>2. CASE r.kind = "write"
  <2>1. MergeOne(l, r) = MergeWrite(l, r)
    BY <1>2 DEF MergeOne
  <2>2. CASE <<r.tgid, r.fd>> \in DOMAIN l.files
    <3>1. PICK key : key = <<r.tgid, r.fd>>
      OBVIOUS
    <3>2. MergeWrite(l, r) = [l EXCEPT !.files[key].calls = @ \cup {r.call}]
      BY <2>2, <3>1 DEF MergeWrite
    <3> QED BY <1>2, <2>1, <2>2, <3>1, <3>2, MergingKnownWrite
  <2>3. CASE <<r.tgid, r.fd>> \notin DOMAIN l.files
    <3>1. MergeWrite(l, r) = [Tell(l, EventOf(r)) EXCEPT !.writes_without_path = @ \cup {r.call}]
      BY <2>3 DEF MergeWrite
    <3> QED BY <1>2, <2>1, <2>3, <3>1, MergingUnknownWrite
  <2> QED BY <2>2, <2>3
<1>3. CASE r.kind = "close"
  <2>1. MergeOne(l, r) = MergeClose(l, r)
    BY <1>3 DEF MergeOne
  <2> QED BY <1>3, <2>1, MergingClose
<1>4. CASE r.kind \notin {"open", "write", "close"}
  <2>1. MergeOne(l, r) = l \/ MergeOne(l, r) = Tell(l, EventOf(r))
    BY <1>4 DEF MergeOne
  <2>2. CASE MergeOne(l, r) = l
    <3>1. Fed(l, r, l)
      BY <1>4 DEF Fed
    <3>2. Filed(l, r, l)
      BY <1>4 DEF Filed, SameFile
    <3> QED BY <2>2, <3>1, <3>2
  <2>3. CASE MergeOne(l, r) = Tell(l, EventOf(r))
    <3>1. Fed(l, r, MergeOne(l, r)) /\ MergeOne(l, r).files = l.files
      BY <1>4, <2>3, Telling
    <3>2. Filed(l, r, MergeOne(l, r))
      BY <1>4, <3>1 DEF Filed, SameFile
    <3> QED BY <3>1, <3>2
  <2> QED BY <2>1, <2>2, <2>3
<1> QED BY <1>1, <1>2, <1>3, <1>4

-----------------------------------------------------------------------------
(* The calls and the tables of the kernel                                  *)

Ops == Kinds \cup {"read", "pipe"}
Made == [op : Ops, tgid : Processes, fd : Nat, path : Paths \cup {NoPath}]
Opening == [in : {"open"}, path : Paths, writing : BOOLEAN, cloexec : BOOLEAN]

TypeOK ==
    /\ mix \in Mixes
    /\ task \in [Tasks -> {Idle} \cup Opening]
    /\ calls \in Seq(Made) /\ Len(calls) <= mix.calls
    /\ DOMAIN inflight \subseteq {t \in Tasks : tracked(t)}
    /\ \A t \in DOMAIN inflight : inflight[t] \in Paths
    /\ hidden \in BOOLEAN /\ leaked \in BOOLEAN

\* The descriptors of a process: no more of them than there were calls.
OpenOK ==
    /\ DOMAIN open = Processes
    /\ \A p \in Processes :
           /\ IsFiniteSet(DOMAIN open[p]) /\ Cardinality(DOMAIN open[p]) <= Len(calls)
           /\ \A fd \in DOMAIN open[p] : fd \in Nat /\ open[p][fd].path \in Paths \cup {NoPath}

\* As long as none leaked, a parked open is that of a task still in it.
Parked ==
    ~leaked => \A t \in DOMAIN inflight :
        task[t] # Idle /\ task[t].writing /\ task[t].path = inflight[t]

\* A record and the call it reports.
Paired(r, cs) ==
    /\ r.call \in DOMAIN cs
    /\ LET call == cs[r.call]
       IN  /\ call.op = "open" /\ call.tgid = r.tgid /\ call.fd = r.fd
           /\ r.path = Named(r, call.path).path
RecordsPaired ==
    /\ records \in Seq(Sent)
    /\ ~leaked => \A k \in DOMAIN records : records[k].kind = "open" => Paired(records[k], calls)

Writes(cs) == {i \in DOMAIN cs : cs[i].op = "write" /\ cs[i].tgid \in Tracked}
BooksKept == MergerOK(merge) /\ TellsOnce(merge, Writes(calls)) /\ NamelessOK(merge)

\* As long as every end was reported, a file the stage has open is open, under
\* the path it was opened with.
SamePath(f, entry) == f.abs /\ ~f.truncated => entry.path.abs /\ entry.path.name = f.path
Behind ==
    \A key \in DOMAIN merge.files :
        key[2] \in DOMAIN open[key[1]] /\ SamePath(merge.files[key], open[key[1]][key[2]])
StageTrue == ~hidden /\ ~leaked => Faithful(merge, calls) /\ Behind

Inv == TypeOK /\ OpenOK /\ Parked /\ RecordsPaired /\ BooksKept /\ StageTrue

-----------------------------------------------------------------------------
(* Records as the probes fill them                                         *)

\* A record, field by field; one without a path, and one with a path.
Filled(kind, tgid, fd, path, abs, truncated, failed, known, call) ==
    [kind |-> kind, tgid |-> tgid, fd |-> fd, path |-> path, abs |-> abs,
     truncated |-> truncated, failed |-> failed, known |-> known, call |-> call]
Plain(t, kind, fd, known) ==
    Filled(kind, Group[t], fd, "", FALSE, FALSE, FALSE, known, Len(calls) + 1)
Pathed(t, kind, fd, path, failed) ==
    Filled(kind, Group[t], fd, IF path.long THEN "cut" ELSE path.name, path.abs, path.long,
           failed, TRUE, Len(calls) + 1)

Exited(t, path, failed, fd) ==
    [Named(Record(t, "open"), path) EXCEPT !.failed = failed, !.fd = fd]

\* What the probes send is one of the two.
LEMMA Filling ==
    ASSUME NEW t
    PROVE  /\ \A fd : [Record(t, "write") EXCEPT !.fd = fd] = Plain(t, "write", fd, TRUE)
           /\ \A fd : [Record(t, "close") EXCEPT !.fd = fd] = Plain(t, "close", fd, TRUE)
           /\ \A known : [Record(t, "connect") EXCEPT !.known = known] = Plain(t, "connect", NoFd, known)
           /\ Record(t, "exec") = Plain(t, "exec", NoFd, TRUE)
           /\ \A path : Named(Record(t, "mkdir"), path) = Pathed(t, "mkdir", NoFd, path, FALSE)
           /\ \A path, failed, fd : Exited(t, path, failed, fd) = Pathed(t, "open", fd, path, failed)
<1>1. PICK no : no = FALSE
  OBVIOUS
<1>2. PICK yes : yes = TRUE
  OBVIOUS
<1>3. PICK p : p = Group[t]
  OBVIOUS
<1>4. PICK call : call = Len(calls) + 1
  OBVIOUS
<1>5. ASSUME NEW kind
      PROVE  Record(t, kind) = Filled(kind, p, NoFd, "", no, no, no, yes, call)
  BY <1>1, <1>2, <1>3, <1>4 DEF Record, Filled
<1>6. ASSUME NEW kind, NEW fd, NEW known
      PROVE  Plain(t, kind, fd, known) = Filled(kind, p, fd, "", no, no, no, known, call)
  BY <1>1, <1>3, <1>4 DEF Plain
<1>7. ASSUME NEW kind, NEW fd, NEW path, NEW failed, NEW name,
             name = IF path.long THEN "cut" ELSE path.name
      PROVE  Pathed(t, kind, fd, path, failed)
               = Filled(kind, p, fd, name, path.abs, path.long, failed, yes, call)
  BY <1>2, <1>3, <1>4, <1>7 DEF Pathed
<1>8. ASSUME NEW kind, NEW fd PROVE [Record(t, kind) EXCEPT !.fd = fd] = Plain(t, kind, fd, yes)
  <2>1. PICK r : r = Record(t, kind)
    OBVIOUS
  <2>2. PICK empty : empty = ""
    OBVIOUS
  <2>3. r = Filled(kind, p, NoFd, empty, no, no, no, yes, call)
    BY <1>5, <2>1, <2>2
  <2>4. [r EXCEPT !.fd = fd] = Filled(kind, p, fd, empty, no, no, no, yes, call)
    BY <2>3 DEF Filled
  <2> QED BY <1>6, <2>1, <2>2, <2>4
<1>9. ASSUME NEW known
      PROVE  [Record(t, "connect") EXCEPT !.known = known] = Plain(t, "connect", NoFd, known)
  <2>1. PICK r : r = Record(t, "connect")
    OBVIOUS
  <2>2. PICK empty : empty = ""
    OBVIOUS
  <2>3. r = Filled("connect", p, NoFd, empty, no, no, no, yes, call)
    BY <1>5, <2>1, <2>2
  <2>4. [r EXCEPT !.known = known] = Filled("connect", p, NoFd, empty, no, no, no, known, call)
    BY <2>3 DEF Filled
  <2> QED BY <1>6, <2>1, <2>2, <2>4
<1>10. Record(t, "exec") = Plain(t, "exec", NoFd, yes)
  BY <1>5, <1>6
<1>11. ASSUME NEW kind, NEW path
       PROVE  Named(Record(t, kind), path) = Pathed(t, kind, NoFd, path, no)
  <2>1. PICK name : name = IF path.long THEN "cut" ELSE path.name
    OBVIOUS
  <2>2. PICK r : r = Record(t, kind)
    OBVIOUS
  <2>3. r = Filled(kind, p, NoFd, "", no, no, no, yes, call)
    BY <1>5, <2>2
  <2>4. [r EXCEPT !.path = name, !.abs = path.abs, !.truncated = path.long]
          = Filled(kind, p, NoFd, name, path.abs, path.long, no, yes, call)
    <3>1. PICK m : m = [r EXCEPT !.path = name]
      OBVIOUS
    <3>2. m = Filled(kind, p, NoFd, name, no, no, no, yes, call)
      BY <2>3, <3>1 DEF Filled
    <3>3. PICK n : n = [m EXCEPT !.abs = path.abs]
      OBVIOUS
    <3>4. n = Filled(kind, p, NoFd, name, path.abs, no, no, yes, call)
      BY <3>2, <3>3 DEF Filled
    <3>5. [n EXCEPT !.truncated = path.long]
            = Filled(kind, p, NoFd, name, path.abs, path.long, no, yes, call)
      BY <3>4 DEF Filled
    <3>6. [r EXCEPT !.path = name, !.abs = path.abs, !.truncated = path.long]
            = [[[r EXCEPT !.path = name] EXCEPT !.abs = path.abs] EXCEPT !.truncated = path.long]
      OBVIOUS
    <3> QED BY <3>1, <3>3, <3>5, <3>6
  <2>5. Named(r, path) = [r EXCEPT !.path = name, !.abs = path.abs, !.truncated = path.long]
    BY <2>1 DEF Named
  <2> QED BY <1>7, <2>1, <2>2, <2>4, <2>5
<1>12. ASSUME NEW path, NEW failed, NEW fd
       PROVE  Exited(t, path, failed, fd) = Pathed(t, "open", fd, path, failed)
  <2>1. PICK name : name = IF path.long THEN "cut" ELSE path.name
    OBVIOUS
  <2>2. PICK r : r = Named(Record(t, "open"), path)
    OBVIOUS
  <2>3. r = Filled("open", p, NoFd, name, path.abs, path.long, no, yes, call)
    BY <1>7, <1>11, <2>1, <2>2
  <2>4. [r EXCEPT !.failed = failed, !.fd = fd]
          = Filled("open", p, fd, name, path.abs, path.long, failed, yes, call)
    <3>1. PICK m : m = [r EXCEPT !.failed = failed]
      OBVIOUS
    <3>2. m = Filled("open", p, NoFd, name, path.abs, path.long, failed, yes, call)
      BY <2>3, <3>1 DEF Filled
    <3>3. [m EXCEPT !.fd = fd]
            = Filled("open", p, fd, name, path.abs, path.long, failed, yes, call)
      BY <3>2 DEF Filled
    <3>4. [r EXCEPT !.failed = failed, !.fd = fd] = [[r EXCEPT !.failed = failed] EXCEPT !.fd = fd]
      OBVIOUS
    <3> QED BY <3>1, <3>3, <3>4
  <2>5. Exited(t, path, failed, fd) = [r EXCEPT !.failed = failed, !.fd = fd]
    BY <2>2 DEF Exited
  <2> QED BY <1>7, <2>1, <2>4, <2>5
<1> QED BY <1>1, <1>2, <1>8, <1>9, <1>10, <1>11, <1>12

\* A record is what it says field by field.
LEMMA Fields ==
    ASSUME NEW r,
           r = Filled(r.kind, r.tgid, r.fd, r.path, r.abs, r.truncated, r.failed, r.known, r.call),
           r.kind \in Kinds, r.tgid \in Processes, r.fd \in Nat, r.path \in Names \cup {""},
           r.abs \in BOOLEAN, r.truncated \in BOOLEAN, r.failed \in BOOLEAN, r.known \in BOOLEAN,
           r.call \in Nat
    PROVE  r \in Sent
  BY DEF Sent, Filled

\* The paths an execution uses are well formed.
LEMMA PathsAreWhole ==
    ASSUME NEW path \in Paths
    PROVE  /\ path.abs \in BOOLEAN /\ path.long \in BOOLEAN /\ path.name \in Names
           /\ (IF path.long THEN "cut" ELSE path.name) \in Names
  BY PathAssumption DEF Paths, Names

\* Such records are what the merge stage expects.
LEMMA PlainOK ==
    ASSUME NEW t \in Tasks, tracked(t), calls \in Seq(Made),
           NEW kind \in {"write", "close", "connect", "exec"}, NEW fd \in Nat, NEW known \in BOOLEAN,
           NEW r, r = Plain(t, kind, fd, known)
    PROVE  /\ RecordOK(r) /\ r.kind = kind /\ r.tgid = Group[t] /\ r.fd = fd
           /\ r.call = Len(calls) + 1 /\ ~r.abs
<1>1. /\ r.kind = kind /\ r.tgid = Group[t] /\ r.fd = fd /\ r.path = "" /\ r.known = known
      /\ r.call = Len(calls) + 1 /\ r.abs = FALSE /\ r.truncated = FALSE /\ r.failed = FALSE
      /\ r = Filled(r.kind, r.tgid, r.fd, r.path, r.abs, r.truncated, r.failed, r.known, r.call)
  BY DEF Plain, Filled
<1>2. /\ r.kind \in Kinds /\ r.kind # "open" /\ r.fd \in Nat /\ r.path \in Names \cup {""}
      /\ r.known \in BOOLEAN
  BY <1>1 DEF Kinds
<1>3. r.call \in Nat
  <2>1. PICK n \in Nat : n = Len(calls)
    OBVIOUS
  <2>2. r.call = n + 1
    BY <1>1, <2>1
  <2> QED BY <2>2
<1>4. r.tgid \in Processes /\ r.tgid \in Tracked
  BY <1>1 DEF Processes, tracked
<1>5. r.abs \in BOOLEAN /\ r.truncated \in BOOLEAN /\ r.failed \in BOOLEAN /\ ~r.abs
  BY <1>1
<1>6. r \in Sent
  BY <1>1, <1>2, <1>3, <1>4, <1>5, Fields
<1> QED BY <1>1, <1>2, <1>4, <1>5, <1>6 DEF RecordOK

\* The same of a record with a path.
LEMMA PathedOK ==
    ASSUME NEW t \in Tasks, tracked(t), calls \in Seq(Made),
           NEW kind \in {"open", "mkdir"}, NEW fd \in Nat, NEW path \in Paths, NEW failed \in BOOLEAN,
           NEW r, r = Pathed(t, kind, fd, path, failed)
    PROVE  /\ RecordOK(r) /\ r.kind = kind /\ r.tgid = Group[t] /\ r.fd = fd
           /\ r.call = Len(calls) + 1 /\ (r.abs <=> path.abs) /\ (r.truncated <=> path.long)
           /\ (r.failed <=> failed) /\ r.path = IF path.long THEN "cut" ELSE path.name
<1>1. /\ r.kind = kind /\ r.tgid = Group[t] /\ r.fd = fd
      /\ r.path = (IF path.long THEN "cut" ELSE path.name) /\ r.known = TRUE
      /\ r.call = Len(calls) + 1 /\ r.abs = path.abs /\ r.truncated = path.long /\ r.failed = failed
      /\ r = Filled(r.kind, r.tgid, r.fd, r.path, r.abs, r.truncated, r.failed, r.known, r.call)
  BY DEF Pathed, Filled
<1>2. r.kind \in Kinds /\ r.kind # "write" /\ r.fd \in Nat
  BY <1>1 DEF Kinds
<1>3. r.path \in Names
  BY <1>1, PathsAreWhole
<1>4. r.call \in Nat
  BY <1>1
<1>5. r.tgid \in Processes /\ r.tgid \in Tracked
  BY <1>1 DEF Processes, tracked
<1>6. r.abs \in BOOLEAN /\ r.truncated \in BOOLEAN /\ r.failed \in BOOLEAN /\ r.known \in BOOLEAN
  BY <1>1, PathsAreWhole
<1>7. r \in Sent
  BY <1>1, <1>2, <1>3, <1>4, <1>5, <1>6, Fields
<1> QED BY <1>1, <1>2, <1>3, <1>5, <1>7 DEF RecordOK

-----------------------------------------------------------------------------
(* What a step does to the calls and to what is recorded of them           *)

\* No call ends; a call ends that the recording leaves out; a call ends that
\* is recorded.
Silent == UNCHANGED <<stage, calls>>
Unseen(c) ==
    /\ UNCHANGED stage /\ calls' = Append(calls, c)
    /\ c \in Made /\ ~(c.op = "write" /\ c.tgid \in Tracked)
Seen(r, c) ==
    /\ records' = Append(records, r) /\ merge' = MergeOne(merge, r)
    /\ calls' = Append(calls, c) /\ c \in Made
    /\ RecordOK(r) /\ r.call = Len(calls) + 1 /\ r.tgid = c.tgid
    /\ r.kind = "write" <=> c.op = "write"
    /\ ~leaked /\ r.kind = "open" =>
           c.op = "open" /\ c.fd = r.fd /\ r.path = Named(r, c.path).path
    /\ ~leaked /\ Origin(r.abs, r.truncated) = "Absolute" => c.path.abs /\ c.path.name = r.path
    /\ r.kind = "write" => c.path = open[r.tgid][r.fd].path
Effect == Silent \/ (\E c : Unseen(c)) \/ (\E r, c : Seen(r, c))

\* A call that was made.
LEMMA Making ==
    ASSUME NEW t \in Tasks, NEW op \in Ops, NEW fd \in Nat, NEW path \in Paths \cup {NoPath}
    PROVE  /\ Call(t, op, fd, path) \in Made /\ Call(t, op, fd, path).op = op
           /\ Call(t, op, fd, path).tgid = Group[t] /\ Call(t, op, fd, path).fd = fd
           /\ Call(t, op, fd, path).path = path
<1>1. PICK p \in Processes : p = Group[t]
  BY DEF Processes
<1>2. Call(t, op, fd, path) = [op |-> op, tgid |-> p, fd |-> fd, path |-> path]
  BY <1>1 DEF Call
<1> QED BY <1>1, <1>2 DEF Made

\* The kernel always finds a free descriptor, which the process has not.
LEMMA LowestFreeOK ==
    ASSUME TypeOK, OpenOK, NEW t \in Tasks, Len(calls) < mix.calls
    PROVE  LowestFree(t) \in Nat /\ LowestFree(t) \notin Fds(t)
<1>1. Group[t] \in Processes /\ mix.calls \in Nat /\ Len(calls) \in Nat
  BY BoundAssumption DEF TypeOK, Processes
<1>2. IsFiniteSet(Fds(t)) /\ Cardinality(Fds(t)) <= Len(calls)
  BY <1>1 DEF OpenOK, Fds
<1>3. Cardinality(Fds(t)) \in Nat
  BY <1>2, FS_CardinalityType
<1>4. Cardinality(Fds(t)) <= mix.calls
  BY <1>1, <1>2, <1>3
<1>5. \E d \in 3 .. (mix.calls + 3) : d \notin Fds(t) /\ \A k \in 3 .. (d - 1) : k \in Fds(t)
  BY <1>1, <1>2, <1>4, LowestIsFree
<1>6. LowestFree(t) \in 3 .. (mix.calls + 3) /\ LowestFree(t) \notin Fds(t)
  BY <1>5 DEF LowestFree
<1> QED BY <1>1, <1>6

\* The name a path gets in a record.
LEMMA Naming ==
    ASSUME NEW r \in Sent, NEW path
    PROVE  Named(r, path).path = IF path.long THEN "cut" ELSE path.name
  BY DEF Named, Sent

\* Of a call that is reported on entry.
LEMMA Entering ==
    ASSUME TypeOK, NEW t \in Tasks, NEW r, NEW c, c \in Made, Emit(t, r), Did(c),
           c.tgid = Group[t], r.kind # "open",
           tracked(t) => RecordOK(r) /\ r.tgid = Group[t] /\ r.call = Len(calls) + 1,
           r.kind = "write" <=> c.op = "write",
           tracked(t) /\ Origin(r.abs, r.truncated) = "Absolute" => c.path.abs /\ c.path.name = r.path,
           tracked(t) /\ r.kind = "write" => c.path = open[r.tgid][r.fd].path
    PROVE  Effect
<1>1. CASE tracked(t)
  <2>1. records' = Append(records, r) /\ merge' = MergeOne(merge, r)
    BY <1>1 DEF Emit, Send
  <2>2. Seen(r, c)
    BY <1>1, <2>1 DEF Seen, Did
  <2> QED BY <2>2 DEF Effect
<1>2. CASE ~tracked(t)
  <2>1. Unseen(c)
    BY <1>2 DEF Emit, Unseen, Did, tracked
  <2> QED BY <2>1 DEF Effect
<1> QED BY <1>1, <1>2

\* Write, close, connect and execve carry no path.
LEMMA EnteringPlain ==
    ASSUME TypeOK, NEW t \in Tasks, NEW kind \in {"write", "close", "connect", "exec"},
           NEW fd \in Nat, NEW known \in BOOLEAN, NEW path \in Paths \cup {NoPath},
           Emit(t, Plain(t, kind, fd, known)), Did(Call(t, kind, fd, path)),
           kind = "write" => path = open[Group[t]][fd].path
    PROVE  Effect
<1>1. PICK r : r = Plain(t, kind, fd, known)
  OBVIOUS
<1>2. PICK c : c = Call(t, kind, fd, path)
  OBVIOUS
<1>3. kind \in Ops
  BY DEF Ops, Kinds
<1>4. c \in Made /\ c.op = kind /\ c.tgid = Group[t] /\ c.path = path
  BY <1>2, <1>3, Making
<1>5. r.kind = kind
  BY <1>1 DEF Plain, Filled
<1>6. tracked(t) => RecordOK(r) /\ r.tgid = Group[t] /\ r.fd = fd /\ r.call = Len(calls) + 1 /\ ~r.abs
  BY <1>1, PlainOK DEF TypeOK
<1>7. tracked(t) => Origin(r.abs, r.truncated) # "Absolute"
  BY <1>6 DEF Origin
<1>8. kind # "open"
  OBVIOUS
<1>9. tracked(t) /\ r.kind = "write" => c.path = open[r.tgid][r.fd].path
  BY <1>4, <1>5, <1>6
<1> QED BY <1>1, <1>2, <1>4, <1>5, <1>6, <1>7, <1>8, <1>9, Entering

\* A path call.
LEMMA PathOnlyEffect ==
    ASSUME TypeOK, NEW t \in Tasks, NEW path \in Paths, PathOnly(t, path)
    PROVE  Effect
<1>1. PICK r : r = Pathed(t, "mkdir", NoFd, path, FALSE)
  OBVIOUS
<1>2. PICK c : c = Call(t, "mkdir", NoFd, path)
  OBVIOUS
<1>3. "mkdir" \in Ops /\ NoFd \in Nat
  BY DEF Ops, Kinds, NoFd
<1>4. c \in Made /\ c.op = "mkdir" /\ c.tgid = Group[t] /\ c.path = path
  BY <1>2, <1>3, Making
<1>5. r.kind = "mkdir"
  BY <1>1 DEF Pathed, Filled
<1>6. Emit(t, r) /\ Did(c)
  BY <1>1, <1>2, Filling DEF PathOnly
<1>7. tracked(t) => /\ RecordOK(r) /\ r.tgid = Group[t] /\ r.call = Len(calls) + 1
                    /\ (r.abs <=> path.abs) /\ (r.truncated <=> path.long)
                    /\ r.path = IF path.long THEN "cut" ELSE path.name
  <2>1. PICK no \in BOOLEAN : no = FALSE
    OBVIOUS
  <2>2. r = Pathed(t, "mkdir", NoFd, path, no)
    BY <1>1, <2>1
  <2>3. calls \in Seq(Made) /\ "mkdir" \in {"open", "mkdir"}
    BY DEF TypeOK
  <2> QED BY <1>3, <2>2, <2>3, PathedOK
<1>8. tracked(t) /\ Origin(r.abs, r.truncated) = "Absolute" => c.path.abs /\ c.path.name = r.path
  BY <1>4, <1>7 DEF Origin
<1> QED BY <1>4, <1>5, <1>6, <1>7, <1>8, Entering

\* An open that returns, with a descriptor or without.
LEMMA OpenExitEffect ==
    ASSUME TypeOK, OpenOK, Parked, NEW t \in Tasks, NEW ok \in BOOLEAN, OpenExit(t, ok)
    PROVE  Effect
<1> DEFINE fd == IF ok THEN LowestFree(t) ELSE NoFd
           op == IF task[t].writing THEN "open" ELSE "read"
           c == Call(t, op, fd, task[t].path)
<1>1. fd \in Nat
  BY LowestFreeOK DEF OpenExit, NoFd
<1>2. op \in Ops /\ op # "write"
  BY DEF Ops, Kinds
<1>3. task[t].path \in Paths
  BY DEF TypeOK, Opening, OpenExit
<1> HIDE DEF fd, op
<1>4. c \in Made /\ c.op = op /\ c.tgid = Group[t] /\ c.fd = fd /\ c.path = task[t].path
  BY <1>1, <1>2, <1>3, Making
<1>5. Did(c)
  BY DEF OpenExit, fd, op
<1> HIDE DEF c
<1>6. CASE t \notin DOMAIN inflight
  <2>1. UNCHANGED stage
    BY <1>6 DEF OpenExit, Key
  <2>2. Unseen(c)
    BY <1>2, <1>4, <1>5, <2>1 DEF Unseen, Did
  <2> QED BY <2>2 DEF Effect
<1>7. CASE t \in DOMAIN inflight
  <2> DEFINE path == inflight[t]
             failed == ~ok
  <2>1. tracked(t) /\ path \in Paths /\ failed \in BOOLEAN
    BY <1>7 DEF TypeOK
  <2>2. PICK r : r = Pathed(t, "open", fd, path, failed)
    OBVIOUS
  <2>3. /\ RecordOK(r) /\ r.kind = "open" /\ r.tgid = Group[t] /\ r.fd = fd
        /\ r.call = Len(calls) + 1 /\ (r.abs <=> path.abs) /\ (r.truncated <=> path.long)
        /\ r.path = IF path.long THEN "cut" ELSE path.name
    <3> HIDE DEF path, failed
    <3> QED BY <1>1, <2>1, <2>2, PathedOK DEF TypeOK
  <2>4. Send([Named(Record(t, "open"), path) EXCEPT !.failed = failed, !.fd = fd])
    BY <1>7 DEF OpenExit, Key, fd
  <2>5. Send(r)
    <3> HIDE DEF path, failed
    <3>1. Exited(t, path, failed, fd) = r
      <4>1. \A a, b, d : Exited(t, a, b, d) = Pathed(t, "open", d, a, b)
        BY Filling
      <4>2. Exited(t, path, failed, fd) = Pathed(t, "open", fd, path, failed)
        BY <4>1
      <4> QED BY <2>2, <4>2
    <3>2. Send(Exited(t, path, failed, fd))
      BY <2>4 DEF Exited
    <3> QED BY <3>1, <3>2
  <2>6. ~leaked => task[t].writing /\ task[t].path = path
    BY <1>7 DEF Parked
  <2>7. ~leaked => c.op = "open" /\ c.path = path
    BY <1>4, <2>6 DEF op
  <2>8. Named(r, path).path = r.path
    BY <2>3, Naming DEF RecordOK
  <2> HIDE DEF path, failed
  <2>9. Seen(r, c)
    <3>1. ~leaked /\ r.kind = "open" => c.op = "open" /\ c.fd = r.fd /\ r.path = Named(r, c.path).path
      BY <1>4, <2>3, <2>7, <2>8
    <3>2. ~leaked /\ Origin(r.abs, r.truncated) = "Absolute" => c.path.abs /\ c.path.name = r.path
      BY <2>3, <2>7 DEF Origin
    <3>3. r.kind # "write" /\ c.op # "write"
      BY <1>2, <1>4, <2>3
    <3> QED BY <1>4, <1>5, <2>3, <2>5, <3>1, <3>2, <3>3 DEF Seen, Did, Send
  <2> QED BY <2>9 DEF Effect
<1> QED BY <1>6, <1>7

\* Every step of the system has one of the three effects.
LEMMA Effects ==
    ASSUME TypeOK, OpenOK, Parked, [Next]_vars
    PROVE  Effect
<1>1. CASE UNCHANGED vars
  BY <1>1 DEF vars, stage, Effect, Silent
<1>2. ASSUME NEW p \in Processes, Killed(p) PROVE Effect
  BY <1>2 DEF Killed, stage, Effect, Silent
<1>3. ASSUME NEW t \in mix.tasks, Step(t) PROVE Effect
  <2>1. t \in Tasks /\ mix.paths \subseteq Paths /\ NoFd \in Nat /\ NoPath \in Paths \cup {NoPath}
    BY <1>3, BoundAssumption DEF TypeOK, Paths, NoFd
  <2>2. ASSUME NEW path \in mix.paths, NEW writing \in BOOLEAN, NEW cloexec \in BOOLEAN,
               OpenEnter(t, path, writing, cloexec)
        PROVE  Effect
    BY <2>2 DEF OpenEnter, Effect, Silent
  <2>3. ASSUME NEW ok \in BOOLEAN, OpenExit(t, ok) PROVE Effect
    BY <2>1, <2>3, OpenExitEffect
  <2>4. ASSUME NEW fd \in Fds(t) PROVE fd \in Nat /\ open[Group[t]][fd].path \in Paths \cup {NoPath}
    BY <2>1, <2>4 DEF OpenOK, Fds, Processes
  <2>5. ASSUME NEW fd \in Fds(t), Write(t, fd) PROVE Effect
    <3>1. Emit(t, Plain(t, "write", fd, TRUE)) /\ Did(Call(t, "write", fd, open[Group[t]][fd].path))
      BY <2>5, Filling DEF Write
    <3> QED BY <2>1, <2>4, <3>1, EnteringPlain
  <2>6. ASSUME NEW fd \in Fds(t), Close(t, fd) PROVE Effect
    <3>1. Emit(t, Plain(t, "close", fd, TRUE)) /\ Did(Call(t, "close", fd, open[Group[t]][fd].path))
      BY <2>6, Filling DEF Close
    <3> QED BY <2>1, <2>4, <3>1, EnteringPlain
  <2>7. ASSUME NEW path \in mix.paths, PathOnly(t, path) PROVE Effect
    BY <2>1, <2>7, PathOnlyEffect
  <2>8. ASSUME NEW known \in BOOLEAN, Connect(t, known) PROVE Effect
    <3>1. Emit(t, Plain(t, "connect", NoFd, known)) /\ Did(Call(t, "connect", NoFd, NoPath))
      BY <2>8, Filling DEF Connect
    <3> QED BY <2>1, <2>8, <3>1, EnteringPlain
  <2>9. CASE Exec(t)
    <3>1. Emit(t, Plain(t, "exec", NoFd, TRUE)) /\ Did(Call(t, "exec", NoFd, NoPath))
      BY <2>9, Filling DEF Exec
    <3> QED BY <2>1, <3>1, EnteringPlain
  <2>10. CASE Untraced(t)
    <3> DEFINE c == Call(t, "pipe", LowestFree(t), NoPath)
    <3>1. LowestFree(t) \in Nat /\ "pipe" \in Ops
      BY <2>1, <2>10, LowestFreeOK DEF Untraced, Free, Ops
    <3>2. c \in Made /\ c.op = "pipe"
      BY <2>1, <3>1, Making
    <3>3. UNCHANGED stage /\ Did(c)
      BY <2>10 DEF Untraced
    <3> HIDE DEF c
    <3>4. Unseen(c)
      BY <3>2, <3>3 DEF Unseen, Did
    <3> QED BY <3>4 DEF Effect
  <2> QED BY <1>3, <2>2, <2>3, <2>5, <2>6, <2>7, <2>8, <2>9, <2>10 DEF Step
<1> QED BY <1>1, <1>2, <1>3 DEF Next

-----------------------------------------------------------------------------
(* The records and the books                                               *)

\* One call more.
LEMMA OneCallMore ==
    ASSUME NEW cs \in Seq(Made), NEW c \in Made, NEW more, more = Append(cs, c)
    PROVE  /\ more \in Seq(Made) /\ Len(cs) \in Nat
           /\ Len(cs) + 1 \notin DOMAIN cs /\ DOMAIN more = DOMAIN cs \cup {Len(cs) + 1}
           /\ \A i \in DOMAIN cs : more[i] = cs[i]
           /\ more[Len(cs) + 1] = c
           /\ DOMAIN cs \subseteq Nat /\ Len(more) = Len(cs) + 1
<1>1. PICK n \in Nat : n = Len(cs)
  OBVIOUS
<1>2. /\ Append(cs, c) \in Seq(Made) /\ DOMAIN cs = 1 .. n /\ DOMAIN Append(cs, c) = 1 .. (n + 1)
      /\ \A i \in 1 .. n : Append(cs, c)[i] = cs[i]
      /\ Append(cs, c)[n + 1] = c /\ Len(Append(cs, c)) = n + 1
  BY <1>1
<1>3. n + 1 \notin 1 .. n /\ 1 .. (n + 1) = (1 .. n) \cup {n + 1} /\ 1 .. n \subseteq Nat
  OBVIOUS
<1> QED BY <1>1, <1>2, <1>3

\* A call is a recorded write or is none.
LEMMA WritesGrow ==
    ASSUME NEW cs \in Seq(Made), NEW c \in Made, NEW more, more = Append(cs, c)
    PROVE  /\ c.op = "write" /\ c.tgid \in Tracked => Writes(more) = Writes(cs) \cup {Len(cs) + 1}
           /\ ~(c.op = "write" /\ c.tgid \in Tracked) => Writes(more) = Writes(cs)
           /\ Len(cs) + 1 \notin Writes(cs)
  BY OneCallMore DEF Writes

\* What is in the books stays there, and what happened is entered.
LEMMA BooksStep ==
    ASSUME TypeOK, RecordsPaired, BooksKept, leaked => leaked', Effect
    PROVE  RecordsPaired' /\ BooksKept' /\ calls' \in Seq(Made)
<1>1. calls \in Seq(Made) /\ records \in Seq(Sent)
  BY DEF TypeOK, RecordsPaired
<1>2. CASE Silent
  BY <1>1, <1>2 DEF Silent, stage, RecordsPaired, BooksKept
<1>3. ASSUME NEW c, Unseen(c) \/ \E r : Seen(r, c)
      PROVE  /\ calls' = Append(calls, c) /\ c \in Made /\ calls' \in Seq(Made)
             /\ \A r : Paired(r, calls) => Paired(r, calls')
  <2>1. calls' = Append(calls, c) /\ c \in Made
    BY <1>3 DEF Unseen, Seen
  <2>2. /\ calls' \in Seq(Made) /\ DOMAIN calls \subseteq DOMAIN calls'
        /\ \A i \in DOMAIN calls : calls'[i] = calls[i]
    BY <1>1, <2>1, OneCallMore
  <2> QED BY <2>1, <2>2 DEF Paired
<1>4. ASSUME NEW c, Unseen(c) PROVE RecordsPaired' /\ BooksKept'
  <2>1. records' = records /\ merge' = merge
    BY <1>4 DEF Unseen, stage
  <2>2. \A r : Paired(r, calls) => Paired(r, calls')
    BY <1>3, <1>4
  <2>3. RecordsPaired'
    BY <2>1, <2>2 DEF RecordsPaired
  <2>4. Writes(calls') = Writes(calls)
    BY <1>1, <1>4, WritesGrow DEF Unseen
  <2>5. BooksKept'
    BY <2>1, <2>4 DEF BooksKept
  <2> QED BY <2>3, <2>5
<1>5. ASSUME NEW r, NEW c, Seen(r, c) PROVE RecordsPaired' /\ BooksKept'
  <2>1. /\ records' = Append(records, r) /\ merge' = MergeOne(merge, r) /\ RecordOK(r)
        /\ calls' = Append(calls, c) /\ c \in Made /\ r.call = Len(calls) + 1
        /\ r.tgid = c.tgid /\ r.tgid \in Tracked /\ r \in Sent
    BY <1>5 DEF Seen, RecordOK
  <2>2. r.kind = "write" <=> c.op = "write"
    BY <1>5 DEF Seen
  <2>3. RecordsPaired'
    <3>1. /\ records' \in Seq(Sent) /\ DOMAIN records' = 1 .. (Len(records) + 1) /\ Len(records) \in Nat
          /\ DOMAIN records = 1 .. Len(records)
          /\ \A k \in 1 .. Len(records) : records'[k] = records[k]
          /\ records'[Len(records) + 1] = r
      BY <1>1, <2>1, Appending
    <3>2. ASSUME ~leaked', NEW k \in DOMAIN records', records'[k].kind = "open"
          PROVE  Paired(records'[k], calls')
      <4>1. CASE k \in 1 .. Len(records)
        <5>1. Paired(records[k], calls)
          BY <3>1, <3>2, <4>1 DEF RecordsPaired
        <5>2. Paired(records[k], calls')
          BY <1>3, <1>5, <5>1
        <5> QED BY <3>1, <4>1, <5>2
      <4>2. CASE k = Len(records) + 1
        <5>1. records'[k] = r /\ r.kind = "open"
          BY <3>1, <3>2, <4>2
        <5>2. c.op = "open" /\ c.fd = r.fd /\ r.path = Named(r, c.path).path
          BY <1>5, <3>2, <5>1 DEF Seen
        <5>3. r.call \in DOMAIN calls' /\ calls'[r.call] = c
          BY <1>1, <2>1, OneCallMore
        <5>4. Paired(r, calls')
          BY <2>1, <5>2, <5>3 DEF Paired
        <5> QED BY <5>1, <5>4
      <4>3. k \in 1 .. Len(records) \/ k = Len(records) + 1
        BY <3>1
      <4> QED BY <4>1, <4>2, <4>3
    <3> QED BY <3>1, <3>2 DEF RecordsPaired
  <2>4. Fed(merge, r, merge')
    BY <2>1, Merging DEF BooksKept
  <2>5. r.call \notin Writes(calls)
    BY <1>1, <2>1, WritesGrow
  <2>6. Writes(calls') = IF r.kind = "write" THEN Writes(calls) \cup {r.call} ELSE Writes(calls)
    <3>1. CASE r.kind = "write"
      BY <1>1, <2>1, <2>2, <3>1, WritesGrow
    <3>2. CASE r.kind # "write"
      BY <1>1, <2>1, <2>2, <3>2, WritesGrow
    <3> QED BY <3>1, <3>2
  <2>7. TellsOnce(merge', IF r.kind = "write" THEN Writes(calls) \cup {r.call} ELSE Writes(calls))
    BY <2>4, <2>5 DEF Fed, BooksKept
  <2>8. BooksKept'
    BY <2>4, <2>6, <2>7 DEF Fed, BooksKept
  <2> QED BY <2>3, <2>8
<1> QED BY <1>2, <1>3, <1>4, <1>5 DEF Effect

-----------------------------------------------------------------------------
(* The tables of the kernel and of the probes                              *)

\* A call that ends is counted, within the bound.
LEMMA Counting ==
    ASSUME TypeOK, NEW c, Did(c), Len(calls) < mix.calls, UNCHANGED mix
    PROVE  /\ Len(calls) \in Nat /\ Len(calls') = Len(calls) + 1 /\ Len(calls') <= mix'.calls
<1>1. calls \in Seq(Made \cup {c}) /\ c \in Made \cup {c}
  BY DEF TypeOK
<1>2. PICK n \in Nat : n = Len(calls)
  BY <1>1
<1>3. Len(Append(calls, c)) = n + 1
  BY <1>1, <1>2
<1>4. mix.calls \in Nat
  BY BoundAssumption DEF TypeOK
<1>5. n < mix.calls /\ n + 1 <= mix.calls
  BY <1>2, <1>4
<1> QED BY <1>2, <1>3, <1>5 DEF Did

\* Another table for one process.
NewTable(p, table) == open' = [open EXCEPT ![p] = table]

\* It has to be no larger than the calls allow.
LEMMA OtherTable ==
    ASSUME OpenOK, NEW p \in Processes, NEW table, NewTable(p, table),
           Len(calls) \in Nat, Len(calls') \in Nat, Len(calls) <= Len(calls'),
           IsFiniteSet(DOMAIN table), Cardinality(DOMAIN table) <= Len(calls'),
           \A fd \in DOMAIN table : fd \in Nat /\ table[fd].path \in Paths \cup {NoPath}
    PROVE  OpenOK'
<1>1. DOMAIN open = Processes
  BY DEF OpenOK
<1>2. /\ DOMAIN open' = Processes /\ open'[p] = table
      /\ \A q \in Processes \ {p} : open'[q] = open[q]
  BY <1>1 DEF NewTable
<1>3. ASSUME NEW q \in Processes
      PROVE  /\ IsFiniteSet(DOMAIN open'[q]) /\ Cardinality(DOMAIN open'[q]) <= Len(calls')
             /\ \A fd \in DOMAIN open'[q] : fd \in Nat /\ open'[q][fd].path \in Paths \cup {NoPath}
  <2>1. CASE q = p
    BY <1>2, <2>1
  <2>2. CASE q # p
    <3>1. /\ IsFiniteSet(DOMAIN open[q]) /\ Cardinality(DOMAIN open[q]) <= Len(calls)
          /\ \A fd \in DOMAIN open[q] : fd \in Nat /\ open[q][fd].path \in Paths \cup {NoPath}
      BY DEF OpenOK
    <3>2. Cardinality(DOMAIN open[q]) \in Nat
      BY <3>1, FS_CardinalityType
    <3>3. Cardinality(DOMAIN open[q]) <= Len(calls')
      BY <3>1, <3>2
    <3>4. open'[q] = open[q]
      BY <1>2, <2>2
    <3> QED BY <3>1, <3>3, <3>4
  <2> QED BY <2>1, <2>2
<1> QED BY <1>2, <1>3 DEF OpenOK

\* The same tables after one call more.
LEMMA SameTables ==
    ASSUME OpenOK, open' = open, Len(calls) \in Nat, Len(calls') \in Nat, Len(calls) <= Len(calls')
    PROVE  OpenOK'
<1>1. ASSUME NEW q \in Processes PROVE Cardinality(DOMAIN open[q]) <= Len(calls')
  <2>1. IsFiniteSet(DOMAIN open[q]) /\ Cardinality(DOMAIN open[q]) <= Len(calls)
    BY DEF OpenOK
  <2>2. Cardinality(DOMAIN open[q]) \in Nat
    BY <2>1, FS_CardinalityType
  <2> QED BY <2>1, <2>2
<1> QED BY <1>1 DEF OpenOK

\* A table with some of the descriptors.
LEMMA SmallerTable ==
    ASSUME OpenOK, NEW p \in Processes, NEW kept \in SUBSET DOMAIN open[p],
           NewTable(p, Restrict(open[p], kept)),
           Len(calls) \in Nat, Len(calls') \in Nat, Len(calls) <= Len(calls')
    PROVE  OpenOK'
<1> DEFINE table == Restrict(open[p], kept)
<1>1. /\ IsFiniteSet(DOMAIN open[p]) /\ Cardinality(DOMAIN open[p]) <= Len(calls)
      /\ \A fd \in DOMAIN open[p] : fd \in Nat /\ open[p][fd].path \in Paths \cup {NoPath}
  BY DEF OpenOK
<1>2. DOMAIN table = kept /\ \A fd \in kept : table[fd] = open[p][fd]
  BY DEF Restrict
<1>3. /\ IsFiniteSet(kept) /\ Cardinality(kept) <= Cardinality(DOMAIN open[p])
  BY <1>1, FS_Subset
<1>4. Cardinality(kept) \in Nat /\ Cardinality(DOMAIN open[p]) \in Nat
  BY <1>1, <1>3, FS_CardinalityType
<1>5. Cardinality(kept) <= Len(calls')
  BY <1>1, <1>3, <1>4
<1>6. NewTable(p, table)
  OBVIOUS
<1> HIDE DEF table
<1> QED BY <1>1, <1>2, <1>3, <1>5, <1>6, OtherTable

\* A table with a descriptor more.
LEMMA LargerTable ==
    ASSUME TypeOK, OpenOK, NEW t \in Tasks, NEW path \in Paths \cup {NoPath}, NEW cloexec,
           Install(t, path, cloexec), Len(calls) < mix.calls, Len(calls') = Len(calls) + 1
    PROVE  OpenOK'
<1> DEFINE p == Group[t]
           fd == LowestFree(t)
           entry == [path |-> path, cloexec |-> cloexec]
           table == Put(open[p], fd, entry)
<1>1. p \in Processes /\ Len(calls) \in Nat
  BY DEF Processes, TypeOK
<1>2. /\ IsFiniteSet(DOMAIN open[p]) /\ Cardinality(DOMAIN open[p]) <= Len(calls)
      /\ \A d \in DOMAIN open[p] : d \in Nat /\ open[p][d].path \in Paths \cup {NoPath}
  BY <1>1 DEF OpenOK
<1>3. fd \in Nat
  BY LowestFreeOK
<1>4. NewTable(p, table)
  BY DEF Install, NewTable
<1> HIDE DEF fd, p
<1>5. entry.path = path
  OBVIOUS
<1> HIDE DEF entry
<1>6. /\ DOMAIN table = DOMAIN open[p] \cup {fd} /\ table[fd] = entry
      /\ \A d \in DOMAIN open[p] \ {fd} : table[d] = open[p][d]
  BY DEF Put
<1> HIDE DEF table
<1>7. /\ IsFiniteSet(DOMAIN table)
      /\ Cardinality(DOMAIN table) <= Cardinality(DOMAIN open[p]) + 1
      /\ Cardinality(DOMAIN open[p]) \in Nat /\ Cardinality(DOMAIN table) \in Nat
  <2>1. /\ IsFiniteSet(DOMAIN table)
        /\ Cardinality(DOMAIN table) = IF fd \in DOMAIN open[p] THEN Cardinality(DOMAIN open[p])
                                       ELSE Cardinality(DOMAIN open[p]) + 1
    BY <1>2, <1>6, FS_AddElement
  <2>2. Cardinality(DOMAIN open[p]) \in Nat
    BY <1>2, FS_CardinalityType
  <2> QED BY <2>1, <2>2
<1>8. Cardinality(DOMAIN table) <= Len(calls') /\ Len(calls') \in Nat /\ Len(calls) <= Len(calls')
  BY <1>1, <1>2, <1>7
<1>9. \A d \in DOMAIN table : d \in Nat /\ table[d].path \in Paths \cup {NoPath}
  BY <1>2, <1>3, <1>5, <1>6
<1> QED BY <1>1, <1>4, <1>7, <1>8, <1>9, OtherTable

\* The kernel's tables and the parked opens stay what they are.
LEMMA TablesStep ==
    ASSUME TypeOK, OpenOK, Parked, [Next]_vars, calls' \in Seq(Made)
    PROVE  TypeOK' /\ OpenOK' /\ Parked'
<1> USE DEF tracked
<1>0. /\ mix \in Mixes /\ mix.calls \in Nat /\ Len(calls) \in Nat /\ Len(calls') \in Nat
      /\ Len(calls) <= mix.calls /\ mix.paths \subseteq Paths /\ mix.tasks \subseteq Tasks
  BY BoundAssumption DEF TypeOK, Paths
<1>1. CASE UNCHANGED vars
  <2>1. TypeOK'
    BY <1>1 DEF vars, kernel, stage, TypeOK
  <2>2. OpenOK'
    BY <1>1 DEF vars, kernel, stage, OpenOK
  <2>3. Parked'
    BY <1>1 DEF vars, kernel, stage, Parked
  <2> QED BY <2>1, <2>2, <2>3
<1>2. ASSUME NEW p \in Processes, Killed(p), UNCHANGED mix PROVE TypeOK' /\ OpenOK' /\ Parked'
  <2>1. TypeOK'
    BY <1>2 DEF TypeOK, Killed
  <2>2. OpenOK'
    <3>1. DOMAIN <<>> = {}
      OBVIOUS
    <3>2. IsFiniteSet({}) /\ Cardinality({}) = 0
      BY FS_EmptySet
    <3>3. NewTable(p, <<>>) /\ calls' = calls
      BY <1>2 DEF Killed, NewTable
    <3> QED BY <1>0, <3>1, <3>2, <3>3, OtherTable
  <2>3. Parked'
    BY <1>2 DEF TypeOK, Parked, Killed
  <2> QED BY <2>1, <2>2, <2>3
<1>3. ASSUME NEW t \in mix.tasks, Step(t), UNCHANGED mix PROVE TypeOK' /\ OpenOK' /\ Parked'
  <2>1. t \in Tasks /\ Group[t] \in Processes
    BY <1>0 DEF Processes
  <2>2. ASSUME NEW path \in mix.paths, NEW writing \in BOOLEAN, NEW cloexec \in BOOLEAN,
               OpenEnter(t, path, writing, cloexec)
        PROVE  TypeOK' /\ OpenOK' /\ Parked'
    <3>1. path \in Paths
      BY <1>0
    <3>2. /\ task[t] = Idle /\ open' = open /\ calls' = calls /\ hidden' = hidden /\ leaked' = leaked
          /\ task' = [task EXCEPT ![t] = [in |-> "open", path |-> path, writing |-> writing, cloexec |-> cloexec]]
          /\ \/ inflight' = inflight
             \/ tracked(t) /\ writing /\ inflight' = Put(inflight, t, path)
      BY <2>2 DEF OpenEnter, Free, Key
    <3>3. [in |-> "open", path |-> path, writing |-> writing, cloexec |-> cloexec] \in Opening
      BY <3>1 DEF Opening
    <3>4. /\ DOMAIN inflight' \subseteq {u \in Tasks : tracked(u)}
          /\ \A u \in DOMAIN inflight' : inflight'[u] \in Paths
          /\ \A u \in DOMAIN inflight' : u # t => u \in DOMAIN inflight /\ inflight'[u] = inflight[u]
          /\ t \in DOMAIN inflight' => t \in DOMAIN inflight \/ (writing /\ inflight'[t] = path)
      BY <2>1, <3>1, <3>2 DEF TypeOK, Put
    <3>5. TypeOK'
      BY <1>3, <2>1, <3>2, <3>3, <3>4 DEF TypeOK
    <3>6. OpenOK'
      BY <3>2 DEF OpenOK
    <3>7. Parked'
      <4> SUFFICES ASSUME ~leaked', NEW u \in DOMAIN inflight'
                   PROVE  task'[u] # Idle /\ task'[u].writing /\ task'[u].path = inflight'[u]
        BY DEF Parked
      <4>1. ~leaked
        BY <3>2
      <4>2. CASE u # t
        BY <2>1, <3>2, <3>4, <4>1, <4>2 DEF Parked, TypeOK
      <4>3. CASE u = t
        <5>1. t \notin DOMAIN inflight
          BY <3>2, <4>1 DEF Parked
        <5>2. writing /\ inflight'[t] = path
          BY <3>4, <4>3, <5>1
        <5>3. task'[t] = [in |-> "open", path |-> path, writing |-> writing, cloexec |-> cloexec]
          BY <2>1, <3>2 DEF TypeOK
        <5>4. task'[t].in = "open" /\ task'[t].writing /\ task'[t].path = path
          BY <5>2, <5>3
        <5>5. Idle.in = "idle"
          BY DEF Idle
        <5> QED BY <4>3, <5>2, <5>4, <5>5
      <4> QED BY <4>2, <4>3
    <3> QED BY <3>5, <3>6, <3>7
  <2>3. ASSUME NEW ok \in BOOLEAN, OpenExit(t, ok) PROVE TypeOK' /\ OpenOK' /\ Parked'
    <3> DEFINE c == Call(t, IF task[t].writing THEN "open" ELSE "read",
                         IF ok THEN LowestFree(t) ELSE NoFd, task[t].path)
    <3>1. /\ task[t] # Idle /\ Len(calls) < mix.calls /\ Did(c) /\ hidden' = hidden /\ leaked' = leaked
          /\ task' = [task EXCEPT ![t] = Idle]
          /\ IF ok THEN Install(t, task[t].path, task[t].cloexec) ELSE UNCHANGED open
          /\ IF t \in DOMAIN inflight THEN inflight' = Without(inflight, t) ELSE inflight' = inflight
      BY <2>3 DEF OpenExit, Key
    <3> HIDE DEF c
    <3>2. Len(calls') = Len(calls) + 1 /\ Len(calls') <= mix'.calls
      BY <1>3, <3>1, Counting
    <3>3. task[t].path \in Paths
      BY <2>1, <3>1 DEF TypeOK, Opening
    <3>4. /\ DOMAIN inflight' = DOMAIN inflight \ {t}
          /\ \A u \in DOMAIN inflight' : inflight'[u] = inflight[u]
      BY <3>1 DEF Without, Restrict
    <3>5. TypeOK'
      BY <1>3, <2>1, <3>1, <3>2, <3>4 DEF TypeOK
    <3>6. OpenOK'
      <4>1. CASE ok
        BY <2>1, <3>1, <3>2, <3>3, <4>1, LargerTable
      <4>2. CASE ~ok
        BY <1>0, <3>1, <3>2, <4>2, SameTables
      <4> QED BY <4>1, <4>2
    <3>7. Parked'
      BY <3>1, <3>4 DEF Parked, TypeOK
    <3> QED BY <3>5, <3>6, <3>7
  <2>4. ASSUME UNCHANGED <<kernel, inflight, hidden, leaked>>, Len(calls) < mix.calls, NEW c, Did(c)
        PROVE  TypeOK' /\ OpenOK' /\ Parked'
    <3>1. Len(calls') = Len(calls) + 1 /\ Len(calls') <= mix'.calls
      BY <1>3, <2>4, Counting
    <3>2. TypeOK'
      BY <1>3, <2>4, <3>1 DEF TypeOK, kernel
    <3>3. OpenOK'
      BY <1>0, <2>4, <3>1, SameTables DEF kernel
    <3>4. Parked'
      BY <2>4 DEF Parked, kernel
    <3> QED BY <3>2, <3>3, <3>4
  <2>5. ASSUME UNCHANGED <<task, inflight, leaked>>, hidden' \in BOOLEAN, OpenOK', NEW c, Did(c),
               Len(calls) < mix.calls
        PROVE  TypeOK' /\ Parked'
    <3>1. Len(calls') = Len(calls) + 1 /\ Len(calls') <= mix'.calls
      BY <1>3, <2>5, Counting
    <3>2. TypeOK'
      BY <1>3, <2>5, <3>1 DEF TypeOK
    <3>3. Parked'
      BY <2>5 DEF Parked
    <3> QED BY <3>2, <3>3
  <2>6. ASSUME NEW fd \in Fds(t), Write(t, fd) PROVE TypeOK' /\ OpenOK' /\ Parked'
    BY <2>4, <2>6 DEF Write, Free
  <2>7. ASSUME NEW fd \in Fds(t), Close(t, fd) PROVE TypeOK' /\ OpenOK' /\ Parked'
    <3>1. /\ UNCHANGED <<task, inflight, leaked>> /\ hidden' = hidden /\ Len(calls) < mix.calls
          /\ Did(Call(t, "close", fd, open[Group[t]][fd].path))
          /\ NewTable(Group[t], Restrict(open[Group[t]], DOMAIN open[Group[t]] \ {fd}))
      BY <2>7 DEF Close, Free, Without, NewTable
    <3>2. Len(calls) <= Len(calls')
      <4>1. Len(calls') = Len(calls) + 1
        BY <1>3, <3>1, Counting
      <4> QED BY <1>0, <4>1
    <3>3. OpenOK'
      <4> DEFINE kept == DOMAIN open[Group[t]] \ {fd}
      <4>1. NewTable(Group[t], Restrict(open[Group[t]], kept)) /\ kept \in SUBSET DOMAIN open[Group[t]]
        BY <3>1
      <4> HIDE DEF kept
      <4> QED BY <1>0, <2>1, <3>2, <4>1, SmallerTable
    <3>4. hidden' \in BOOLEAN
      BY <3>1 DEF TypeOK
    <3> QED BY <2>5, <3>1, <3>3, <3>4
  <2>8. ASSUME NEW path \in mix.paths, PathOnly(t, path) PROVE TypeOK' /\ OpenOK' /\ Parked'
    BY <2>4, <2>8 DEF PathOnly, Free
  <2>9. ASSUME NEW known \in BOOLEAN, Connect(t, known) PROVE TypeOK' /\ OpenOK' /\ Parked'
    BY <2>4, <2>9 DEF Connect, Free
  <2>10. CASE Exec(t)
    <3> DEFINE kept == {fd \in Fds(t) : ~open[Group[t]][fd].cloexec}
    <3>1. /\ UNCHANGED <<task, inflight, leaked>> /\ hidden' = (hidden \/ kept # Fds(t))
          /\ Len(calls) < mix.calls /\ Did(Call(t, "exec", NoFd, NoPath))
          /\ NewTable(Group[t], Restrict(open[Group[t]], kept))
      BY <2>10 DEF Exec, Free, NewTable
    <3>2. Len(calls) <= Len(calls')
      <4>1. Len(calls') = Len(calls) + 1
        BY <1>3, <3>1, Counting
      <4> QED BY <1>0, <4>1
    <3>3. kept \in SUBSET DOMAIN open[Group[t]]
      BY DEF Fds
    <3>4. hidden' \in BOOLEAN
      BY <3>1
    <3> HIDE DEF kept
    <3>5. OpenOK'
      BY <1>0, <2>1, <3>1, <3>2, <3>3, SmallerTable
    <3> QED BY <2>5, <3>1, <3>4, <3>5
  <2>11. CASE Untraced(t)
    <3>1. /\ UNCHANGED <<task, inflight, leaked>> /\ hidden' = hidden /\ Len(calls) < mix.calls
          /\ Install(t, NoPath, FALSE) /\ Did(Call(t, "pipe", LowestFree(t), NoPath))
      BY <2>11 DEF Untraced, Free
    <3>2. Len(calls') = Len(calls) + 1
      BY <1>3, <3>1, Counting
    <3>3. OpenOK'
      BY <2>1, <3>1, <3>2, LargerTable
    <3>4. hidden' \in BOOLEAN
      BY <3>1 DEF TypeOK
    <3> QED BY <2>5, <3>1, <3>3, <3>4
  <2> QED BY <1>3, <2>2, <2>3, <2>6, <2>7, <2>8, <2>9, <2>10, <2>11 DEF Step
<1> QED BY <1>1, <1>2, <1>3 DEF Next

-----------------------------------------------------------------------------
(* What the merge stage holds is true                                      *)

\* What was true of some calls is true of them and another.
LEMMA FaithfulGrows ==
    ASSUME NEW l, NEW cs \in Seq(Made), Faithful(l, cs), NEW c \in Made, NEW more, more = Append(cs, c)
    PROVE  Faithful(l, more)
<1>1. DOMAIN cs \subseteq DOMAIN more /\ \A i \in DOMAIN cs : more[i] = cs[i]
  BY OneCallMore
<1>2. ASSUME NEW e, TrueEvent(e, cs) PROVE TrueEvent(e, more)
  BY <1>1, <1>2 DEF TrueEvent, Right
<1>3. ASSUME NEW f, TrueFile(f, cs) PROVE TrueFile(f, more)
  BY <1>1, <1>3 DEF TrueFile, Right
<1> QED BY <1>2, <1>3 DEF Faithful

\* A step whose records are right leaves the stage true to the calls.
LEMMA FaithfulStep ==
    ASSUME TypeOK, BooksKept, ~leaked, Faithful(merge, calls), Behind, Effect
    PROVE  Faithful(merge', calls')
<1>1. calls \in Seq(Made) /\ MergerOK(merge)
  BY DEF TypeOK, BooksKept
<1>2. CASE Silent
  BY <1>2 DEF Silent, stage
<1>3. ASSUME NEW c, Unseen(c) PROVE Faithful(merge', calls')
  <2>1. Faithful(merge, calls')
    BY <1>1, <1>3, FaithfulGrows DEF Unseen
  <2> QED BY <1>3, <2>1 DEF Unseen, stage
<1>4. ASSUME NEW r, NEW c, Seen(r, c) PROVE Faithful(merge', calls')
  <2>1. /\ merge' = MergeOne(merge, r) /\ RecordOK(r) /\ calls' = Append(calls, c) /\ c \in Made
        /\ r.call = Len(calls) + 1
    BY <1>4 DEF Seen
  <2>2. Faithful(merge, calls')
    BY <1>1, <2>1, FaithfulGrows
  <2>3. Fed(merge, r, merge')
    BY <1>1, <2>1, Merging
  <2>4. r.call \in DOMAIN calls' /\ calls'[r.call] = c
    BY <1>1, <2>1, OneCallMore
  <2>5. Origin(r.abs, r.truncated) = "Absolute" => Right(r.call, r.path, calls')
    BY <1>4, <2>4 DEF Seen, Right
  <2>6. ASSUME r.kind = "write", <<r.tgid, r.fd>> \in DOMAIN merge.files,
               merge.files[<<r.tgid, r.fd>>].abs, ~merge.files[<<r.tgid, r.fd>>].truncated
        PROVE  Right(r.call, merge.files[<<r.tgid, r.fd>>].path, calls')
    <3>1. PICK key : key = <<r.tgid, r.fd>>
      OBVIOUS
    <3>2. key[1] = r.tgid /\ key[2] = r.fd
      BY <3>1
    <3>3. SamePath(merge.files[key], open[key[1]][key[2]])
      BY <2>6, <3>1 DEF Behind
    <3>4. c.path = open[r.tgid][r.fd].path
      BY <1>4, <2>6 DEF Seen
    <3> QED BY <2>4, <2>6, <3>1, <3>2, <3>3, <3>4 DEF SamePath, Right
  <2>7. TrueRecord(merge, r, calls')
    BY <2>4, <2>5, <2>6 DEF TrueRecord
  <2> QED BY <2>2, <2>3, <2>7 DEF Fed
<1> QED BY <1>2, <1>3, <1>4 DEF Effect

\* The descriptors but those gone stay, with their paths.
Outlast(gone) ==
    \A q \in Processes : \A d \in DOMAIN open[q] : <<q, d>> \notin gone =>
        d \in DOMAIN open'[q] /\ open'[q][d].path = open[q][d].path

\* The files the stage has open are behind descriptors that stay.
LEMMA BehindStays ==
    ASSUME MergerOK(merge), Behind, NEW gone, DOMAIN merge'.files \subseteq DOMAIN merge.files \ gone,
           \A key \in DOMAIN merge'.files : SameFile(merge'.files[key], merge.files[key]),
           Outlast(gone)
    PROVE  Behind'
<1> SUFFICES ASSUME NEW key \in DOMAIN merge'.files
             PROVE  /\ key[2] \in DOMAIN open'[key[1]]
                    /\ SamePath(merge'.files[key], open'[key[1]][key[2]])
  BY DEF Behind
<1>1. key \in DOMAIN merge.files /\ key \notin gone
  OBVIOUS
<1>2. /\ key[2] \in DOMAIN open[key[1]] /\ SamePath(merge.files[key], open[key[1]][key[2]])
  BY <1>1 DEF Behind
<1>3. key[1] \in Processes /\ key = <<key[1], key[2]>>
  <2>1. key \in Tracked \X Nat
    BY <1>1 DEF MergerOK, Keys
  <2>2. Tracked \subseteq Processes
    BY GroupAssumption DEF Range, Processes
  <2> QED BY <2>1, <2>2
<1>4. /\ key[2] \in DOMAIN open'[key[1]] /\ open'[key[1]][key[2]].path = open[key[1]][key[2]].path
  BY <1>1, <1>2, <1>3 DEF Outlast
<1>5. SameFile(merge'.files[key], merge.files[key])
  OBVIOUS
<1> QED BY <1>2, <1>4, <1>5 DEF SamePath, SameFile

\* A record without a path leaves the files what they were, but for a close.
LEMMA PlainFiles ==
    ASSUME TypeOK, BooksKept, NEW t \in Tasks, NEW kind \in {"write", "close", "connect", "exec"},
           NEW fd \in Nat, NEW known \in BOOLEAN, Emit(t, Plain(t, kind, fd, known))
    PROVE  /\ DOMAIN merge'.files
                 \subseteq DOMAIN merge.files \ (IF kind = "close" THEN {<<Group[t], fd>>} ELSE {})
           /\ \A key \in DOMAIN merge'.files : SameFile(merge'.files[key], merge.files[key])
<1>1. PICK r : r = Plain(t, kind, fd, known)
  OBVIOUS
<1>2. CASE tracked(t)
  <2>1. RecordOK(r) /\ r.kind = kind /\ r.tgid = Group[t] /\ r.fd = fd
    BY <1>1, <1>2, PlainOK DEF TypeOK
  <2>2. merge' = MergeOne(merge, r)
    BY <1>1, <1>2 DEF Emit, Send
  <2>3. Filed(merge, r, merge')
    BY <2>1, <2>2, Merging DEF BooksKept
  <2>4. r.kind # "open"
    BY <2>1
  <2> QED BY <2>1, <2>3, <2>4 DEF Filed
<1>3. CASE ~tracked(t)
  <2>1. merge' = merge
    BY <1>3 DEF Emit, stage
  <2>2. \A key \in DOMAIN merge.files : key[1] \in Tracked
    BY DEF BooksKept, MergerOK, Keys
  <2>3. <<Group[t], fd>> \notin DOMAIN merge.files
    <3>1. PICK key : key = <<Group[t], fd>>
      OBVIOUS
    <3>2. key[1] = Group[t]
      BY <3>1
    <3> QED BY <1>3, <2>2, <3>1, <3>2 DEF tracked
  <2> QED BY <2>1, <2>3 DEF SameFile
<1> QED BY <1>2, <1>3

\* A path call leaves the files alone.
LEMMA PathOnlyFiles ==
    ASSUME TypeOK, BooksKept, NEW t \in Tasks, NEW path \in Paths, PathOnly(t, path)
    PROVE  /\ DOMAIN merge'.files \subseteq DOMAIN merge.files
           /\ \A key \in DOMAIN merge'.files : SameFile(merge'.files[key], merge.files[key])
<1>1. PICK no \in BOOLEAN : no = FALSE
  OBVIOUS
<1>2. PICK r : r = Pathed(t, "mkdir", NoFd, path, no)
  OBVIOUS
<1>3. Emit(t, r)
  BY <1>1, <1>2, Filling DEF PathOnly
<1>4. CASE tracked(t)
  <2>1. NoFd \in Nat /\ "mkdir" \in {"open", "mkdir"} /\ calls \in Seq(Made)
    BY DEF NoFd, TypeOK
  <2>2. RecordOK(r) /\ r.kind = "mkdir"
    BY <1>2, <1>4, <2>1, PathedOK
  <2>3. merge' = MergeOne(merge, r)
    BY <1>3, <1>4 DEF Emit, Send
  <2>4. Filed(merge, r, merge')
    BY <2>2, <2>3, Merging DEF BooksKept
  <2> QED BY <2>2, <2>4 DEF Filed
<1>5. CASE ~tracked(t)
  BY <1>3, <1>5 DEF Emit, stage, SameFile
<1> QED BY <1>4, <1>5

\* A descriptor more: the others stay.
LEMMA InstallOutlasts ==
    ASSUME TypeOK, OpenOK, NEW t \in Tasks, NEW path, NEW cloexec, Install(t, path, cloexec),
           Len(calls) < mix.calls
    PROVE  Outlast({}) /\ LowestFree(t) \in DOMAIN open'[Group[t]]
           /\ open'[Group[t]][LowestFree(t)].path = path
<1> DEFINE p == Group[t]
           fd == LowestFree(t)
           table == Put(open[p], fd, [path |-> path, cloexec |-> cloexec])
<1>1. p \in Processes /\ DOMAIN open = Processes
  BY DEF Processes, OpenOK
<1>2. open' = [open EXCEPT ![p] = table]
  BY DEF Install
<1>3. fd \notin DOMAIN open[p]
  BY LowestFreeOK DEF Fds
<1> HIDE DEF fd, p
<1>4. /\ DOMAIN table = DOMAIN open[p] \cup {fd} /\ table[fd].path = path
      /\ \A d \in DOMAIN open[p] : table[d] = open[p][d]
  BY <1>3 DEF Put
<1> HIDE DEF table
<1>5. open'[p] = table /\ \A q \in Processes \ {p} : open'[q] = open[q]
  BY <1>1, <1>2
<1>6. Outlast({})
  BY <1>4, <1>5 DEF Outlast
<1> QED BY <1>4, <1>5, <1>6 DEF p, fd

\* The files the stage has open after an open returned.
LEMMA OpenExitBehind ==
    ASSUME TypeOK, OpenOK, Parked, BooksKept, ~leaked, Behind,
           NEW t \in Tasks, NEW ok \in BOOLEAN, OpenExit(t, ok)
    PROVE  Behind'
<1> DEFINE fd == IF ok THEN LowestFree(t) ELSE NoFd
           path == inflight[t]
           failed == ~ok
<1>1. Len(calls) < mix.calls /\ (ok => Install(t, task[t].path, task[t].cloexec)) /\ (~ok => open' = open)
  BY DEF OpenExit
<1>2. Outlast({})
  <2>1. CASE ok
    BY <1>1, <2>1, InstallOutlasts
  <2>2. CASE ~ok
    BY <1>1, <2>2 DEF Outlast
  <2> QED BY <2>1, <2>2
<1>3. MergerOK(merge)
  BY DEF BooksKept
<1>4. CASE t \notin DOMAIN inflight
  <2>1. merge' = merge
    BY <1>4 DEF OpenExit, Key, stage
  <2> QED BY <1>2, <1>3, <2>1, BehindStays DEF SameFile
<1>5. CASE t \in DOMAIN inflight
  <2>1. tracked(t) /\ path \in Paths /\ failed \in BOOLEAN /\ task[t].path = path
    BY <1>5 DEF TypeOK, Parked
  <2>2. fd \in Nat
    BY <1>1, LowestFreeOK DEF NoFd
  <2>3. merge' = MergeOne(merge, Exited(t, path, failed, fd))
    BY <1>5 DEF OpenExit, Key, Exited, Send
  <2>4. ok => fd = LowestFree(t)
    OBVIOUS
  <2>5. failed <=> ~ok
    OBVIOUS
  <2> HIDE DEF fd, path, failed
  <2>6. PICK r : r = Pathed(t, "open", fd, path, failed)
    OBVIOUS
  <2>7. Exited(t, path, failed, fd) = r
    <3>1. \A a, b, d : Exited(t, a, b, d) = Pathed(t, "open", d, a, b)
      BY Filling
    <3>2. Exited(t, path, failed, fd) = Pathed(t, "open", fd, path, failed)
      BY <3>1
    <3> QED BY <2>6, <3>2
  <2>8. /\ RecordOK(r) /\ r.kind = "open" /\ r.tgid = Group[t] /\ r.fd = fd
        /\ (r.abs <=> path.abs) /\ (r.truncated <=> path.long) /\ (r.failed <=> failed)
        /\ r.path = IF path.long THEN "cut" ELSE path.name
    BY <2>1, <2>2, <2>6, PathedOK DEF TypeOK
  <2>9. Filed(merge, r, merge')
    BY <1>3, <2>3, <2>7, <2>8, Merging
  <2>10. CASE ~ok
    <3>1. r.failed
      BY <2>5, <2>8, <2>10
    <3>2. /\ DOMAIN merge'.files \subseteq DOMAIN merge.files \ {}
          /\ \A key \in DOMAIN merge'.files : SameFile(merge'.files[key], merge.files[key])
      BY <2>8, <2>9, <3>1 DEF Filed
    <3> QED BY <1>2, <1>3, <3>2, BehindStays
  <2>11. CASE ok
    <3> DEFINE key == <<r.tgid, r.fd>>
    <3>1. /\ DOMAIN merge'.files = DOMAIN merge.files \cup {key}
          /\ SameFile(merge'.files[key], r)
          /\ \A other \in DOMAIN merge'.files : other # key => SameFile(merge'.files[other], merge.files[other])
      BY <2>5, <2>8, <2>9, <2>11 DEF Filed
    <3>2. key[1] = Group[t] /\ key[2] = fd
      BY <2>8
    <3> HIDE DEF key
    <3>3. fd \in DOMAIN open'[Group[t]] /\ open'[Group[t]][fd].path = path
      BY <1>1, <2>1, <2>4, <2>11, InstallOutlasts
    <3>4. ASSUME NEW other \in DOMAIN merge'.files
          PROVE  /\ other[2] \in DOMAIN open'[other[1]]
                 /\ SamePath(merge'.files[other], open'[other[1]][other[2]])
      <4>1. CASE other = key
        <5>1. SamePath(merge'.files[key], open'[Group[t]][fd])
          BY <2>8, <3>1, <3>3 DEF SameFile, SamePath
        <5> QED BY <3>2, <3>3, <4>1, <5>1
      <4>2. CASE other # key
        <5>1. other \in DOMAIN merge.files /\ SameFile(merge'.files[other], merge.files[other])
          BY <3>1, <4>2
        <5>2. /\ other[2] \in DOMAIN open[other[1]]
              /\ SamePath(merge.files[other], open[other[1]][other[2]])
          BY <5>1 DEF Behind
        <5>3. other[1] \in Processes
          BY <1>3, <5>1, GroupAssumption DEF MergerOK, Keys, Range, Processes
        <5>4. /\ other[2] \in DOMAIN open'[other[1]]
              /\ open'[other[1]][other[2]].path = open[other[1]][other[2]].path
          BY <1>2, <5>2, <5>3 DEF Outlast
        <5> QED BY <5>1, <5>2, <5>4 DEF SamePath, SameFile
      <4> QED BY <4>1, <4>2
    <3> QED BY <3>4 DEF Behind
  <2> QED BY <2>10, <2>11
<1> QED BY <1>4, <1>5

\* As long as every end is reported, no file outlives its descriptor.
LEMMA BehindStep ==
    ASSUME TypeOK, OpenOK, Parked, BooksKept, ~hidden, ~leaked, Behind, ~hidden', ~leaked', [Next]_vars
    PROVE  Behind'
<1>0. /\ MergerOK(merge) /\ DOMAIN open = Processes
      /\ mix.paths \subseteq Paths /\ mix.tasks \subseteq Tasks
  BY BoundAssumption DEF BooksKept, OpenOK, TypeOK, Paths
<1>1. ASSUME merge' = merge, Outlast({}) PROVE Behind'
  BY <1>0, <1>1, BehindStays DEF SameFile
<1>2. CASE UNCHANGED vars
  BY <1>1, <1>2 DEF vars, kernel, stage, Outlast
<1>3. ASSUME NEW p \in Processes, Killed(p) PROVE Behind'
  <2>1. merge' = merge /\ open[p] = <<>> /\ open' = [open EXCEPT ![p] = <<>>]
    BY <1>3 DEF Killed, stage
  <2>2. Outlast({})
    BY <1>0, <2>1 DEF Outlast
  <2> QED BY <1>1, <2>1, <2>2
<1>4. ASSUME NEW t \in mix.tasks, Step(t) PROVE Behind'
  <2>1. t \in Tasks /\ Group[t] \in Processes /\ NoFd \in Nat
    BY <1>0 DEF Processes, NoFd
  <2>2. \A fd \in Fds(t) : fd \in Nat
    BY <2>1 DEF OpenOK, Fds
  <2>3. ASSUME NEW path \in mix.paths, NEW writing \in BOOLEAN, NEW cloexec \in BOOLEAN,
               OpenEnter(t, path, writing, cloexec)
        PROVE  Behind'
    <3>1. merge' = merge /\ open' = open
      BY <2>3 DEF OpenEnter, stage
    <3>2. Outlast({})
      BY <3>1 DEF Outlast
    <3> QED BY <1>1, <3>1, <3>2
  <2>4. ASSUME NEW ok \in BOOLEAN, OpenExit(t, ok) PROVE Behind'
    BY <2>1, <2>4, OpenExitBehind
  <2>5. ASSUME NEW kind \in {"write", "connect", "exec"}, NEW fd \in Nat, NEW known \in BOOLEAN,
               Emit(t, Plain(t, kind, fd, known)), Outlast({})
        PROVE  Behind'
    <3>1. kind \in {"write", "close", "connect", "exec"} /\ kind # "close"
      BY <2>5
    <3>2. /\ DOMAIN merge'.files \subseteq DOMAIN merge.files \ {}
          /\ \A key \in DOMAIN merge'.files : SameFile(merge'.files[key], merge.files[key])
      BY <2>1, <2>5, <3>1, PlainFiles
    <3> QED BY <1>0, <2>5, <3>2, BehindStays
  <2>6. ASSUME NEW fd \in Fds(t), Write(t, fd) PROVE Behind'
    <3>1. Emit(t, Plain(t, "write", fd, TRUE)) /\ open' = open
      BY <2>6, Filling DEF Write, kernel
    <3>2. Outlast({})
      BY <3>1 DEF Outlast
    <3> QED BY <2>2, <2>5, <3>1, <3>2
  <2>7. ASSUME NEW fd \in Fds(t), Close(t, fd) PROVE Behind'
    <3> DEFINE gone == {<<Group[t], fd>>}
    <3>1. /\ Emit(t, Plain(t, "close", fd, TRUE))
          /\ open' = [open EXCEPT ![Group[t]] = Restrict(open[Group[t]], DOMAIN open[Group[t]] \ {fd})]
      BY <2>7, Filling DEF Close, Without
    <3>2. Outlast(gone)
      <4> SUFFICES ASSUME NEW q \in Processes, NEW d \in DOMAIN open[q], <<q, d>> \notin gone
                   PROVE  d \in DOMAIN open'[q] /\ open'[q][d].path = open[q][d].path
        BY DEF Outlast
      <4>1. CASE q # Group[t]
        BY <1>0, <3>1, <4>1
      <4>2. CASE q = Group[t]
        BY <1>0, <3>1, <4>2 DEF Restrict
      <4> QED BY <4>1, <4>2
    <3>3. /\ DOMAIN merge'.files \subseteq DOMAIN merge.files \ gone
          /\ \A key \in DOMAIN merge'.files : SameFile(merge'.files[key], merge.files[key])
      BY <2>1, <2>2, <3>1, PlainFiles
    <3> HIDE DEF gone
    <3> QED BY <1>0, <3>2, <3>3, BehindStays
  <2>8. ASSUME NEW path \in mix.paths, PathOnly(t, path) PROVE Behind'
    <3>1. open' = open
      BY <2>8 DEF PathOnly, kernel
    <3>2. Outlast({})
      BY <3>1 DEF Outlast
    <3>3. /\ DOMAIN merge'.files \subseteq DOMAIN merge.files \ {}
          /\ \A key \in DOMAIN merge'.files : SameFile(merge'.files[key], merge.files[key])
      BY <1>0, <2>1, <2>8, PathOnlyFiles
    <3> QED BY <1>0, <3>2, <3>3, BehindStays
  <2>9. ASSUME NEW known \in BOOLEAN, Connect(t, known) PROVE Behind'
    <3>1. Emit(t, Plain(t, "connect", NoFd, known)) /\ open' = open
      BY <2>9, Filling DEF Connect, kernel
    <3>2. Outlast({})
      BY <3>1 DEF Outlast
    <3> QED BY <2>1, <2>5, <2>9, <3>1, <3>2
  <2>10. CASE Exec(t)
    <3> DEFINE kept == {fd \in Fds(t) : ~open[Group[t]][fd].cloexec}
    <3>1. /\ Emit(t, Plain(t, "exec", NoFd, TRUE)) /\ hidden' = (hidden \/ kept # Fds(t))
          /\ open' = [open EXCEPT ![Group[t]] = Restrict(open[Group[t]], kept)]
      BY <2>10, Filling DEF Exec
    <3> HIDE DEF kept
    <3>2. kept = DOMAIN open[Group[t]]
      BY <3>1 DEF Fds
    <3>3. Outlast({})
      BY <1>0, <3>1, <3>2 DEF Outlast, Restrict
    <3> QED BY <2>1, <2>5, <3>1, <3>3
  <2>11. CASE Untraced(t)
    <3>1. merge' = merge /\ Install(t, NoPath, FALSE) /\ Len(calls) < mix.calls
      BY <2>11 DEF Untraced, Free, stage
    <3>2. Outlast({})
      BY <2>1, <3>1, InstallOutlasts
    <3> QED BY <1>1, <3>1, <3>2
  <2> QED BY <1>4, <2>3, <2>4, <2>6, <2>7, <2>8, <2>9, <2>10, <2>11 DEF Step
<1> QED BY <1>2, <1>3, <1>4 DEF Next

\* What was hidden or leaked stays so.
LEMMA NothingForgotten ==
    ASSUME TypeOK, [Next]_vars
    PROVE  (hidden => hidden') /\ (leaked => leaked')
<1>1. CASE UNCHANGED vars
  BY <1>1 DEF vars
<1>2. ASSUME NEW p \in Processes, Killed(p) PROVE (hidden => hidden') /\ (leaked => leaked')
  BY <1>2 DEF Killed
<1>3. ASSUME NEW t \in mix.tasks, Step(t) PROVE (hidden => hidden') /\ (leaked => leaked')
  <2>1. ASSUME NEW path, NEW writing, NEW cloexec, OpenEnter(t, path, writing, cloexec)
        PROVE  hidden' = hidden /\ leaked' = leaked
    BY <2>1 DEF OpenEnter
  <2>2. ASSUME NEW ok, OpenExit(t, ok) PROVE hidden' = hidden /\ leaked' = leaked
    BY <2>2 DEF OpenExit
  <2>3. ASSUME NEW fd, Write(t, fd) PROVE hidden' = hidden /\ leaked' = leaked
    BY <2>3 DEF Write
  <2>4. ASSUME NEW fd, Close(t, fd) PROVE hidden' = hidden /\ leaked' = leaked
    BY <2>4 DEF Close
  <2>5. ASSUME NEW path, PathOnly(t, path) PROVE hidden' = hidden /\ leaked' = leaked
    BY <2>5 DEF PathOnly
  <2>6. ASSUME NEW known, Connect(t, known) PROVE hidden' = hidden /\ leaked' = leaked
    BY <2>6 DEF Connect
  <2>7. ASSUME Exec(t) PROVE (hidden => hidden') /\ leaked' = leaked
    BY <2>7 DEF Exec
  <2>8. ASSUME Untraced(t) PROVE hidden' = hidden /\ leaked' = leaked
    BY <2>8 DEF Untraced
  <2> QED BY <1>3, <2>1, <2>2, <2>3, <2>4, <2>5, <2>6, <2>7, <2>8 DEF Step
<1> QED BY <1>1, <1>2, <1>3 DEF Next

-----------------------------------------------------------------------------
(* The invariant                                                           *)

\* Nothing is told before anything happened.
LEMMA InitInv == ASSUME Init PROVE Inv
<1>1. DOMAIN <<>> = {} /\ <<>> \in Seq(Made) /\ <<>> \in Seq(Sent) /\ <<>> \in Seq(Told) /\ Len(<<>>) = 0
  OBVIOUS
<1>2. mix.calls \in Nat
  BY BoundAssumption DEF Init
<1>3. TypeOK
  <2>1. task \in [Tasks -> {Idle} \cup Opening]
    BY DEF Init
  <2>2. calls \in Seq(Made) /\ Len(calls) <= mix.calls
    BY <1>1, <1>2 DEF Init
  <2>3. DOMAIN inflight = {}
    BY <1>1 DEF Init
  <2> QED BY <2>1, <2>2, <2>3 DEF Init, TypeOK
<1>4. OpenOK
  <2>1. IsFiniteSet({}) /\ Cardinality({}) = 0
    BY FS_EmptySet
  <2> QED BY <1>1, <2>1 DEF Init, OpenOK
<1>5. Parked
  BY <1>1 DEF Init, Parked
<1>6. RecordsPaired
  BY <1>1 DEF Init, RecordsPaired
<1>7. merge.files = <<>> /\ merge.writes_without_path = {} /\ merge.events = <<>>
      /\ merge = [files |-> merge.files, writes_without_path |-> merge.writes_without_path,
                  events |-> merge.events]
  BY DEF Init, NewMerger
<1>8. MergerOK(merge)
  <2>1. IsFiniteSet({})
    BY FS_EmptySet
  <2>2. merge.files \in [DOMAIN merge.files -> FileRecord]
    BY <1>1, <1>7
  <2> QED BY <1>1, <1>7, <2>1, <2>2 DEF MergerOK
<1>9. /\ \A i : Tellers(merge, i) = {} /\ Holders(merge, i) = {}
      /\ Nameless(merge) = {} /\ Writes(calls) = {}
  BY <1>1, <1>7 DEF Tellers, Holders, Nameless, Writes, Init
<1>10. NamelessCalls(merge) = {}
  BY <1>9 DEF NamelessCalls
<1>11. BooksKept
  BY <1>7, <1>8, <1>9, <1>10 DEF BooksKept, TellsOnce, NamelessOK
<1>12. StageTrue
  BY <1>1, <1>7 DEF StageTrue, Faithful, Behind
<1> QED BY <1>3, <1>4, <1>5, <1>6, <1>11, <1>12 DEF Inv

\* The invariant is inductive.
LEMMA NextInv == ASSUME Inv, [Next]_vars PROVE Inv'
<1>1. Effect
  BY Effects DEF Inv
<1>2. (hidden => hidden') /\ (leaked => leaked')
  BY NothingForgotten DEF Inv
<1>3. RecordsPaired' /\ BooksKept' /\ calls' \in Seq(Made)
  BY <1>1, <1>2, BooksStep DEF Inv
<1>4. TypeOK' /\ OpenOK' /\ Parked'
  BY <1>3, TablesStep DEF Inv
<1>5. StageTrue'
  <2> SUFFICES ASSUME ~hidden', ~leaked' PROVE Faithful(merge', calls') /\ Behind'
    BY DEF StageTrue
  <2>1. ~hidden /\ ~leaked /\ Faithful(merge, calls) /\ Behind
    BY <1>2 DEF Inv, StageTrue
  <2>2. Faithful(merge', calls')
    BY <1>1, <2>1, FaithfulStep DEF Inv
  <2>3. Behind'
    BY <2>1, BehindStep DEF Inv
  <2> QED BY <2>2, <2>3
<1> QED BY <1>3, <1>4, <1>5 DEF Inv

\* So every state satisfies it.
LEMMA InvHolds == Spec => []Inv
<1>1. Init => Inv
  BY InitInv
<1>2. Inv /\ [Next]_vars => Inv'
  BY NextInv
<1> QED BY <1>1, <1>2, PTL DEF Spec

-----------------------------------------------------------------------------
(* What is told in the end                                                 *)

\* The files something was counted in.
Used == {key \in DOMAIN merge.files : merge.files[key].calls # {}}

\* What is told in the end: the events, then one total for each such file.
LEMMA MergedIs ==
    ASSUME MergerOK(merge), NEW n, n = Len(merge.events), NEW left, left = SetToSeq(Used)
    PROVE  /\ n \in Nat /\ DOMAIN merge.events = 1 .. n
           /\ \E m \in Nat : DOMAIN left = 1 .. m /\ DOMAIN Merged = 1 .. (n + m)
           /\ \A k \in DOMAIN merge.events : Merged[k] = merge.events[k]
           /\ \A j \in DOMAIN left : left[j] \in Used /\ Merged[n + j] = Total(merge.files[left[j]])
           /\ \A key \in Used : \E j \in DOMAIN left : left[j] = key
           /\ \A i, j \in DOMAIN left : left[i] = left[j] => i = j
<1>1. IsFiniteSet(Used)
  BY FS_Subset DEF MergerOK, Used
<1>2. PICK m \in Nat : DOMAIN left = 1 .. m
  BY <1>1, SetAsSequence
<1>3. /\ \A j \in DOMAIN left : left[j] \in Used
      /\ \A key \in Used : \E j \in DOMAIN left : left[j] = key
      /\ \A i, j \in DOMAIN left : left[i] = left[j] => i = j
  BY <1>1, SetAsSequence
<1> DEFINE totals == [j \in DOMAIN left |-> Total(merge.files[left[j]])]
<1>4. Merged = merge.events \o totals
  BY DEF Merged, Used
<1>5. \A j \in DOMAIN left : Total(merge.files[left[j]]) \in Told
  <2> SUFFICES ASSUME NEW j \in DOMAIN left PROVE Total(merge.files[left[j]]) \in Told
    OBVIOUS
  <2>1. merge.files[left[j]] \in FileRecord
    BY <1>3 DEF MergerOK, Used
  <2> QED BY <2>1, TotalOf
<1>6. /\ totals \in Seq(Told) /\ Len(totals) = m
      /\ \A j \in 1 .. m : totals[j] = Total(merge.files[left[j]])
  BY <1>2, <1>5
<1> HIDE DEF totals
<1>7. merge.events \in Seq(Told) /\ n \in Nat /\ DOMAIN merge.events = 1 .. n
  BY DEF MergerOK
<1>8. /\ DOMAIN Merged = 1 .. (n + m)
      /\ \A k \in 1 .. n : Merged[k] = merge.events[k]
      /\ \A j \in 1 .. m : Merged[n + j] = totals[j]
  <2>1. PICK es \in Seq(Told) : es = merge.events
    BY <1>7
  <2>2. PICK ts \in Seq(Told) : ts = totals
    BY <1>6
  <2>3. /\ DOMAIN (es \o ts) = 1 .. (Len(es) + Len(ts))
        /\ \A k \in 1 .. Len(es) : (es \o ts)[k] = es[k]
        /\ \A j \in 1 .. Len(ts) : (es \o ts)[Len(es) + j] = ts[j]
    OBVIOUS
  <2> QED BY <1>4, <1>6, <2>1, <2>2, <2>3
<1> QED BY <1>2, <1>3, <1>6, <1>7, <1>8

\* A write that the stage tells once is told once in the end, and one it does not
\* tell is not told.
LEMMA ToldInTheEnd ==
    ASSUME MergerOK(merge), NEW i, NEW tellers,
           tellers = {k \in DOMAIN Merged : Merged[k].kind = "write" /\ i \in Merged[k].calls}
    PROVE  /\ Once(merge, i) => Cardinality(tellers) = 1
           /\ Tellers(merge, i) = {} /\ Holders(merge, i) = {} => Cardinality(tellers) = 0
<1>1. PICK n : n = Len(merge.events)
  OBVIOUS
<1>2. PICK left : left = SetToSeq(Used)
  OBVIOUS
<1>3. /\ n \in Nat /\ DOMAIN merge.events = 1 .. n
      /\ \E m \in Nat : DOMAIN left = 1 .. m /\ DOMAIN Merged = 1 .. (n + m)
      /\ \A k \in DOMAIN merge.events : Merged[k] = merge.events[k]
      /\ \A j \in DOMAIN left : left[j] \in Used /\ Merged[n + j] = Total(merge.files[left[j]])
      /\ \A key \in Used : \E j \in DOMAIN left : left[j] = key
      /\ \A a, b \in DOMAIN left : left[a] = left[b] => a = b
  BY <1>1, <1>2, MergedIs
<1>4. PICK m \in Nat : DOMAIN left = 1 .. m /\ DOMAIN Merged = 1 .. (n + m)
  BY <1>3
<1>5. \A j \in 1 .. m : /\ left[j] \in DOMAIN merge.files
                       /\ Merged[n + j].kind = "write" /\ Merged[n + j].calls = merge.files[left[j]].calls
  <2> SUFFICES ASSUME NEW j \in 1 .. m
               PROVE  /\ left[j] \in DOMAIN merge.files
                      /\ Merged[n + j].kind = "write" /\ Merged[n + j].calls = merge.files[left[j]].calls
    OBVIOUS
  <2>1. left[j] \in DOMAIN merge.files /\ Merged[n + j] = Total(merge.files[left[j]])
    BY <1>3, <1>4 DEF Used
  <2>2. merge.files[left[j]] \in FileRecord
    BY <2>1 DEF MergerOK
  <2> QED BY <2>1, <2>2, TotalOf
<1>6. \A k \in 1 .. (n + m) : k \in 1 .. n \/ \E j \in 1 .. m : k = n + j
  <2> SUFFICES ASSUME NEW k \in 1 .. (n + m), k \notin 1 .. n PROVE \E j \in 1 .. m : k = n + j
    OBVIOUS
  <2>1. k - n \in 1 .. m /\ k = n + (k - n)
    BY <1>3
  <2> QED BY <2>1
<1>7. \A k \in 1 .. n : k \in tellers <=> k \in Tellers(merge, i)
  BY <1>3, <1>4 DEF Tellers
<1>8. \A j \in 1 .. m : n + j \in tellers <=> left[j] \in Holders(merge, i)
  BY <1>3, <1>4, <1>5 DEF Holders
<1>9. tellers \subseteq 1 .. (n + m) /\ Tellers(merge, i) \subseteq 1 .. n
  BY <1>3, <1>4 DEF Tellers
<1>10. CASE Tellers(merge, i) = {} /\ Holders(merge, i) = {}
  <2>1. tellers = {}
    BY <1>6, <1>7, <1>8, <1>9, <1>10
  <2>2. ~Once(merge, i)
    BY <1>10 DEF Once
  <2> QED BY <2>1, <2>2, FS_EmptySet
<1>11. CASE Once(merge, i)
  <2>1. \E k : tellers = {k}
    <3>1. ASSUME NEW k, Tellers(merge, i) = {k}, Holders(merge, i) = {} PROVE tellers = {k}
      BY <1>6, <1>7, <1>8, <1>9, <3>1
    <3>2. ASSUME NEW key, Tellers(merge, i) = {}, Holders(merge, i) = {key}
          PROVE  \E k : tellers = {k}
      <4>1. key \in Used
        BY <3>2 DEF Holders, Used
      <4>2. PICK j \in 1 .. m : left[j] = key
        BY <1>3, <1>4, <4>1
      <4>3. \A b \in 1 .. m : n + b \in tellers => b = j
        BY <1>3, <1>4, <1>8, <3>2, <4>2
      <4>4. n + j \in tellers
        BY <1>8, <3>2, <4>2
      <4>5. tellers = {n + j}
        BY <1>6, <1>7, <1>9, <3>2, <4>3, <4>4
      <4> QED BY <4>5
    <3> QED BY <1>11, <3>1, <3>2 DEF Once
  <2>2. ~(Tellers(merge, i) = {} /\ Holders(merge, i) = {})
    BY <1>11 DEF Once
  <2> QED BY <2>1, <2>2, FS_Singleton
<1> QED BY <1>10, <1>11

\* Only the events without a path are unnamed in the end: a total has a path.
LEMMA UnnamedInTheEnd ==
    ASSUME MergerOK(merge), NamelessOK(merge)
    PROVE  Unnamed(Merged) = merge.writes_without_path
<1>1. PICK n : n = Len(merge.events)
  OBVIOUS
<1>2. PICK left : left = SetToSeq(Used)
  OBVIOUS
<1>3. /\ n \in Nat /\ DOMAIN merge.events = 1 .. n
      /\ \E m \in Nat : DOMAIN left = 1 .. m /\ DOMAIN Merged = 1 .. (n + m)
      /\ \A k \in DOMAIN merge.events : Merged[k] = merge.events[k]
      /\ \A j \in DOMAIN left : left[j] \in Used /\ Merged[n + j] = Total(merge.files[left[j]])
  BY <1>1, <1>2, MergedIs
<1>4. PICK m \in Nat : DOMAIN left = 1 .. m /\ DOMAIN Merged = 1 .. (n + m)
  BY <1>3
<1>5. \A j \in 1 .. m : Merged[n + j].path # ""
  <2> SUFFICES ASSUME NEW j \in 1 .. m PROVE Merged[n + j].path # ""
    OBVIOUS
  <2>1. left[j] \in DOMAIN merge.files /\ Merged[n + j] = Total(merge.files[left[j]])
    BY <1>3, <1>4 DEF Used
  <2>2. merge.files[left[j]] \in FileRecord
    BY <2>1 DEF MergerOK
  <2>3. Merged[n + j].path = merge.files[left[j]].path /\ merge.files[left[j]].path \in Names
    BY <2>1, <2>2, TotalOf DEF FileRecord
  <2> QED BY <2>3, NamesAreNotEmpty
<1>6. \A k \in 1 .. (n + m) : k \in 1 .. n \/ \E j \in 1 .. m : k = n + j
  <2> SUFFICES ASSUME NEW k \in 1 .. (n + m), k \notin 1 .. n PROVE \E j \in 1 .. m : k = n + j
    OBVIOUS
  <2>1. k - n \in 1 .. m /\ k = n + (k - n)
    BY <1>3
  <2> QED BY <2>1
<1>7. 1 .. n \subseteq 1 .. (n + m)
  BY <1>3
<1>8. \A c : c \in Unnamed(Merged) <=>
          \E k \in DOMAIN Merged : Merged[k].kind = "write" /\ Merged[k].path = "" /\ c \in Merged[k].calls
  BY DEF Unnamed, Range
<1>9. \A c : c \in NamelessCalls(merge) <=>
          \E k \in DOMAIN merge.events :
              merge.events[k].kind = "write" /\ merge.events[k].path = "" /\ c \in merge.events[k].calls
  BY DEF NamelessCalls, Nameless
<1>10. ASSUME NEW c PROVE c \in Unnamed(Merged) <=> c \in NamelessCalls(merge)
  <2>1. ASSUME NEW k \in DOMAIN Merged,
               Merged[k].kind = "write", Merged[k].path = "", c \in Merged[k].calls
        PROVE  c \in NamelessCalls(merge)
    <3>1. k \in 1 .. n
      BY <1>4, <1>5, <1>6, <2>1
    <3>2. k \in DOMAIN merge.events /\ Merged[k] = merge.events[k]
      BY <1>3, <3>1
    <3> QED BY <1>9, <2>1, <3>2
  <2>2. ASSUME NEW k \in DOMAIN merge.events,
               merge.events[k].kind = "write", merge.events[k].path = "", c \in merge.events[k].calls
        PROVE  c \in Unnamed(Merged)
    <3>1. k \in DOMAIN Merged /\ Merged[k] = merge.events[k]
      BY <1>3, <1>4, <1>7
    <3> QED BY <1>8, <2>2, <3>1
  <2> QED BY <1>8, <1>9, <2>1, <2>2
<1>11. Unnamed(Merged) = NamelessCalls(merge)
  BY <1>10
<1> QED BY <1>11 DEF NamelessOK

-----------------------------------------------------------------------------
(* Theorems                                                                *)

\* An open record has the path and the descriptor of one and the same open call,
\* for any number of threads in any order, unless a task died with its path parked.
THEOREM OpensArePaired == Spec => []OpensPaired
<1>1. Inv => OpensPaired
  <2> SUFFICES ASSUME Inv, ~leaked, NEW r \in Range(records), r.kind = "open"
               PROVE  LET call == calls[r.call]
                      IN  /\ call.op = "open" /\ call.tgid = r.tgid /\ call.fd = r.fd
                          /\ r.path = Named(r, call.path).path
    BY DEF OpensPaired
  <2>1. PICK k \in DOMAIN records : r = records[k]
    BY DEF Range
  <2>2. Paired(records[k], calls)
    BY <2>1 DEF Inv, RecordsPaired
  <2> QED BY <2>1, <2>2 DEF Paired
<1> QED BY <1>1, InvHolds, PTL

\* Each write of a recorded process is in one event of what is told in the end,
\* and in one only, and writes to unknown descriptors are the counted ones.
THEOREM WritesToldOnce == Spec => []WritesTold
<1> DEFINE tellers(i) == {k \in DOMAIN Merged : Merged[k].kind = "write" /\ i \in Merged[k].calls}
<1>1. ASSUME Inv, NEW i \in DOMAIN calls, calls[i].op = "write"
      PROVE  Cardinality(tellers(i)) = IF calls[i].tgid \in Tracked THEN 1 ELSE 0
  <2>1. MergerOK(merge) /\ TellsOnce(merge, Writes(calls)) /\ i \in Nat
    BY <1>1 DEF Inv, TypeOK, BooksKept
  <2>2. /\ Once(merge, i) => Cardinality(tellers(i)) = 1
        /\ Tellers(merge, i) = {} /\ Holders(merge, i) = {} => Cardinality(tellers(i)) = 0
    BY <2>1, ToldInTheEnd
  <2>3. i \in Writes(calls) <=> calls[i].tgid \in Tracked
    BY <1>1 DEF Writes
  <2> QED BY <2>1, <2>2, <2>3 DEF TellsOnce
<1>2. ASSUME Inv PROVE Unnamed(Merged) = merge.writes_without_path
  BY <1>2, UnnamedInTheEnd DEF Inv, BooksKept
<1>3. Inv => WritesTold
  BY <1>1, <1>2 DEF WritesTold
<1> QED BY <1>3, InvHolds, PTL

\* While the end of every descriptor was reported, a path marked Absolute is the
\* path the kernel used in each call that is told under it.
THEOREM AbsoluteIsTrusted == Spec => []AbsoluteIsTrue
<1>1. ASSUME Inv, ~hidden, ~leaked, NEW e \in Range(Merged)
      PROVE  TrueEvent(e, calls)
  <2>1. MergerOK(merge) /\ Faithful(merge, calls)
    BY <1>1 DEF Inv, BooksKept, StageTrue
  <2>2. PICK n : n = Len(merge.events)
    OBVIOUS
  <2>3. PICK left : left = SetToSeq(Used)
    OBVIOUS
  <2>4. /\ n \in Nat /\ DOMAIN merge.events = 1 .. n
        /\ \E m \in Nat : DOMAIN left = 1 .. m /\ DOMAIN Merged = 1 .. (n + m)
        /\ \A k \in DOMAIN merge.events : Merged[k] = merge.events[k]
        /\ \A j \in DOMAIN left : left[j] \in Used /\ Merged[n + j] = Total(merge.files[left[j]])
    BY <2>1, <2>2, <2>3, MergedIs
  <2>5. PICK m \in Nat : DOMAIN left = 1 .. m /\ DOMAIN Merged = 1 .. (n + m)
    BY <2>4
  <2>6. PICK k \in 1 .. (n + m) : e = Merged[k]
    BY <2>5 DEF Range
  <2>7. CASE k \in 1 .. n
    <3>1. k \in DOMAIN merge.events /\ e = merge.events[k]
      BY <2>4, <2>6, <2>7
    <3> QED BY <2>1, <3>1 DEF Faithful
  <2>8. CASE k \notin 1 .. n
    <3>1. k - n \in 1 .. m /\ k = n + (k - n)
      BY <2>4, <2>8
    <3>2. PICK key \in DOMAIN merge.files : e = Total(merge.files[key])
      BY <2>4, <2>5, <2>6, <3>1 DEF Used
    <3>3. merge.files[key] \in FileRecord /\ TrueFile(merge.files[key], calls)
      BY <2>1 DEF MergerOK, Faithful
    <3> QED BY <3>2, <3>3, TotalOf
  <2> QED BY <2>7, <2>8
<1>2. Inv => AbsoluteIsTrue
  BY <1>1 DEF AbsoluteIsTrue, TrueEvent, Right
<1> QED BY <1>2, InvHolds, PTL
=============================================================================
