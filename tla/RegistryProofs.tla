--------------------------- MODULE RegistryProofs ---------------------------
(***************************************************************************)
(* What the registry guarantees for any number of users, recordings and    *)
(* pushes: blobs are never truncated, the index only names stored and      *)
(* complete recordings, and a blob that was already there is verified.     *)
(***************************************************************************)
EXTENDS Registry, TLAPS

\* What a line holds: the pieces it is a sequence of.
LEMMA RangeOfSeq ==
    ASSUME NEW S, NEW s \in Seq(S)
    PROVE  Range(s) \subseteq S /\ \A i \in 1 .. Len(s) : s[i] \in Range(s)
  BY DEF Range

\* Appending adds one element, and an empty sequence has none.
LEMMA RangeOfAppend ==
    ASSUME NEW S, NEW s \in Seq(S), NEW x \in S
    PROVE  Range(Append(s, x)) = Range(s) \cup {x}
<1> DEFINE t == Append(s, x)
<1>1. DOMAIN t = 1 .. Len(s) + 1 /\ DOMAIN s = 1 .. Len(s) /\ Len(s) \in Nat
  OBVIOUS
<1>2. \A i \in 1 .. Len(s) : t[i] = s[i]
  OBVIOUS
<1>3. t[Len(s) + 1] = x
  OBVIOUS
<1>4. Range(t) \subseteq Range(s) \cup {x}
  <2> SUFFICES ASSUME NEW i \in DOMAIN t PROVE t[i] \in Range(s) \cup {x}
    BY DEF Range
  <2>1. i \in 1 .. Len(s) \/ i = Len(s) + 1
    BY <1>1
  <2> QED BY <2>1, <1>1, <1>2, <1>3 DEF Range
<1>5. Range(s) \subseteq Range(t)
  BY <1>1, <1>2 DEF Range
<1>6. x \in Range(t)
  BY <1>1, <1>3 DEF Range
<1> QED BY <1>4, <1>5, <1>6

\* An empty line holds no piece.
LEMMA RangeOfEmpty == Range(<<>>) = {}
  BY DEF Range

\* Every variable holds a value of its type (module Registry, TypeOK).
THEOREM TypeCorrect == Spec => []TypeOK
<1>1. Init => TypeOK
  <2> SUFFICES ASSUME Init PROVE TypeOK
    OBVIOUS
  <2>1. lines \in Seq(Seq(Piece)) /\ rest \in Seq(Piece)
    BY DEF Init
  <2>2. job \in [Users -> Entry]
    BY DEF Init
  <2> QED BY <2>1, <2>2 DEF Init, TypeOK
<1>2. TypeOK /\ [Next]_vars => TypeOK'
  <2> SUFFICES ASSUME TypeOK, [Next]_vars PROVE TypeOK'
    OBVIOUS
  <2> USE DEF TypeOK, Entry, Piece, Whole, Torn, Writing
  <2>1. ASSUME NEW u \in Users, Open(u) PROVE TypeOK'
    <3>1. Written \subseteq Piece
      <4>1. Range(rest) \subseteq Piece
        BY RangeOfSeq
      <4>2. ASSUME NEW i \in 1 .. Len(lines) PROVE Range(lines[i]) \subseteq Piece
        <5>1. lines[i] \in Seq(Piece)
          OBVIOUS
        <5> QED BY <5>1, RangeOfSeq
      <4>3. ASSUME NEW w \in Written PROVE w \in Piece
        <5>1. CASE w \in Range(rest)
          BY <5>1, <4>1
        <5>2. CASE \E i \in 1 .. Len(lines) : w \in Range(lines[i])
          BY <5>2, <4>2
        <5> QED BY <5>1, <5>2, <4>3 DEF Written
      <4> QED BY <4>3
    <3>2. Loaded \subseteq Entry
      BY <3>1 DEF Loaded
    <3> QED BY <2>1, <3>2 DEF Open, disk, history
  <2>2. ASSUME NEW u \in Users, Close(u) PROVE TypeOK'
    BY <2>2 DEF Close, disk, history
  <2>3. ASSUME NEW u \in Users, NEW e \in Entry, Push(u, e) PROVE TypeOK'
    BY <2>3 DEF Push, disk
  <2>4. ASSUME NEW u \in Users, Exists(u) PROVE TypeOK'
    BY <2>4 DEF Exists, disk, history
  <2>5. ASSUME NEW u \in Users, Verify(u) PROVE TypeOK'
    BY <2>5 DEF Verify, disk, history
  <2>6. ASSUME NEW u \in Users, Create(u) PROVE TypeOK'
    BY <2>6 DEF Create, history
  <2>7. ASSUME NEW u \in Users, Fill(u) PROVE TypeOK'
    BY <2>7 DEF Fill, history
  <2>8. ASSUME NEW u \in Users, Rename(u) PROVE TypeOK'
    BY <2>8 DEF Rename, history
  <2>9. ASSUME NEW u \in Users, RenameLoses(u) PROVE TypeOK'
    BY <2>9 DEF RenameLoses, history
  <2>10. ASSUME NEW u \in Users, AppendText(u) PROVE TypeOK'
    BY <2>10 DEF AppendText, history
  <2>11. ASSUME NEW u \in Users, AppendNewline(u) PROVE TypeOK'
    BY <2>11 DEF AppendNewline
  <2>12. ASSUME NEW u \in Users, Fail(u) PROVE TypeOK'
    <3>1. rest' \in Seq(Piece)
      <4>1. Torn(job[u]) \in Piece
        OBVIOUS
      <4>2. Append(rest, Torn(job[u])) \in Seq(Piece)
        BY <4>1
      <4>3. rest' = rest \/ rest' = Append(rest, Torn(job[u]))
        BY <2>12 DEF Fail
      <4> QED BY <4>2, <4>3
    <3>2. trouble' \in Nat /\ cut' \in BOOLEAN
      BY <2>12, <3>1 DEF Fail, Trouble
    <3> QED BY <2>12, <3>1, <3>2 DEF Fail
  <2>13. ASSUME NEW u \in Users, Killed(u) PROVE TypeOK'
    <3>1. rest' \in Seq(Piece)
      <4>1. Torn(job[u]) \in Piece
        OBVIOUS
      <4>2. Append(rest, Torn(job[u])) \in Seq(Piece)
        BY <4>1
      <4>3. rest' = rest \/ rest' = Append(rest, Torn(job[u]))
        BY <2>13 DEF Killed
      <4> QED BY <4>2, <4>3
    <3>2. trouble' \in Nat /\ cut' \in BOOLEAN
      BY <2>13, <3>1 DEF Killed, Trouble
    <3> QED BY <2>13, <3>1, <3>2 DEF Killed
  <2>14. ASSUME NEW d \in Streams, Damage(d) PROVE TypeOK'
    BY <2>14 DEF Damage, Trouble
  <2>15. CASE UNCHANGED vars
    BY <2>15 DEF vars, disk, history
  <2> QED
    BY <2>1, <2>2, <2>3, <2>4, <2>5, <2>6, <2>7, <2>8, <2>9, <2>10, <2>11,
       <2>12, <2>13, <2>14, <2>15 DEF Next
<1> QED BY <1>1, <1>2, PTL DEF Spec

-----------------------------------------------------------------------------
(* Blobs                                                                   *)

\* What a push relies on between two of its steps: the recording is complete,
\* the temporary file it is about to rename is full, and the blob it is about
\* to index is stored.
PushInv ==
    \A u \in Users :
        /\ pc[u] \in Writing => IsComplete(job[u].digest)
        /\ pc[u] = "rename" => temp[u] = job[u].digest
        /\ pc[u] \in {"append", "newline"} => blobs[job[u].digest] # Absent

StoreInv == TypeOK /\ BlobsAreWhole /\ PushInv

\* No step leaves a truncated blob under an address, nor a push past its rename
\* without a blob.
LEMMA StoreStep == StoreInv /\ [Next]_vars => BlobsAreWhole' /\ PushInv'
<1> SUFFICES ASSUME StoreInv, [Next]_vars PROVE BlobsAreWhole' /\ PushInv'
  OBVIOUS
<1> USE ContentAssumption DEF StoreInv, TypeOK, BlobsAreWhole, PushInv, Entry, Writing
<1>1. ASSUME NEW u \in Users, Open(u) PROVE BlobsAreWhole' /\ PushInv'
  BY <1>1 DEF Open, disk, history
<1>2. ASSUME NEW u \in Users, Close(u) PROVE BlobsAreWhole' /\ PushInv'
  BY <1>2 DEF Close, disk, history
<1>3. ASSUME NEW u \in Users, NEW e \in Entry, Push(u, e)
      PROVE BlobsAreWhole' /\ PushInv'
  BY <1>3 DEF Push, disk
<1>4. ASSUME NEW u \in Users, Exists(u) PROVE BlobsAreWhole' /\ PushInv'
  BY <1>4 DEF Exists, disk, history
<1>5. ASSUME NEW u \in Users, Verify(u) PROVE BlobsAreWhole' /\ PushInv'
  BY <1>5 DEF Verify, disk, history
<1>6. ASSUME NEW u \in Users, Create(u) PROVE BlobsAreWhole' /\ PushInv'
  BY <1>6 DEF Create, history
<1>7. ASSUME NEW u \in Users, Fill(u) PROVE BlobsAreWhole' /\ PushInv'
  BY <1>7 DEF Fill, history
<1>8. ASSUME NEW u \in Users, Rename(u) PROVE BlobsAreWhole' /\ PushInv'
  BY <1>8 DEF Rename, history
<1>9. ASSUME NEW u \in Users, RenameLoses(u) PROVE BlobsAreWhole' /\ PushInv'
  BY <1>9 DEF RenameLoses, history
<1>10. ASSUME NEW u \in Users, AppendText(u) PROVE BlobsAreWhole' /\ PushInv'
  BY <1>10 DEF AppendText, history
<1>11. ASSUME NEW u \in Users, AppendNewline(u) PROVE BlobsAreWhole' /\ PushInv'
  BY <1>11 DEF AppendNewline
<1>12. ASSUME NEW u \in Users, Fail(u) PROVE BlobsAreWhole' /\ PushInv'
  BY <1>12 DEF Fail
<1>13. ASSUME NEW u \in Users, Killed(u) PROVE BlobsAreWhole' /\ PushInv'
  BY <1>13 DEF Killed
<1>14. ASSUME NEW d \in Streams, Damage(d) PROVE BlobsAreWhole' /\ PushInv'
  BY <1>14 DEF Damage
<1>15. CASE UNCHANGED vars
  BY <1>15 DEF vars, disk, history
<1> QED
  BY <1>1, <1>2, <1>3, <1>4, <1>5, <1>6, <1>7, <1>8, <1>9, <1>10, <1>11,
     <1>12, <1>13, <1>14, <1>15 DEF Next

\* StoreInv is inductive: what Store::write relies on between its calls.
LEMMA StoreCorrect == Spec => []StoreInv
<1>1. Init => BlobsAreWhole /\ PushInv
  BY DEF Init, BlobsAreWhole, PushInv, Writing
<1> QED BY <1>1, StoreStep, TypeCorrect, PTL DEF Spec, StoreInv

\* No kill, failed call or racing user leaves a truncated blob at a content
\* address (Store::write).
THEOREM BlobsStayWhole == Spec => []BlobsAreWhole
<1>1. StoreInv => BlobsAreWhole
  BY DEF StoreInv
<1> QED BY <1>1, StoreCorrect, PTL

-----------------------------------------------------------------------------
(* Verification of a blob that is already there                            *)

\* A blob that appeared after the existence check is intact, unless it was
\* damaged during this push.
VerifyInv ==
    \A u \in Users \ struck :
        pc[u] \in {"create", "fill", "rename"} =>
            blobs[job[u].digest] \in {Absent, job[u].digest}

\* Every step keeps the blob of a push that no damage struck absent or intact, and
\* intact once the push is about to index it.
LEMMA VerifyStep ==
    StoreInv /\ VerifyInv /\ VerifiedThenIndexed /\ [Next]_vars
        => VerifyInv' /\ VerifiedThenIndexed'
<1> SUFFICES ASSUME StoreInv, VerifyInv, VerifiedThenIndexed, [Next]_vars
             PROVE  VerifyInv' /\ VerifiedThenIndexed'
  OBVIOUS
<1> USE ContentAssumption DEF StoreInv, TypeOK, PushInv, VerifyInv,
        VerifiedThenIndexed, Entry, Writing
<1>1. ASSUME NEW u \in Users, Open(u) PROVE VerifyInv' /\ VerifiedThenIndexed'
  BY <1>1 DEF Open, disk, history
<1>2. ASSUME NEW u \in Users, Close(u) PROVE VerifyInv' /\ VerifiedThenIndexed'
  BY <1>2 DEF Close, disk, history
<1>3. ASSUME NEW u \in Users, NEW e \in Entry, Push(u, e)
      PROVE VerifyInv' /\ VerifiedThenIndexed'
  BY <1>3 DEF Push, disk
<1>4. ASSUME NEW u \in Users, Exists(u) PROVE VerifyInv' /\ VerifiedThenIndexed'
  BY <1>4 DEF Exists, disk, history
<1>5. ASSUME NEW u \in Users, Verify(u) PROVE VerifyInv' /\ VerifiedThenIndexed'
  BY <1>5 DEF Verify, disk, history
<1>6. ASSUME NEW u \in Users, Create(u) PROVE VerifyInv' /\ VerifiedThenIndexed'
  BY <1>6 DEF Create, history
<1>7. ASSUME NEW u \in Users, Fill(u) PROVE VerifyInv' /\ VerifiedThenIndexed'
  BY <1>7 DEF Fill, history
<1>8. ASSUME NEW u \in Users, Rename(u) PROVE VerifyInv' /\ VerifiedThenIndexed'
  BY <1>8 DEF Rename, history
<1>9. ASSUME NEW u \in Users, RenameLoses(u) PROVE VerifyInv' /\ VerifiedThenIndexed'
  BY <1>9 DEF RenameLoses, history
<1>10. ASSUME NEW u \in Users, AppendText(u) PROVE VerifyInv' /\ VerifiedThenIndexed'
  BY <1>10 DEF AppendText, history
<1>11. ASSUME NEW u \in Users, AppendNewline(u)
       PROVE VerifyInv' /\ VerifiedThenIndexed'
  BY <1>11 DEF AppendNewline
<1>12. ASSUME NEW u \in Users, Fail(u) PROVE VerifyInv' /\ VerifiedThenIndexed'
  BY <1>12 DEF Fail
<1>13. ASSUME NEW u \in Users, Killed(u) PROVE VerifyInv' /\ VerifiedThenIndexed'
  BY <1>13 DEF Killed
<1>14. ASSUME NEW d \in Streams, Damage(d) PROVE VerifyInv' /\ VerifiedThenIndexed'
  BY <1>14 DEF Damage
<1>15. CASE UNCHANGED vars
  BY <1>15 DEF vars, disk, history
<1> QED
  BY <1>1, <1>2, <1>3, <1>4, <1>5, <1>6, <1>7, <1>8, <1>9, <1>10, <1>11,
     <1>12, <1>13, <1>14, <1>15 DEF Next

\* A push indexes a digest only when the blob under it is intact, unless it was
\* damaged while the push was running (the check of an existing blob in
\* Store::write).
THEOREM IndexedAfterVerification == Spec => []VerifiedThenIndexed
<1>1. Init => VerifyInv /\ VerifiedThenIndexed
  BY DEF Init, VerifyInv, VerifiedThenIndexed
<1> QED BY <1>1, VerifyStep, StoreCorrect, PTL DEF Spec

-----------------------------------------------------------------------------
(* The index                                                               *)

\* The pieces on disk when one of them is added to the unterminated rest.
LEMMA WrittenGrows ==
    ASSUME TypeOK, NEW w \in Piece, rest' = Append(rest, w), lines' = lines
    PROVE  Written' = Written \cup {w}
<1>1. Range(rest') = Range(rest) \cup {w}
  BY RangeOfAppend DEF TypeOK
<1> QED BY <1>1, Zenon DEF Written

\* Terminating the line moves its pieces and changes nothing else.
LEMMA WrittenStays ==
    ASSUME TypeOK, lines' = Append(lines, rest), rest' = <<>>
    PROVE  Written' = Written
<1> DEFINE n == Len(lines)
<1>1. lines \in Seq(Seq(Piece)) /\ rest \in Seq(Piece)
  BY DEF TypeOK
<1>2. n \in Nat /\ Len(lines') = n + 1
  BY <1>1
<1>3. \A i \in 1 .. n : lines'[i] = lines[i]
  BY <1>1
<1>4. lines'[n + 1] = rest
  BY <1>1
<1>5. Range(rest') = {}
  BY RangeOfEmpty
<1>6. ASSUME NEW w PROVE w \in Written' <=> w \in Written
  <2>1. w \in Written' <=> \E i \in 1 .. n + 1 : w \in Range(lines'[i])
    BY <1>2, <1>5, Zenon DEF Written
  <2>2. w \in Written <=> w \in Range(rest) \/ \E i \in 1 .. n : w \in Range(lines[i])
    BY Zenon DEF Written
  <2>3. 1 .. n + 1 = (1 .. n) \cup {n + 1}
    BY <1>2
  <2> QED BY <2>1, <2>2, <2>3, <1>3, <1>4
<1> QED BY <1>6

\* What a step may write: text is only added, and only by a user who has
\* stored the blob it names.
Grows == /\ Written \subseteq Written'
         /\ \A w \in Written' \ Written :
               \E u \in Users : pc[u] = "append" /\ w.entry = job[u]
         /\ \A d \in Streams : blobs[d] # Absent => blobs'[d] # Absent

\* Text and blobs only ever grow, and new text is the job of an appending push.
LEMMA StepGrows == StoreInv /\ [Next]_vars => Grows
<1> SUFFICES ASSUME StoreInv, [Next]_vars PROVE Grows
  OBVIOUS
<1>t. TypeOK /\ PushInv
  BY DEF StoreInv
<1>p. ASSUME NEW u \in Users
      PROVE /\ Whole(job[u]) \in Piece /\ Whole(job[u]).entry = job[u]
            /\ Torn(job[u]) \in Piece /\ Torn(job[u]).entry = job[u]
  BY <1>t DEF TypeOK, Piece, Whole, Torn
<1>1. ASSUME UNCHANGED <<lines, rest>> PROVE Written' = Written
  BY <1>1 DEF Written
<1>2. ASSUME UNCHANGED <<blobs, lines, rest>> PROVE Grows
  BY <1>1, <1>2 DEF Grows
<1>3. ASSUME NEW u \in Users, Rename(u) PROVE Grows
  <2>1. job[u].digest \in Streams /\ temp[u] = job[u].digest
    BY <1>3, <1>t DEF Rename, TypeOK, PushInv, Entry
  <2>2. \A d \in Streams : blobs[d] # Absent => blobs'[d] # Absent
    BY <1>3, <1>t, <2>1, ContentAssumption DEF Rename, TypeOK
  <2>3. UNCHANGED <<lines, rest>>
    BY <1>3 DEF Rename
  <2> QED BY <1>1, <2>2, <2>3 DEF Grows
<1>4. ASSUME NEW u \in Users, NEW w \in Piece, w.entry = job[u],
             pc[u] = "append", rest' = Append(rest, w), UNCHANGED <<blobs, lines>>
      PROVE Grows
  <2>1. Written' = Written \cup {w}
    BY <1>t, <1>4, WrittenGrows
  <2> QED BY <1>4, <2>1 DEF Grows
<1>5. ASSUME NEW u \in Users, AppendNewline(u) PROVE Grows
  <2>1. Written' = Written /\ blobs' = blobs
    BY <1>5, <1>t, WrittenStays DEF AppendNewline
  <2> QED BY <2>1 DEF Grows
<1>6. ASSUME NEW u \in Users, Fail(u) \/ Killed(u) PROVE Grows
  <2>1. UNCHANGED <<blobs, lines>>
    BY <1>6 DEF Fail, Killed
  <2>2. CASE rest' = rest
    BY <2>1, <2>2, <1>2
  <2>3. CASE pc[u] = "append" /\ rest' = Append(rest, Torn(job[u]))
    BY <2>1, <2>3, <1>p, <1>4
  <2> QED BY <1>6, <2>2, <2>3 DEF Fail, Killed
<1>7. ASSUME NEW d \in Streams, Damage(d) PROVE Grows
  <2>1. \A x \in Streams : blobs[x] # Absent => blobs'[x] # Absent
    BY <1>7, <1>t, ContentAssumption DEF Damage, TypeOK
  <2>2. UNCHANGED <<lines, rest>>
    BY <1>7 DEF Damage
  <2> QED BY <1>1, <2>1, <2>2 DEF Grows
<1>8. ASSUME NEW u \in Users, AppendText(u) PROVE Grows
  BY <1>8, <1>p, <1>4 DEF AppendText
<1>9. ASSUME NEW u \in Users,
             \/ Open(u) \/ Close(u) \/ (\E e \in Entry : Push(u, e)) \/ Exists(u)
             \/ Verify(u) \/ Create(u) \/ Fill(u) \/ RenameLoses(u)
      PROVE Grows
  BY <1>9, <1>2 DEF Open, Close, Push, Exists, Verify, Create, Fill, RenameLoses, disk
<1>10. CASE UNCHANGED vars
  BY <1>10, <1>2 DEF vars, disk
<1> QED BY <1>3, <1>5, <1>6, <1>7, <1>8, <1>9, <1>10 DEF Next

\* Everything the index names is stored, everything acknowledged or listed by
\* a handle is in the index, and so is the text of a user about to end the line.
IndexInv == /\ IndexedIsStored
            /\ AckedIsDurable
            /\ HandleFollowsDisk
            /\ \A u \in Users : pc[u] = "newline" => Whole(job[u]) \in Written

\* New text names a recording that Push accepted and Store::write stored.
LEMMA IndexedStep == StoreInv /\ IndexedIsStored /\ [Next]_vars => IndexedIsStored'
<1> SUFFICES ASSUME StoreInv, IndexedIsStored, [Next]_vars,
                    NEW w \in Written'
             PROVE  blobs'[w.entry.digest] # Absent /\ IsComplete(w.entry.digest)
  BY DEF IndexedIsStored
<1>1. Grows
  BY StepGrows
<1>2. \A v \in Written : v.entry.digest \in Streams
  <2>1. TypeOK
    BY DEF StoreInv
  <2>2. Range(rest) \subseteq Piece
    BY <2>1, RangeOfSeq DEF TypeOK
  <2>3. ASSUME NEW i \in 1 .. Len(lines) PROVE Range(lines[i]) \subseteq Piece
    <3>1. lines[i] \in Seq(Piece)
      BY <2>1 DEF TypeOK
    <3> QED BY <3>1, RangeOfSeq
  <2>4. \A v \in Written : v \in Piece
    BY <2>2, <2>3 DEF Written
  <2> QED BY <2>4 DEF Piece, Entry
<1>3. CASE w \in Written
  BY <1>1, <1>2, <1>3 DEF Grows, IndexedIsStored
<1>4. CASE w \notin Written
  <2>1. PICK u \in Users : pc[u] = "append" /\ w.entry = job[u]
    BY <1>1, <1>4 DEF Grows
  <2>2. /\ job[u].digest \in Streams
        /\ blobs[job[u].digest] # Absent
        /\ IsComplete(job[u].digest)
    BY <2>1 DEF StoreInv, TypeOK, Entry, PushInv, Writing
  <2> QED BY <1>1, <2>1, <2>2 DEF Grows
<1> QED BY <1>3, <1>4

\* The entries acknowledged or listed after a step were so before, were loaded
\* from the index, or have their text on disk already.
LEMMA AckedStep == StoreInv /\ IndexInv /\ [Next]_vars => AckedIsDurable'
<1> SUFFICES ASSUME StoreInv, IndexInv, [Next]_vars, NEW e \in acked'
             PROVE  Whole(e) \in Written' /\ blobs'[e.digest] # Absent
  BY DEF AckedIsDurable
<1>1. Grows
  BY StepGrows
<1>2. \/ e \in acked
      \/ \E u \in Users : pc[u] = "newline" /\ e = job[u]
  BY DEF Next, Open, Close, Push, Exists, Verify, Create, Fill, Rename,
     RenameLoses, AppendText, AppendNewline, Fail, Killed, Damage, vars, history
<1>3. /\ e \in Entry
      /\ Whole(e) \in Written
      /\ blobs[e.digest] # Absent
  BY <1>2 DEF IndexInv, AckedIsDurable, StoreInv, TypeOK, PushInv
<1> QED BY <1>1, <1>3 DEF Grows, Entry

\* A handle learns of an entry from the file, or after writing it there.
LEMMA HandleStep == StoreInv /\ IndexInv /\ [Next]_vars => HandleFollowsDisk'
<1> SUFFICES ASSUME StoreInv, IndexInv, [Next]_vars, NEW u \in Users,
                    NEW e \in entries'[u]
             PROVE  Whole(e) \in Written'
  BY DEF HandleFollowsDisk
<1>1. Grows /\ TypeOK
  BY StepGrows DEF StoreInv
<1>2. ASSUME NEW v \in Users, Open(v), e \notin entries[u] PROVE Whole(e) \in Written
  <2>1. Readable /\ e \in Loaded
    BY <1>2, <1>1 DEF Open, TypeOK
  <2>2. PICK w \in Written : e = w.entry
    BY <2>1 DEF Loaded
  <2>3. w.whole /\ w \in Piece
    <3>1. \A i \in 1 .. Len(lines) : lines[i] \in Seq(Piece) /\ Parses(lines[i])
      <4>1. ASSUME NEW i \in 1 .. Len(lines) PROVE Parses(lines[i])
        <5>1. /\ i \in 1 .. Len(FileLines)
              /\ FileLines[i] = lines[i]
          BY <1>1 DEF FileLines, TypeOK
        <5> QED BY <5>1, <2>1 DEF Readable
      <4> QED BY <4>1, <1>1 DEF TypeOK
    <3>2. rest \in Seq(Piece) /\ Parses(rest)
      <4>1. /\ Len(FileLines) \in 1 .. Len(FileLines)
            /\ FileLines[Len(FileLines)] = rest
        BY <1>1 DEF FileLines, TypeOK
      <4> QED BY <4>1, <2>1, <1>1 DEF Readable, TypeOK
    <3>3. ASSUME NEW l \in Seq(Piece), Parses(l), w \in Range(l)
          PROVE w.whole /\ w \in Piece
      BY <3>3 DEF Parses, Range
    <3> QED BY <3>1, <3>2, <3>3 DEF Written
  <2> QED BY <2>2, <2>3 DEF Piece, Whole
<1>3. \/ e \in entries[u]
      \/ \E v \in Users : Open(v)
      \/ \E v \in Users : pc[v] = "newline" /\ e = job[v]
  <2>0. entries \in [Users -> SUBSET Entry]
    BY <1>1 DEF TypeOK
  <2>1. ASSUME NEW v \in Users, AppendNewline(v)
        PROVE e \in entries[u] \/ (pc[v] = "newline" /\ e = job[v])
    BY <2>0, <2>1 DEF AppendNewline
  <2>2. ASSUME NEW v \in Users, Close(v) \/ Killed(v) PROVE e \in entries[u]
    BY <2>0, <2>2 DEF Close, Killed
  <2>3. ASSUME entries' = entries PROVE e \in entries[u]
    BY <2>3
  <2>4. ASSUME NEW v \in Users,
               \/ (\E x \in Entry : Push(v, x)) \/ Exists(v) \/ Verify(v)
               \/ Create(v) \/ Fill(v) \/ Rename(v) \/ RenameLoses(v)
               \/ AppendText(v) \/ Fail(v)
        PROVE e \in entries[u]
    BY <2>3, <2>4 DEF Push, Exists, Verify, Create, Fill, Rename, RenameLoses,
       AppendText, Fail
  <2>5. ASSUME NEW d \in Streams, Damage(d) PROVE e \in entries[u]
    BY <2>3, <2>5 DEF Damage
  <2>6. CASE UNCHANGED vars
    BY <2>3, <2>6 DEF vars
  <2> QED BY <2>1, <2>2, <2>4, <2>5, <2>6 DEF Next
<1>4. Whole(e) \in Written
  BY <1>2, <1>3 DEF IndexInv, HandleFollowsDisk
<1> QED BY <1>1, <1>4 DEF Grows

\* Between the text and its newline the entry is already in the file.
LEMMA NewlineStep ==
    StoreInv /\ IndexInv /\ [Next]_vars =>
        \A u \in Users : pc'[u] = "newline" => Whole(job'[u]) \in Written'
<1> SUFFICES ASSUME StoreInv, IndexInv, [Next]_vars, NEW u \in Users,
                    pc'[u] = "newline"
             PROVE  Whole(job'[u]) \in Written'
  OBVIOUS
<1>1. Grows /\ TypeOK
  BY StepGrows DEF StoreInv
<1>2. \/ pc[u] = "newline" /\ job'[u] = job[u]
      \/ AppendText(u)
  BY <1>1 DEF TypeOK, Next, Open, Close, Push, Exists, Verify, Create, Fill, Rename,
     RenameLoses, AppendText, AppendNewline, Fail, Killed, Damage, vars, history
<1>3. CASE pc[u] = "newline" /\ job'[u] = job[u]
  BY <1>1, <1>3 DEF Grows, IndexInv
<1>4. CASE AppendText(u)
  <2>1. Whole(job[u]) \in Piece
    BY <1>1 DEF TypeOK, Piece, Whole
  <2>2. Written' = Written \cup {Whole(job[u])}
    BY <1>1, <1>4, <2>1, WrittenGrows DEF AppendText
  <2> QED BY <1>4, <2>2 DEF AppendText
<1> QED BY <1>2, <1>3, <1>4

\* IndexInv is inductive.
LEMMA IndexCorrect == Spec => []IndexInv
<1>1. Init => IndexInv
  <2> SUFFICES ASSUME Init PROVE IndexInv
    OBVIOUS
  <2>1. Written = {}
    BY RangeOfEmpty DEF Init, Written
  <2> QED BY <2>1 DEF Init, IndexInv, IndexedIsStored, AckedIsDurable, HandleFollowsDisk
<1>2. StoreInv /\ IndexInv /\ [Next]_vars => IndexInv'
  BY IndexedStep, AckedStep, HandleStep, NewlineStep DEF IndexInv
<1> QED BY <1>1, <1>2, StoreCorrect, PTL DEF Spec

\* The index names only stored, complete recordings, even in text that a kill
\* cut short or that two users wrote onto one line (Registry::push).
THEOREM IndexNamesStored == Spec => []IndexedIsStored
<1>1. IndexInv => IndexedIsStored
  BY DEF IndexInv
<1> QED BY <1>1, IndexCorrect, PTL

\* A push that returned Ok is in the index file with its blob for good.
THEOREM AcknowledgedPushIsDurable == Spec => []AckedIsDurable
<1>1. IndexInv => AckedIsDurable
  BY DEF IndexInv
<1> QED BY <1>1, IndexCorrect, PTL

\* No handle lists a recording that the index file does not hold.
THEOREM HandlesFollowDisk == Spec => []HandleFollowsDisk
<1>1. IndexInv => HandleFollowsDisk
  BY DEF IndexInv
<1> QED BY <1>1, IndexCorrect, PTL

-----------------------------------------------------------------------------
(* Loading the index                                                       *)

\* While no append was cut or overlapped, every terminated line is one entry
\* and the rest is empty, or the one entry of the only user about to end it.
LineInv ==
    ~overlapped /\ ~cut =>
        /\ \A i \in 1 .. Len(lines) : Parses(lines[i])
        /\ \/ rest = <<>> /\ \A u \in Users : pc[u] # "newline"
           \/ \E u \in Users :
                 /\ pc[u] = "newline"
                 /\ rest = <<Whole(job[u])>>
                 /\ \A v \in Users : pc[v] = "newline" => v = u

\* A step that writes nothing to the index and leaves every user between its two
\* writes where it was keeps the lines as they are.
LEMMA LinesStay ==
    ASSUME TypeOK, LineInv, UNCHANGED <<lines, rest, overlapped, cut>>,
           \A u \in Users : /\ pc'[u] = "newline" <=> pc[u] = "newline"
                            /\ pc[u] = "newline" => job'[u] = job[u]
    PROVE  LineInv'
  BY DEF LineInv

\* Each half of an append keeps the lines readable, and anything that stops one
\* half way is recorded in `cut`.
LEMMA LineStep == TypeOK /\ LineInv /\ [Next]_vars => LineInv'
<1> SUFFICES ASSUME TypeOK, LineInv, [Next]_vars PROVE LineInv'
  OBVIOUS
<1> USE DEF TypeOK
<1>1. ASSUME NEW u \in Users, AppendText(u) PROVE LineInv'
  <2> SUFFICES ASSUME ~overlapped', ~cut'
               PROVE  /\ \A i \in 1 .. Len(lines) : Parses(lines[i])
                      /\ rest' = <<Whole(job[u])>>
                      /\ pc'[u] = "newline"
                      /\ \A v \in Users : pc'[v] = "newline" => v = u
    BY <1>1 DEF AppendText, LineInv
  <2>1. ~overlapped /\ ~cut /\ \A v \in Users : pc[v] # "newline"
    BY <1>1 DEF AppendText
  <2>2. rest = <<>> /\ \A i \in 1 .. Len(lines) : Parses(lines[i])
    BY <2>1 DEF LineInv
  <2> QED BY <1>1, <2>1, <2>2 DEF AppendText
<1>2. ASSUME NEW u \in Users, AppendNewline(u) PROVE LineInv'
  <2> SUFFICES ASSUME ~overlapped, ~cut
               PROVE  /\ \A i \in 1 .. Len(lines') : Parses(lines'[i])
                      /\ rest' = <<>> /\ \A v \in Users : pc'[v] # "newline"
    BY <1>2 DEF AppendNewline, LineInv
  <2>1. /\ rest = <<Whole(job[u])>>
        /\ \A v \in Users : pc[v] = "newline" => v = u
        /\ \A i \in 1 .. Len(lines) : Parses(lines[i])
    BY <1>2 DEF AppendNewline, LineInv
  <2>2. Parses(rest)
    BY <2>1 DEF Parses, Whole
  <2>3. \A i \in 1 .. Len(lines') : Parses(lines'[i])
    <3> TAKE i \in 1 .. Len(lines')
    <3>1. lines' = Append(lines, rest)
      BY <1>2 DEF AppendNewline
    <3>2. i \in 1 .. Len(lines) \/ i = Len(lines) + 1
      BY <3>1
    <3> QED BY <2>1, <2>2, <3>1, <3>2
  <2> QED BY <1>2, <2>1, <2>3 DEF AppendNewline
<1>3. ASSUME NEW u \in Users, Fail(u) \/ Killed(u) PROVE LineInv'
  <2>1. CASE cut'
    BY <2>1 DEF LineInv
  <2>2. CASE ~cut'
    <3>1. pc[u] # "newline" /\ rest' = rest /\ ~cut
      BY <1>3, <2>2 DEF Fail, Killed
    <3> QED BY <1>3, <2>2, <3>1, LinesStay DEF Fail, Killed
  <2> QED BY <2>1, <2>2
<1>4. ASSUME NEW u \in Users,
             \/ Open(u) \/ Close(u) \/ (\E e \in Entry : Push(u, e)) \/ Exists(u)
             \/ Verify(u) \/ Create(u) \/ Fill(u) \/ Rename(u) \/ RenameLoses(u)
      PROVE LineInv'
  BY <1>4, LinesStay DEF Open, Close, Push, Exists, Verify, Create, Fill,
     Rename, RenameLoses, disk, history
<1>5. ASSUME NEW d \in Streams, Damage(d) PROVE LineInv'
  BY <1>5, LinesStay DEF Damage
<1>6. CASE UNCHANGED vars
  BY <1>6, LinesStay DEF vars, disk, history
<1> QED BY <1>1, <1>2, <1>3, <1>4, <1>5, <1>6 DEF Next

\* Unless two appends overlapped or one was cut half way, a later Registry::open
\* reads the index and lists every recording whose push returned Ok.
THEOREM UncutIndexStaysLoadable == Spec => []UncutIndexLoads
<1>1. Init => LineInv
  BY DEF Init, LineInv
<1>2. TypeOK /\ LineInv /\ AckedIsDurable => UncutIndexLoads
  <2> SUFFICES ASSUME TypeOK, LineInv, AckedIsDurable, ~overlapped, ~cut
               PROVE  Readable /\ acked \subseteq Loaded
    BY DEF UncutIndexLoads
  <2>1. Parses(rest) /\ \A i \in 1 .. Len(lines) : Parses(lines[i])
    BY DEF LineInv, Parses, Whole
  <2>2. Readable
    <3> SUFFICES ASSUME NEW i \in 1 .. Len(FileLines)
                 PROVE  Parses(FileLines[i])
      BY DEF Readable
    <3>1. i \in 1 .. Len(lines) \/ i = Len(lines) + 1
      BY DEF FileLines, TypeOK
    <3> QED BY <2>1, <3>1 DEF FileLines, TypeOK
  <2>3. acked \subseteq Loaded
    <3> SUFFICES ASSUME NEW e \in acked PROVE e \in Loaded
      OBVIOUS
    <3>1. Whole(e) \in Written /\ Whole(e).entry = e
      BY DEF AckedIsDurable, Whole
    <3> QED BY <3>1 DEF Loaded
  <2> QED BY <2>2, <2>3
<1> QED BY <1>1, <1>2, LineStep, TypeCorrect, AcknowledgedPushIsDurable, PTL
        DEF Spec

=============================================================================
