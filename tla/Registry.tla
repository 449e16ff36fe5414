------------------------------ MODULE Registry ------------------------------
(***************************************************************************)
(* The snapshot registry: registry/src/store.rs, index.rs and lib.rs.      *)
(*                                                                         *)
(* Each user is a process with a Registry handle: it loads the index once, *)
(* then pushes recordings.  A push writes a blob under the digest of its   *)
(* content, through a temporary file, and then appends one line to the     *)
(* index.  Every system call is a step: other users run, the user is       *)
(* killed, or the call fails, between any two of them.                     *)
(*                                                                         *)
(* What the data is abstracted to.  A digest is injective, so a stream is  *)
(* its own digest and a blob is the stream it decompresses to, or Damaged. *)
(* A temporary name holds the process id and a nonce and only the final    *)
(* name is ever looked up, so a temporary file left behind is never read   *)
(* again: `temp` keeps one per user.  The index file is a sequence of      *)
(* terminated lines and an unterminated rest; a line is a sequence of      *)
(* pieces because O_APPEND writes of two users can land on one line, and   *)
(* writeln! on a File writes the text and the newline separately.          *)
(***************************************************************************)
EXTENDS Naturals, Sequences, FiniteSets, Functions

CONSTANTS
    Users,          \* processes that use the registry directory
    Streams,        \* recordings, as event streams
    Ends,           \* per stream: the verdict of each session_end, in order
    Labels,         \* package@version
    Damaged,        \* content that does not hash to its address
    Absent,         \* no such file
    MaxPushes,      \* bound: pushes
    MaxTrouble      \* bound: kills, failed calls and damaged blobs

ASSUME EndsAssumption == Ends \in [Streams -> Seq({"complete", "partial"})]
ASSUME ContentAssumption ==
    Damaged \notin Streams /\ Absent \notin Streams \cup {Damaged}
ASSUME LimitAssumption == MaxPushes \in Nat /\ MaxTrouble \in Nat

VARIABLES
    blobs,          \* blobs/<digest>: what the final name holds
    temp,           \* what a user's temporary file holds
    lines,          \* index.jsonl: its terminated lines
    rest,           \* index.jsonl: what follows the last newline
    pc,             \* where each user is
    entries,        \* the entries of each user's handle
    job,            \* the entry being pushed
    acked,          \* history: entries whose push returned Ok
    cut,            \* history: some append stopped half way
    overlapped,     \* history: some append began while another was half done
    damaged,        \* history: digests whose blob was damaged from outside
    struck,         \* history: users whose blob was damaged during their push
    pushes, trouble \* counters for the bounds

disk == <<blobs, temp, lines, rest>>
history == <<acked, cut, overlapped, damaged, struck, pushes, trouble>>
vars == <<disk, pc, entries, job, history>>

-----------------------------------------------------------------------------
Entry == [label : Labels, digest : Streams]

Piece == [entry : Entry, whole : BOOLEAN]

Whole(e) == [entry |-> e, whole |-> TRUE]

Torn(e) == [entry |-> e, whole |-> FALSE]

Writing == {"exists", "verify", "create", "fill", "rename", "append", "newline"}

\* StreamFacts::of: the last session_end decides, and none is incomplete.
IsComplete(s) == Ends[s] # <<>> /\ Ends[s][Len(Ends[s])] = "complete"

\* What serde_json accepts on one line; a blank line is skipped.
Parses(line) == line = <<>> \/ (Len(line) = 1 /\ line[1].whole)

\* text.lines() also yields the last line when it has no newline.
FileLines == Append(lines, rest)

Readable == \A i \in 1 .. Len(FileLines) : Parses(FileLines[i])

Written == Range(rest) \cup UNION {Range(lines[i]) : i \in 1 .. Len(lines)}

\* What Index::load returns from a readable file.  The order of the entries
\* only matters to `latest`, which changes nothing.
Loaded == {w.entry : w \in Written}

Init == /\ blobs = [d \in Streams |-> Absent]
        /\ temp = [u \in Users |-> Absent]
        /\ lines = <<>>
        /\ rest = <<>>
        /\ pc = [u \in Users |-> "closed"]
        /\ entries = [u \in Users |-> {}]
        /\ \E e \in Entry : job = [u \in Users |-> e]
        /\ acked = {}
        /\ cut = FALSE
        /\ overlapped = FALSE
        /\ damaged = {}
        /\ struck = {}
        /\ pushes = 0
        /\ trouble = 0

-----------------------------------------------------------------------------
(* Registry::open and Index::load: refused, with nothing changed, when any *)
(* line is malformed.                                                      *)

Open(u) ==
    /\ pc[u] = "closed"
    /\ Readable
    /\ entries' = [entries EXCEPT ![u] = Loaded]
    /\ pc' = [pc EXCEPT ![u] = "ready"]
    /\ UNCHANGED <<disk, job, history>>

Close(u) ==
    /\ pc[u] = "ready"
    /\ entries' = [entries EXCEPT ![u] = {}]
    /\ pc' = [pc EXCEPT ![u] = "closed"]
    /\ UNCHANGED <<disk, job, history>>

(* Registry::push: an incomplete recording is refused before any write.    *)

MutantPush(u, e) ==
    /\ pc[u] = "ready"
    /\ pushes < MaxPushes
    /\ Ends[e.digest] # <<>>
    /\ job' = [job EXCEPT ![u] = e]
    /\ pc' = [pc EXCEPT ![u] = "exists"]
    /\ struck' = struck \ {u}
    /\ pushes' = pushes + 1
    /\ UNCHANGED <<disk, entries, acked, cut, overlapped, damaged, trouble>>

Push(u, e) ==
    /\ pc[u] = "ready"
    /\ pushes < MaxPushes
    /\ IsComplete(e.digest)
    /\ job' = [job EXCEPT ![u] = e]
    /\ pc' = [pc EXCEPT ![u] = "exists"]
    /\ struck' = struck \ {u}
    /\ pushes' = pushes + 1
    /\ UNCHANGED <<disk, entries, acked, cut, overlapped, damaged, trouble>>

-----------------------------------------------------------------------------
(* Store::write                                                            *)

MutantExists(u) ==
    /\ pc[u] = "exists"
    /\ pc' = [pc EXCEPT ![u] =
                IF blobs[job[u].digest] # Absent THEN "append" ELSE "create"]
    /\ UNCHANGED <<disk, entries, job, history>>

Exists(u) ==
    /\ pc[u] = "exists"
    /\ pc' = [pc EXCEPT ![u] =
                IF blobs[job[u].digest] # Absent THEN "verify" ELSE "create"]
    /\ UNCHANGED <<disk, entries, job, history>>

\* The stored copy is hashed; a mismatch ends the push with an error.
Verify(u) ==
    /\ pc[u] = "verify"
    /\ pc' = [pc EXCEPT ![u] =
                IF blobs[job[u].digest] = job[u].digest THEN "append" ELSE "ready"]
    /\ UNCHANGED <<disk, entries, job, history>>

MutantCreate(u) ==
    /\ pc[u] = "create"
    /\ blobs' = [blobs EXCEPT ![job[u].digest] = Damaged]
    /\ temp' = [temp EXCEPT ![u] = Damaged]
    /\ pc' = [pc EXCEPT ![u] = "fill"]
    /\ UNCHANGED <<lines, rest, entries, job, history>>

\* File::create under the temporary name, empty so far.
Create(u) ==
    /\ pc[u] = "create"
    /\ temp' = [temp EXCEPT ![u] = Damaged]
    /\ pc' = [pc EXCEPT ![u] = "fill"]
    /\ UNCHANGED <<blobs, lines, rest, entries, job, history>>

MutantFill(u) ==
    /\ pc[u] = "fill"
    /\ temp' = [temp EXCEPT ![u] = job[u]]
    /\ pc' = [pc EXCEPT ![u] = "rename"]
    /\ UNCHANGED <<blobs, lines, rest, entries, job, history>>

\* write_all and sync_all.
Fill(u) ==
    /\ pc[u] = "fill"
    /\ temp' = [temp EXCEPT ![u] = job[u].digest]
    /\ pc' = [pc EXCEPT ![u] = "rename"]
    /\ UNCHANGED <<blobs, lines, rest, entries, job, history>>

Rename(u) ==
    /\ pc[u] = "rename"
    /\ blobs' = [blobs EXCEPT ![job[u].digest] = temp[u]]
    /\ temp' = [temp EXCEPT ![u] = Absent]
    /\ pc' = [pc EXCEPT ![u] = "append"]
    /\ UNCHANGED <<lines, rest, entries, job, history>>

MutantRenameLoses(u) ==
    /\ pc[u] = "rename"
    /\ temp' = [temp EXCEPT ![u] = Absent]
    /\ pc' = [pc EXCEPT ![u] = "append"]
    /\ UNCHANGED <<blobs, lines, rest, entries, job, history>>

\* rename failed, but another user has stored the same blob meanwhile.
RenameLoses(u) ==
    /\ pc[u] = "rename"
    /\ blobs[job[u].digest] # Absent
    /\ temp' = [temp EXCEPT ![u] = Absent]
    /\ pc' = [pc EXCEPT ![u] = "append"]
    /\ UNCHANGED <<blobs, lines, rest, entries, job, history>>

-----------------------------------------------------------------------------
(* Index::append                                                           *)

MutantAppendText(u) ==
    /\ pc[u] = "append"
    /\ pc' = [pc EXCEPT ![u] = "newline"]
    /\ UNCHANGED <<disk, entries, job, history>>

AppendText(u) ==
    /\ pc[u] = "append"
    /\ rest' = Append(rest, Whole(job[u]))
    /\ pc' = [pc EXCEPT ![u] = "newline"]
    /\ overlapped' = (overlapped \/ \E v \in Users : pc[v] = "newline")
    /\ UNCHANGED <<blobs, temp, lines, entries, job, acked, cut, damaged, struck,
                   pushes, trouble>>

MutantAppendNewline(u) ==
    /\ pc[u] = "newline"
    /\ entries' = [entries EXCEPT ![u] = @ \cup {job[u]}]
    /\ acked' = acked \cup {job[u]}
    /\ pc' = [pc EXCEPT ![u] = "ready"]
    /\ UNCHANGED <<disk, job, cut, overlapped, damaged, struck, pushes, trouble>>

\* The newline, the flush that a File does not need, and entries.push.
AppendNewline(u) ==
    /\ pc[u] = "newline"
    /\ lines' = Append(lines, rest)
    /\ rest' = <<>>
    /\ entries' = [entries EXCEPT ![u] = @ \cup {job[u]}]
    /\ acked' = acked \cup {job[u]}
    /\ pc' = [pc EXCEPT ![u] = "ready"]
    /\ UNCHANGED <<blobs, temp, job, cut, overlapped, damaged, struck, pushes,
                   trouble>>

-----------------------------------------------------------------------------
(* What may go wrong                                                       *)

Trouble == trouble < MaxTrouble /\ trouble' = trouble + 1

\* A call fails: the push returns the error, and the handle is still open.
\* A failed write of the text may have written part of it.
Fail(u) ==
    /\ pc[u] \in Writing \ {"exists"}
    /\ Trouble
    /\ pc[u] = "rename" => blobs[job[u].digest] = Absent
    /\ \/ rest' = rest
       \/ pc[u] = "append" /\ rest' = Append(rest, Torn(job[u]))
    /\ cut' = (cut \/ pc[u] = "newline" \/ rest' # rest)
    /\ pc' = [pc EXCEPT ![u] = "ready"]
    /\ UNCHANGED <<blobs, temp, lines, entries, job, acked, overlapped, damaged, struck,
                   pushes>>

\* The user is killed.
Killed(u) ==
    /\ pc[u] # "closed"
    /\ Trouble
    /\ \/ rest' = rest
       \/ pc[u] = "append" /\ rest' = Append(rest, Torn(job[u]))
    /\ cut' = (cut \/ pc[u] = "newline" \/ rest' # rest)
    /\ pc' = [pc EXCEPT ![u] = "closed"]
    /\ entries' = [entries EXCEPT ![u] = {}]
    /\ UNCHANGED <<blobs, temp, lines, job, acked, overlapped, damaged, struck, pushes>>

\* A stored blob is edited, truncated or badly restored.
Damage(d) ==
    /\ blobs[d] \in Streams
    /\ Trouble
    /\ blobs' = [blobs EXCEPT ![d] = Damaged]
    /\ damaged' = damaged \cup {d}
    /\ struck' = struck \cup {u \in Users : pc[u] \in Writing /\ job[u].digest = d}
    /\ UNCHANGED <<temp, lines, rest, pc, entries, job, acked, cut, overlapped,
                   pushes>>

Next == \/ \E u \in Users : \/ Open(u) \/ Close(u)
                            \/ \E e \in Entry : Push(u, e)
                            \/ Exists(u) \/ Verify(u) \/ Create(u) \/ Fill(u)
                            \/ Rename(u) \/ RenameLoses(u)
                            \/ AppendText(u) \/ AppendNewline(u)
                            \/ Killed(u) \/ Fail(u)
        \/ \E d \in Streams : Damage(d)

Spec == Init /\ [][Next]_vars

-----------------------------------------------------------------------------
(* Properties                                                              *)

\* Every variable holds a value of its type.
TypeOK ==
    /\ blobs \in [Streams -> Streams \cup {Damaged, Absent}]
    /\ temp \in [Users -> Streams \cup {Damaged, Absent}]
    /\ lines \in Seq(Seq(Piece))
    /\ rest \in Seq(Piece)
    /\ pc \in [Users -> Writing \cup {"closed", "ready"}]
    /\ entries \in [Users -> SUBSET Entry]
    /\ job \in [Users -> Entry]
    /\ acked \subseteq Entry
    /\ cut \in BOOLEAN
    /\ overlapped \in BOOLEAN
    /\ damaged \subseteq Streams
    /\ struck \subseteq Users
    /\ pushes \in Nat
    /\ trouble \in Nat

\* A blob that nothing outside the registry has touched is the stream of its
\* address: no kill, failure or racing user leaves a truncated one there
\* (Store::write writes to a temporary name and renames).
BlobsAreWhole == \A d \in Streams \ damaged : blobs[d] \in {d, Absent}

\* Whatever text is in the index, even text of a push that was cut short or
\* that two users wrote over each other, names a stored and complete recording
\* (Registry::push refuses a PARTIAL one and stores before it indexes).
IndexedIsStored ==
    \A w \in Written : /\ blobs[w.entry.digest] # Absent
                       /\ IsComplete(w.entry.digest)

\* A push that finds the blob already there does not take it on trust: by the
\* time it indexes the digest the blob is intact, unless it was damaged while
\* this very push was running (the verification in Store::write).
VerifiedThenIndexed ==
    \A u \in Users \ struck :
        pc[u] \in {"append", "newline"} => blobs[job[u].digest] = job[u].digest

\* A handle never lists a recording the index file does not hold: memory
\* follows the disk (Index::append pushes to `entries` last).
HandleFollowsDisk ==
    \A u \in Users : \A e \in entries[u] : Whole(e) \in Written

\* A push that returned Ok left its whole entry in the index file and a blob
\* under its digest, whatever other users did since.
AckedIsDurable ==
    \A e \in acked : Whole(e) \in Written /\ blobs[e.digest] # Absent

\* Unless two appends overlapped or one was cut half way, the index loads, and
\* loads every recording whose push returned Ok; kills and failures anywhere
\* else in a push, and pushes that run side by side up to the append, do not
\* matter (Index::load, Index::append).
UncutIndexLoads ==
    ~overlapped /\ ~cut => Readable /\ acked \subseteq Loaded

\* registry/src/index.rs:3-6: "a process killed mid-write leaves a file whose
\* surviving lines are all still readable".  An index that holds the line of an
\* acknowledged push is one with a surviving line.
SurvivesKill == ~overlapped /\ acked # {} => Readable

=============================================================================
