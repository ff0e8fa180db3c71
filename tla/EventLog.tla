------------------------------ MODULE EventLog -------------------------------
(***************************************************************************)
(* The review event log of events/public.py: every review appends one line *)
(* to the active file; a writer that finds the active file at its size     *)
(* limit first moves its content to the rotated file of the month.  Each   *)
(* writer is a process running one review after another; nothing locks the *)
(* files, and a writer may be killed between any two system calls.         *)
(*                                                                         *)
(* A file is the sequence of what was written to it: events and newlines.  *)
(* An event is the number of the review; a size is a number of tokens.     *)
(***************************************************************************)
EXTENDS Integers, FiniteSets, SequencesExt, Selections

CONSTANTS
    Writers,
    RotateSize,    \* rotate_bytes
    MaxEvents,     \* bound: reviews in all
    MaxMonth       \* bound: months the clock passes through

ASSUME EventLogAssumption ==
    /\ IsFiniteSet(Writers) /\ Writers # {}
    /\ RotateSize \in Nat \ {0}
    /\ MaxEvents \in Nat
    /\ MaxMonth \in Nat \ {0}

Newline == 0
Months == 1..MaxMonth
Events == 1..MaxEvents

VARIABLES
    active,     \* content of review-events.jsonl
    inode,      \* how many times that file was created; 0: it does not exist now
    created,    \* how many times it was created so far
    rotated,    \* month -> content of review-events-<month>.jsonl
    month,
    started,    \* reviews begun so far
    pc,         \* the next system call of each writer
    local,      \* its event, stamp, data read, separator, and open file
    logged,     \* events whose append returned
    failed,     \* events whose append raised, recorded as review_event_error
    killed,     \* a writer was killed
    overlapped  \* two reviews appended at the same time

vars == <<active, inode, created, rotated, month, started, pc, local, logged, failed,
          killed, overlapped>>

NoLocal == [event |-> 0, stamp |-> 1, data |-> <<>>, sep |-> <<>>, file |-> 0]

Exists == inode # 0

\* The lines of a content that hold exactly one event: json.loads rejects a
\* line into which two writers wrote, and an empty line is skipped.
Parsable(content, i) ==
    /\ content[i] # Newline
    /\ i > 1 => content[i - 1] = Newline
    /\ i < Len(content) => content[i + 1] = Newline

ParsedEvents(content) == Picked(content, {i \in DOMAIN content : Parsable(content, i)})

\* read_review_events, in the order it reads the files: rotated by month, then
\* the active one.
RotatedEvents(contents) == FoldLeft(\o, <<>>, [m \in Months |-> ParsedEvents(contents[m])])

AllContentsActiveFirst == ParsedEvents(active) \o RotatedEvents(rotated)

AllContents == RotatedEvents(rotated) \o ParsedEvents(active)

ReadEvents(limit) ==
    LET all == AllContents
    IN  IF limit > 0 /\ Len(all) > limit
        THEN SubSeq(all, Len(all) - limit + 1, Len(all)) ELSE all

SeparatorNever(content) == <<>>

\* The separator _append_file writes into a file of this content.
Separator(content) == IF content = <<>> THEN <<>> ELSE <<Newline>>
-----------------------------------------------------------------------------
Init ==
    /\ active = <<>> /\ inode = 0 /\ created = 0
    /\ rotated = [m \in Months |-> <<>>]
    /\ month = 1
    /\ started = 0
    /\ pc = [w \in Writers |-> "idle"]
    /\ local = [w \in Writers |-> NoLocal]
    /\ logged = <<>>
    /\ failed = {}
    /\ killed = FALSE
    /\ overlapped = FALSE

seldom == <<month, started, killed, overlapped>>

files == <<active, inode, created, rotated>>

Goto(w, l) == pc' = [pc EXCEPT ![w] = l]

Done(w) ==
    /\ Goto(w, "idle")
    /\ local' = [local EXCEPT ![w] = NoLocal]

\* An OSError: _with_review_event records it and the review goes on.
Fail(w) ==
    /\ Done(w)
    /\ failed' = failed \cup {local[w].event}
    /\ UNCHANGED <<files, logged>>

\* append_review_event: the paths are fixed, then the size is looked at.
Begin(w) ==
    /\ pc[w] = "idle"
    /\ started < MaxEvents
    /\ started' = started + 1
    /\ local' = [local EXCEPT ![w] = [NoLocal EXCEPT !.event = started', !.stamp = month]]
    /\ Goto(w, IF Exists /\ Len(active) >= RotateSize THEN "read" ELSE "open")
    /\ overlapped' = (overlapped \/ \E v \in Writers : pc[v] # "idle")
    /\ UNCHANGED <<files, month, logged, failed, killed>>

\* active.read_bytes()
ReadActive(w) ==
    /\ pc[w] = "read"
    /\ UNCHANGED seldom
    /\ IF Exists
       THEN /\ local' = [local EXCEPT ![w].data = active]
            /\ Goto(w, IF active = <<>> THEN "unlink" ELSE "openRotated")
            /\ UNCHANGED <<files, logged, failed>>
       ELSE Fail(w)

\* _append_file(rotated, data): opened, and its size looked at ...
OpenRotated(w) ==
    /\ pc[w] = "openRotated"
    /\ local' = [local EXCEPT ![w].sep = Separator(rotated[local[w].stamp])]
    /\ Goto(w, "writeRotated")
    /\ UNCHANGED <<files, seldom, logged, failed>>

\* ... then written, at its end.
WriteRotated(w) ==
    /\ pc[w] = "writeRotated"
    /\ rotated' = [rotated EXCEPT ![local[w].stamp] = @ \o local[w].sep \o local[w].data]
    /\ Goto(w, "unlink")
    /\ UNCHANGED <<active, inode, created, seldom, local, logged, failed>>

\* active.unlink()
UnlinkLeavesContent(w) ==
    /\ pc[w] = "unlink"
    /\ inode' = 0
    /\ Goto(w, "open")
    /\ UNCHANGED <<active, created, rotated, seldom, local, logged, failed>>

Unlink(w) ==
    /\ pc[w] = "unlink"
    /\ UNCHANGED seldom
    /\ IF Exists
       THEN /\ active' = <<>> /\ inode' = 0
            /\ Goto(w, "open")
            /\ UNCHANGED <<created, rotated, local, logged, failed>>
       ELSE Fail(w)

\* _append_file(active, line): opened, created if need be, its size looked at,
OpenActive(w) ==
    /\ pc[w] = "open"
    /\ IF Exists THEN UNCHANGED <<inode, created>>
       ELSE created' = created + 1 /\ inode' = created'
    /\ local' = [local EXCEPT ![w].sep = Separator(active), ![w].file = inode']
    /\ Goto(w, "write")
    /\ UNCHANGED <<active, rotated, seldom, logged, failed>>

\* then written: into the file that was opened, which may be the active one no
\* more.
WriteActive(w) ==
    /\ pc[w] = "write"
    /\ active' = IF local[w].file = inode
                 THEN active \o local[w].sep \o <<local[w].event>> ELSE active
    /\ logged' = Append(logged, local[w].event)
    /\ Done(w)
    /\ UNCHANGED <<inode, created, rotated, seldom, failed>>

Kill(w) ==
    /\ pc[w] # "idle"
    /\ Done(w)
    /\ killed' = TRUE
    /\ UNCHANGED <<files, month, started, logged, failed, overlapped>>

NextMonth ==
    /\ month < MaxMonth
    /\ month' = month + 1
    /\ UNCHANGED <<files, started, pc, local, logged, failed, killed, overlapped>>

Step(w) ==
    \/ ReadActive(w) \/ OpenRotated(w) \/ WriteRotated(w) \/ Unlink(w)
    \/ OpenActive(w) \/ WriteActive(w)

Next ==
    \/ \E w \in Writers : Begin(w) \/ Step(w) \/ Kill(w)
    \/ NextMonth

Spec == Init /\ [][Next]_vars
-----------------------------------------------------------------------------
TypeOK ==
    /\ active \in Seq(Events \cup {Newline})
    /\ rotated \in [Months -> Seq(Events \cup {Newline})]
    /\ inode \in 0..created
    /\ month \in Months
    /\ started \in 0..MaxEvents
    /\ pc \in [Writers -> {"idle", "read", "openRotated", "writeRotated", "unlink", "open", "write"}]
    /\ logged \in Seq(Events)
    /\ failed \subseteq Events
    /\ {killed, overlapped} \subseteq BOOLEAN
    /\ active # <<>> => Exists

\* First occurrences only.
Deduplicated(s) == Picked(s, {i \in DOMAIN s : \A j \in DOMAIN s : s[j] = s[i] => i <= j})

\* Reviews one after the other, killed or not: read back, the log is what was
\* logged, in that order.  While a rotation is under way, or after a writer was
\* killed in one, an event may be read twice, from both files, but none is
\* missing, none is torn and none comes early.
LogReadsBack == ~overlapped => Deduplicated(ReadEvents(0)) = logged

Idle == \A w \in Writers : pc[w] = "idle"

\* Without kills, and between appends, no event is read twice either.
LogExact == ~overlapped /\ ~killed /\ Idle => ReadEvents(0) = logged

\* status looks at the last events only; while nobody appends these are the
\* last ones logged.
LastEventsRead ==
    ~overlapped /\ Idle =>
        \A limit \in 1..2 : \A e \in Range(ReadEvents(limit)) :
            e \in {logged[i] : i \in {j \in DOMAIN logged : j > Len(logged) - limit}}

\* Concurrent reviews spoil few lines of the active file, rotations or not: a
\* writer leaves the separator out at most once per file, and so spoils its
\* own event and the one before it.  The rest of the state has its shape.
SpoiltBounded ==
    /\ TypeOK
    /\ Cardinality({i \in DOMAIN active : active[i] # Newline}) - Len(ParsedEvents(active))
          <= 2 * (Cardinality(Writers) - 1)
=============================================================================
