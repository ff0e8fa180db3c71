----------------------------- MODULE Dispatcher -----------------------------
(***************************************************************************)
(* The npm dispatcher, lib/archi-dispatcher.js, and the postinstall script *)
(* that shares its first half: it creates a starter configuration when     *)
(* there is none, and starts the standalone binary of its version, which   *)
(* it downloads into a cache, verifies, and marks as verified.  Processes  *)
(* overlap and are killed; a step that throws leaves the files as a kill   *)
(* does.  Meanwhile the files of the release may be uploaded again.        *)
(*                                                                         *)
(* The content of a binary is the number of its upload, and so is its      *)
(* checksum.  A marker that cannot be read is as none.  The process ids in *)
(* the names of the temporary files differ, and nobody edits the           *)
(* configuration at the moment in which it is created.                     *)
(***************************************************************************)
EXTENDS Integers

CONSTANTS Procs, MaxUploads

VARIABLES
    asset, sums,      \* the release: the binary, and the file of checksums
    config,           \* "none", "empty", "starter" or "user"
    target, marker,   \* the binary and the marker in the cache
    temp,             \* the temporary file of each process
    pc, expected,     \* what each process does, and the checksum it fetched
    own,              \* the user has written the configuration
    overlap           \* two processes were under way at once

None == 0
Torn == -1
Uploads == 1..MaxUploads
release == <<asset, sums>>
files == <<config, target, marker, temp>>
dpVars == <<asset, sums, config, target, marker, temp, pc, expected, own, overlap>>

Goto(p, step) == pc' = [pc EXCEPT ![p] = step]

Start(p) ==
    /\ pc[p] = "idle"
    /\ Goto(p, "config")
    /\ overlap' = (overlap \/ \E q \in Procs \ {p} : pc[q] # "idle")
    /\ UNCHANGED <<release, files, expected, own>>

-----------------------------------------------------------------------------
(* ensureLlmGatewayConfig. *)

\* The postinstall script ends after it.
Prepared == {"fetch", "idle"}

LookForConfig(p) ==
    /\ pc[p] = "config"
    /\ IF config = "none" THEN Goto(p, "create") ELSE \E step \in Prepared : Goto(p, step)
    /\ UNCHANGED <<release, files, expected, own, overlap>>

\* Mutant: the file is opened to be written, new or not.
CreateConfigAnyway(p) ==
    /\ pc[p] = "create"
    /\ config' = "empty" /\ Goto(p, "fill")
    /\ UNCHANGED <<release, target, marker, temp, expected, own, overlap>>

\* openSync with "wx": an existing file is not opened.
CreateConfig(p) ==
    /\ pc[p] = "create"
    /\ IF config = "none" THEN config' = "empty" /\ Goto(p, "fill")
       ELSE UNCHANGED config /\ \E step \in Prepared : Goto(p, step)
    /\ UNCHANGED <<release, target, marker, temp, expected, own, overlap>>

FillConfig(p) ==
    /\ pc[p] = "fill"
    /\ config' = "starter"
    /\ \E step \in Prepared : Goto(p, step)
    /\ UNCHANGED <<release, target, marker, temp, expected, own, overlap>>

-----------------------------------------------------------------------------
(* ensureBinary. *)

FetchChecksum(p) ==
    /\ pc[p] = "fetch"
    /\ expected' = [expected EXCEPT ![p] = sums]
    /\ Goto(p, "look")
    /\ UNCHANGED <<release, files, own, overlap>>

\* A binary whose marker has the checksum is not hashed again.
Look(p) ==
    /\ pc[p] = "look"
    /\ Goto(p, IF target # None /\ marker = expected[p] THEN "spawn" ELSE "hash")
    /\ UNCHANGED <<release, files, expected, own, overlap>>

\* An unmarked binary may be the right one.
Hash(p) ==
    /\ pc[p] = "hash"
    /\ Goto(p, IF target = expected[p] THEN "mark" ELSE "download")
    /\ UNCHANGED <<release, files, expected, own, overlap>>

\* Mutant: the processes share one temporary file.
TempOfAll(p) == CHOOSE q \in Procs : TRUE

\* The name of the temporary file has the process id in it.
TempOf(p) == p

\* downloadUrl: the file is truncated first, and holds the whole asset, or only
\* part of it, at the end.
Download(p) ==
    /\ pc[p] = "download"
    /\ temp' = [temp EXCEPT ![TempOf(p)] = Torn]
    /\ Goto(p, "receive")
    /\ UNCHANGED <<release, config, target, marker, expected, own, overlap>>
Receive(p) ==
    /\ pc[p] = "receive"
    /\ \E content \in {asset, Torn} : temp' = [temp EXCEPT ![TempOf(p)] = content]
    /\ Goto(p, "verify")
    /\ UNCHANGED <<release, config, target, marker, expected, own, overlap>>

\* A mismatch removes the file and fails.
Verify(p) ==
    /\ pc[p] = "verify"
    /\ IF temp[TempOf(p)] = expected[p]
       THEN Goto(p, "rename") /\ UNCHANGED temp
       ELSE Goto(p, "idle") /\ temp' = [temp EXCEPT ![TempOf(p)] = None]
    /\ UNCHANGED <<release, config, target, marker, expected, own, overlap>>
Rename(p) ==
    /\ pc[p] = "rename"
    /\ IF temp[TempOf(p)] = None THEN Goto(p, "idle") /\ UNCHANGED <<target, temp>>
       ELSE /\ target' = temp[TempOf(p)]
            /\ temp' = [temp EXCEPT ![TempOf(p)] = None]
            /\ Goto(p, "mark")
    /\ UNCHANGED <<release, config, marker, expected, own, overlap>>

\* The marker is truncated, then written.
Mark(p) ==
    /\ pc[p] = "mark"
    /\ marker' = None /\ Goto(p, "marked")
    /\ UNCHANGED <<release, config, target, temp, expected, own, overlap>>
Marked(p) ==
    /\ pc[p] = "marked"
    /\ marker' = expected[p] /\ Goto(p, "spawn")
    /\ UNCHANGED <<release, config, target, temp, expected, own, overlap>>

\* runBinary: what is at the path by now is started.
Spawn(p) ==
    /\ pc[p] = "spawn"
    /\ Goto(p, "idle")
    /\ UNCHANGED <<release, files, expected, own, overlap>>

\* Killed, or something failed.
Kill(p) ==
    /\ pc[p] # "idle"
    /\ Goto(p, "idle")
    /\ UNCHANGED <<release, files, expected, own, overlap>>

-----------------------------------------------------------------------------
(* The release and the user. *)

\* First the new binary is uploaded, then its checksum.
Upload ==
    /\ IF asset = sums THEN asset < MaxUploads /\ asset' = asset + 1 /\ UNCHANGED sums
       ELSE sums' = asset /\ UNCHANGED asset
    /\ UNCHANGED <<files, pc, expected, own, overlap>>

EditConfig ==
    /\ \A p \in Procs : pc[p] # "fill"
    /\ config' = "user" /\ own' = TRUE
    /\ UNCHANGED <<release, target, marker, temp, pc, expected, overlap>>

Init ==
    /\ asset = 1 /\ sums = 1
    /\ config = "none" /\ target = None /\ marker = None
    /\ temp = [p \in Procs |-> None]
    /\ pc = [p \in Procs |-> "idle"]
    /\ expected = [p \in Procs |-> None]
    /\ own = FALSE /\ overlap = FALSE

Ensure(p) == FetchChecksum(p) \/ Look(p) \/ Hash(p) \/ Download(p) \/ Receive(p) \/ Verify(p) \/ Rename(p) \/ Mark(p) \/ Marked(p)
Step(p) == Start(p) \/ LookForConfig(p) \/ CreateConfig(p) \/ FillConfig(p) \/ Ensure(p) \/ Spawn(p) \/ Kill(p)
Next == (\E p \in Procs : Step(p)) \/ Upload \/ EditConfig
Spec == Init /\ [][Next]_dpVars

-----------------------------------------------------------------------------
(* Properties. *)

TypeOK ==
    /\ asset \in Uploads /\ sums \in Uploads
    /\ config \in {"none", "empty", "starter", "user"}
    /\ target \in {None, Torn} \cup Uploads /\ marker \in {None} \cup Uploads
    /\ temp \in [Procs -> {None, Torn} \cup Uploads]
    /\ expected \in [Procs -> {None} \cup Uploads]
    /\ own \in BOOLEAN /\ overlap \in BOOLEAN

\* Only a whole binary is ever started, whoever downloads beside it; and while
\* the processes come one after the other, killed anywhere, the one started has
\* the checksum that its dispatcher fetched.
VerifiedBinaryRuns ==
    \A p \in Procs : pc[p] = "spawn" => target \in Uploads /\ (overlap \/ target = expected[p])

\* A configuration that the user wrote is never replaced by the starter, also
\* when it was written between two steps of a dispatcher.
CredentialsKept == own => config = "user"
=============================================================================
