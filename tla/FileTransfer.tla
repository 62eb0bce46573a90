------------------------------ MODULE FileTransfer ------------------------------
(***************************************************************************)
(* commandhandler/filehandling.py, the uplink: chunks of a file are staged  *)
(* in the directory of their transfer, assembled to a temporary file, the   *)
(* file is compared with its hash and moved to its destination, and the     *)
(* directory is deleted, one entry after the other.                         *)
(*                                                                          *)
(* The router gives the commands to several handlers, so a chunk may be     *)
(* written or deleted, or the transfer assembled again, at any moment.      *)
(* RAISE_ENABLE is 1: an exception that has been reported is raised again   *)
(* and ends the handler's process; it is restarted.  One transfer id is     *)
(* modelled, which the ground may use for another file as it likes.         *)
(***************************************************************************)
EXTENDS Integers, Sequences, FiniteSets, Functions

CONSTANTS
  Handlers,      \* the command handlers
  Files,         \* the files the ground may uplink
  Length,        \* of each: its number of chunks
  MaxCommands,   \* bound on the commands of the ground
  MaxCrashes     \* bound on the handlers that are killed in a command

ASSUME FilesAssumption == Length \in [Files -> Nat \ {0}]
ASSUME BoundsAssumption == MaxCommands \in Nat /\ MaxCrashes \in Nat

VARIABLES
  directory,   \* is the transfer's directory there?
  staged,      \* the chunk files of the directory: from their names to their contents
  temp,        \* reassembled_file.temp: its contents, if there is one
  dest,        \* of each file: what is at its destination
  pc,          \* where each handler is
  file,        \* the file its command is about
  chunk,       \* the number of the chunk it is at
  chunk_files, \* the names assemble_file has listed
  entries,     \* the names rmtree has listed and not removed yet
  commands,    \* commands so far
  crashes,     \* handlers killed so far
  clash        \* two handlers have been assembling at once (history)

staging == <<directory, staged, temp>>
locals == <<pc, file, chunk, chunk_files, entries>>
bounds == <<commands, crashes>>
vars == <<staging, dest, locals, bounds, clash>>

\* A file's contents are the contents of its chunks, one after the other.
Empty == <<>>
Part(f, i) == <<f, i>>
Whole(f) == [i \in 1..Length[f] |-> Part(f, i)]

\* A chunk file is named for its number and the number of chunks of the file.
Name(f, i) == <<i, Length[f]>>
TempName == <<0, 0>>

Init ==
  /\ directory = FALSE /\ staged = <<>> /\ temp = {} /\ dest = [f \in Files |-> {}]
  /\ pc = [h \in Handlers |-> "idle"]
  /\ file \in [Handlers -> Files] /\ \A g, h \in Handlers : file[g] = file[h]
  /\ chunk = [h \in Handlers |-> 0] /\ chunk_files = [h \in Handlers |-> <<>>]
  /\ entries = [h \in Handlers |-> {}]
  /\ commands = 0 /\ crashes = 0 /\ clash = FALSE

Goto(h, next) == pc' = [pc EXCEPT ![h] = next]

\* The command is over, or has raised and the handler runs in a new process.
Over(h) ==
  /\ Goto(h, "idle")
  /\ chunk' = [chunk EXCEPT ![h] = 0]
  /\ chunk_files' = [chunk_files EXCEPT ![h] = <<>>]
  /\ entries' = [entries EXCEPT ![h] = {}]
Raised(h) == Over(h) /\ UNCHANGED <<staging, dest>>

Begin(h, f, i, next) ==
  /\ pc[h] = "idle" /\ commands < MaxCommands
  /\ commands' = commands + 1
  /\ Goto(h, next)
  /\ file' = [file EXCEPT ![h] = f]
  /\ chunk' = [chunk EXCEPT ![h] = i]
  /\ UNCHANGED <<chunk_files, entries, crashes>>

-------------------------------------------------------------------------------
\* uplink_file: safe_open_w makes the directory and opens the chunk file, which empties
\* it; then it is written.
UplinkFile(h, f, i) ==
  /\ Begin(h, f, i, "open")
  /\ directory' = TRUE
  /\ UNCHANGED <<staged, temp, dest, clash>>

Open(h) ==
  LET name == Name(file[h], chunk[h])
  IN /\ pc[h] = "open"
     /\ IF directory
        THEN /\ staged' = [n \in DOMAIN staged \cup {name} |->
                             IF n = name THEN Empty ELSE staged[n]]
             /\ Goto(h, "write")
             /\ UNCHANGED <<directory, temp, dest, chunk, chunk_files, entries>>
        ELSE Raised(h)
     /\ UNCHANGED <<file, bounds, clash>>

Write(h) ==
  /\ pc[h] = "write"
  /\ staged' = [n \in DOMAIN staged |->
                  IF n = Name(file[h], chunk[h]) THEN Part(file[h], chunk[h]) ELSE staged[n]]
  /\ Over(h)
  /\ UNCHANGED <<directory, temp, dest, file, bounds, clash>>

-------------------------------------------------------------------------------
(* del_file, of the whole directory: the ground's command, or after a move. *)

DelFile(h, f) ==
  /\ Begin(h, f, 0, "delete")
  /\ UNCHANGED <<staging, dest, clash>>

\* rmtree lists the directory, removes what it has listed and then the directory.
Rmtree(h) ==
  /\ pc[h] \in {"delete", "clean"}
  /\ IF directory
     THEN /\ entries' = [entries EXCEPT ![h] =
                           DOMAIN staged \cup IF temp = {} THEN {} ELSE {TempName}]
          /\ Goto(h, IF pc[h] = "delete" THEN "deleting" ELSE "cleaning")
          /\ UNCHANGED <<staging, dest, chunk, chunk_files>>
     ELSE Raised(h)
  /\ UNCHANGED <<file, bounds, clash>>

\* What another handler has removed cannot be removed again.  Who has the chunk file open
\* goes on to write to a file that has no name any more.
Remove(h) ==
  /\ pc[h] \in {"deleting", "cleaning"}
  /\ \E name \in entries[h] :
       IF name \in DOMAIN staged \/ (name = TempName /\ temp # {})
       THEN /\ staged' = [n \in DOMAIN staged \ {name} |-> staged[n]]
            /\ temp' = IF name = TempName THEN {} ELSE temp
            /\ entries' = [entries EXCEPT ![h] = @ \ {name}]
            /\ chunk' = [g \in Handlers |->
                           IF pc[g] = "write" /\ Name(file[g], chunk[g]) = name
                           THEN 0 ELSE chunk[g]]
            /\ UNCHANGED <<directory, dest, pc, chunk_files>>
       ELSE Raised(h)
  /\ UNCHANGED <<file, bounds, clash>>

\* What another handler has put there meanwhile keeps the directory.
RemoveDirectory(h) ==
  /\ pc[h] \in {"deleting", "cleaning"} /\ entries[h] = {}
  /\ directory' = (directory /\ (staged # <<>> \/ temp # {}))
  /\ Over(h)
  /\ UNCHANGED <<staged, temp, dest, file, bounds, clash>>

-------------------------------------------------------------------------------
(* auto_assemble_file, with assemble_file, validate_file, move_file, del_file. *)

Assembling(h) == pc[h] \in {"list", "make", "create", "read", "validate", "move"}

AutoAssembleFile(h, f) ==
  /\ Begin(h, f, 0, "list")
  /\ clash' = (clash \/ \E g \in Handlers \ {h} : Assembling(g))
  /\ UNCHANGED <<staging, dest>>

\* The chunk files by number; one number may be there for several lengths.
Listings ==
  LET n == Cardinality(DOMAIN staged)
  IN {s \in [1..n -> DOMAIN staged] :
        /\ Range(s) = DOMAIN staged
        /\ \A i, j \in 1..n : i < j => s[i][1] <= s[j][1]}

\* Listing a directory that is not there raises; that it is empty is only reported.
List(h) ==
  /\ pc[h] = "list"
  /\ IF ~directory THEN Raised(h)
     ELSE /\ IF staged = <<>> THEN Goto(h, "validate") /\ UNCHANGED chunk_files
             ELSE /\ \E s \in Listings : chunk_files' = [chunk_files EXCEPT ![h] = s]
                  /\ Goto(h, "make")
          /\ UNCHANGED <<staging, dest, chunk, entries>>
  /\ UNCHANGED <<file, bounds, clash>>

\* The size of the first chunk is asked for, which raises when it has been deleted, and
\* safe_open_w makes the directory again, should it have been deleted since.
Make(h) ==
  /\ pc[h] = "make"
  /\ \/ chunk_files[h][1] \notin DOMAIN staged /\ Raised(h)
     \/ /\ directory' = TRUE
        /\ Goto(h, "create")
        /\ UNCHANGED <<staged, temp, dest, chunk, chunk_files, entries>>
  /\ UNCHANGED <<file, bounds, clash>>

Create(h) ==
  /\ pc[h] = "create"
  /\ IF directory
     THEN /\ temp' = {Empty}
          /\ Goto(h, "read")
          /\ UNCHANGED <<directory, staged, dest, chunk, chunk_files, entries>>
     ELSE Raised(h)
  /\ UNCHANGED <<file, bounds, clash>>

\* One pass of the loop over seq_len_all, the length the first name says.  A chunk with
\* another number is reported missing; a name of another length ends the loop; so does,
\* with an exception, the end of the list or a chunk file that has been deleted.
Read(h) ==
  LET k == chunk[h] + 1
      names == chunk_files[h]
      Next(out) == temp' = out /\ chunk' = [chunk EXCEPT ![h] = k]
                   /\ UNCHANGED <<directory, staged, dest, pc, chunk_files, entries>>
  IN /\ pc[h] = "read"
     /\ IF k > names[1][2] \/ (k <= Len(names) /\ names[k][2] # names[1][2])
        THEN Goto(h, "validate") /\ UNCHANGED <<staging, dest, chunk, chunk_files, entries>>
        ELSE IF k > Len(names) \/ names[k] \notin DOMAIN staged THEN Raised(h)
        ELSE IF names[k][1] # k THEN Next(temp)
        ELSE Next({Append(t, staged[names[k]]) : t \in temp})
     /\ UNCHANGED <<file, bounds, clash>>

ValidateAnyway(h) ==  \* faulty: a wrong hash is only reported
  /\ pc[h] = "validate"
  /\ IF temp # {}
     THEN Goto(h, "move") /\ UNCHANGED <<staging, dest, chunk, chunk_files, entries>>
     ELSE Raised(h)
  /\ UNCHANGED <<file, bounds, clash>>

\* The packet that reports a wrong hash is put together from a variable that has no
\* value yet: that raises too.
Validate(h) ==
  /\ pc[h] = "validate"
  /\ IF temp = {Whole(file[h])}
     THEN Goto(h, "move") /\ UNCHANGED <<staging, dest, chunk, chunk_files, entries>>
     ELSE Raised(h)
  /\ UNCHANGED <<file, bounds, clash>>

MoveAnyway(h) ==  \* faulty: a move that fails is only reported
  /\ pc[h] = "move"
  /\ dest' = IF temp # {} THEN [dest EXCEPT ![file[h]] = temp] ELSE dest
  /\ temp' = {}
  /\ Goto(h, "clean")
  /\ UNCHANGED <<directory, staged, file, chunk, chunk_files, entries, bounds, clash>>

Move(h) ==
  /\ pc[h] = "move"
  /\ IF temp # {}
     THEN /\ dest' = [dest EXCEPT ![file[h]] = temp]
          /\ temp' = {}
          /\ Goto(h, "clean")
          /\ UNCHANGED <<directory, staged, chunk, chunk_files, entries>>
     ELSE Raised(h)
  /\ UNCHANGED <<file, bounds, clash>>

-------------------------------------------------------------------------------
\* Housekeeping restarts a handler that is silent for too long, whatever it is doing.
Crash(h) ==
  /\ pc[h] # "idle" /\ crashes < MaxCrashes
  /\ crashes' = crashes + 1
  /\ Raised(h)
  /\ UNCHANGED <<file, commands, clash>>

Step(h) ==
  \/ Open(h) \/ Write(h)
  \/ Rmtree(h) \/ Remove(h) \/ RemoveDirectory(h)
  \/ List(h) \/ Make(h) \/ Create(h) \/ Read(h) \/ Validate(h) \/ Move(h)
  \/ Crash(h)

Next ==
  \E h \in Handlers :
    \/ Step(h)
    \/ \E f \in Files :
         \/ \E i \in 1..Length[f] : UplinkFile(h, f, i)
         \/ DelFile(h, f) \/ AutoAssembleFile(h, f)

Spec == Init /\ [][Next]_vars

-------------------------------------------------------------------------------
\* What arrives at a file's destination is that file and all of it, whatever chunks are
\* missing, half written or left from another file, unless two handlers have assembled
\* the transfer at once (auto_assemble_file, validate_file, send_exception).
OnlyWholeFilesArrive == clash \/ \A f \in Files : dest[f] \subseteq {Whole(f)}

\* A chunk is removed from the staging area only by a handler that the ground has told to
\* delete it, or by one that cleans up after a file that has arrived whole; nobody else's
\* exception, half deletion or death costs one (auto_assemble_file, del_file, rmtree).  The
\* latter takes the whole directory: chunks of another file of the same transfer id, or
\* staged after the file was assembled, go with it.  Not when two assembled at once.
StagedUntilArrived ==
  [][ \A n \in DOMAIN staged \ DOMAIN staged' :
        \/ clash
        \/ \E h \in Handlers :
             /\ entries'[h] = entries[h] \ {n} /\ n \in entries[h]
             /\ \/ pc[h] = "deleting"
                \/ pc[h] = "cleaning" /\ dest[file[h]] = {Whole(file[h])}
    ]_vars
===============================================================================
