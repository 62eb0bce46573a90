------------------------------ MODULE FilesProofs ------------------------------
(***************************************************************************)
(* Proofs about FileTransfer for every number of handlers, files, chunks,   *)
(* commands and crashes: only whole files arrive, and chunks are staged     *)
(* until they have.                                                         *)
(*                                                                          *)
(* OnlyWholeFilesArrive is not inductive: what is moved is whole because it *)
(* was when its hash was checked and nobody else has written it since.      *)
(* Alone says that as long as two handlers have not assembled at once, only *)
(* one can be anywhere between; Checked, what that gives.                   *)
(***************************************************************************)
EXTENDS FileTransfer, TLAPS

Typed ==
  /\ pc \in [Handlers -> {"idle", "open", "write", "delete", "deleting", "list", "make",
                         "create", "read", "validate", "move", "clean", "cleaning"}]
  /\ file \in [Handlers -> Files]
  /\ DOMAIN dest = Files
  /\ clash \in BOOLEAN

Alone == ~clash => \A g, h \in Handlers : Assembling(g) /\ Assembling(h) => g = h

Checked == ~clash => \A h \in Handlers : pc[h] = "move" => temp \subseteq {Whole(file[h])}

Arrived ==
  ~clash => \A h \in Handlers : pc[h] \in {"clean", "cleaning"} => dest[file[h]] = {Whole(file[h])}

\* Every handler has a list of what rmtree has to remove.
Listed == DOMAIN entries = Handlers

IInv == Typed /\ Alone /\ Checked /\ Arrived /\ OnlyWholeFilesArrive

-------------------------------------------------------------------------------
\* The invariant holds at the start.
LEMMA InitGood == Init => IInv
BY DEF Init, IInv, Typed, Alone, Checked, Arrived, OnlyWholeFilesArrive, Assembling

\* A step by which h goes where it does not assemble, and which leaves temp alone or
\* deletes it, keeps the invariant.
LEMMA LeavesKeeps ==
  ASSUME IInv, NEW h \in Handlers, NEW next \in {"idle", "open", "write", "delete", "deleting"},
         Goto(h, next), file' \in [Handlers -> Files],
         \A g \in Handlers \ {h} : file'[g] = file[g],
         temp' = temp \/ temp' = {}, UNCHANGED <<dest, clash>>
  PROVE  IInv'
<1>1. Typed' BY DEF IInv, Typed, Goto
<1>2. \A g \in Handlers : g # h => pc'[g] = pc[g] /\ file'[g] = file[g]
  BY DEF IInv, Typed, Goto
<1>3. pc'[h] = next BY DEF IInv, Typed, Goto
<1>4. Alone' BY <1>2, <1>3 DEF IInv, Alone, Assembling
<1>5. Checked' BY <1>2, <1>3 DEF IInv, Checked, Whole, Part
<1>6. Arrived' BY <1>2, <1>3 DEF IInv, Arrived, Whole, Part
<1>7. OnlyWholeFilesArrive' BY DEF IInv, OnlyWholeFilesArrive, Whole, Part
<1> QED BY <1>1, <1>4, <1>5, <1>6, <1>7 DEF IInv

\* An exception leaves the files as they are.
LEMMA RaisedKeeps ==
  ASSUME IInv, NEW h \in Handlers, Raised(h), UNCHANGED <<file, clash>>
  PROVE  IInv'
BY LeavesKeeps DEF Raised, Over, staging, IInv, Typed

\* A step that takes h nowhere, or from one step of its cleaning to the next, and which
\* leaves temp alone or deletes it, keeps the invariant.
LEMMA StaysKeeps ==
  ASSUME IInv, NEW h \in Handlers,
         UNCHANGED pc \/ (pc[h] = "clean" /\ Goto(h, "cleaning")),
         temp' = temp \/ temp' = {}, UNCHANGED <<dest, file, clash>>
  PROVE  IInv'
<1>1. Typed' BY DEF IInv, Typed, Goto
<1>2. \A g \in Handlers : pc'[g] = pc[g] \/ (pc[g] = "clean" /\ pc'[g] = "cleaning")
  BY DEF IInv, Typed, Goto
<1>3. Alone' BY <1>2 DEF IInv, Alone, Assembling
<1>4. Checked' BY <1>2 DEF IInv, Checked, Whole, Part
<1>5. Arrived' BY <1>2 DEF IInv, Arrived, Whole, Part
<1>6. OnlyWholeFilesArrive' BY DEF IInv, OnlyWholeFilesArrive, Whole, Part
<1> QED BY <1>1, <1>3, <1>4, <1>5, <1>6 DEF IInv

\* A step within the assembly, before the file is checked.
LEMMA AssemblesKeeps ==
  ASSUME IInv, NEW h \in Handlers, pc[h] \in {"list", "make", "create", "read"},
         NEW next \in {"make", "create", "read", "validate"}, Goto(h, next) \/ UNCHANGED pc,
         UNCHANGED <<dest, file, clash>>
  PROVE  IInv'
<1>1. Typed' BY DEF IInv, Typed, Goto
<1>2. \A g \in Handlers : g # h => pc'[g] = pc[g]
  BY DEF IInv, Typed, Goto
<1>3. pc'[h] \in {"list", "make", "create", "read", "validate"} BY DEF IInv, Typed, Goto
<1>4. Alone' BY <1>2, <1>3 DEF IInv, Alone, Assembling
<1>5. Checked'
  <2> SUFFICES ASSUME ~clash, NEW g \in Handlers, pc'[g] = "move" PROVE FALSE
    BY DEF Checked
  <2>1. g # h /\ pc[g] = "move" BY <1>2, <1>3
  <2> QED BY <2>1 DEF IInv, Alone, Assembling
<1>6. Arrived' BY <1>2, <1>3 DEF IInv, Arrived, Whole, Part
<1>7. OnlyWholeFilesArrive' BY DEF IInv, OnlyWholeFilesArrive, Whole, Part
<1> QED BY <1>1, <1>4, <1>5, <1>6, <1>7 DEF IInv

-------------------------------------------------------------------------------
\* A handler that takes a command is not alone for that.
LEMMA BeginsKeeps ==
  ASSUME IInv, NEW h \in Handlers, NEW f \in Files, AutoAssembleFile(h, f)
  PROVE  IInv'
<1>1. /\ pc[h] = "idle" /\ pc'[h] = "list" /\ UNCHANGED <<temp, dest>>
      /\ \A g \in Handlers : g # h => pc'[g] = pc[g] /\ file'[g] = file[g]
  BY DEF AutoAssembleFile, Begin, Goto, staging, IInv, Typed
<1>2. Typed' BY DEF AutoAssembleFile, Begin, Goto, IInv, Typed
<1>3. ~clash' => ~clash /\ \A g \in Handlers : g # h => ~Assembling(g)
  BY DEF AutoAssembleFile
<1>4. Alone' BY <1>1, <1>3 DEF Alone, Assembling
<1>5. Checked' BY <1>1, <1>3 DEF IInv, Checked, Whole, Part
<1>6. Arrived' BY <1>1, <1>3 DEF IInv, Arrived, Whole, Part
<1>7. OnlyWholeFilesArrive' BY <1>1, <1>3 DEF IInv, OnlyWholeFilesArrive, Whole, Part
<1> QED BY <1>2, <1>4, <1>5, <1>6, <1>7 DEF IInv

\* The hash is taken of the very file that would be moved.
LEMMA ValidateKeeps ==
  ASSUME IInv, NEW h \in Handlers, Validate(h)
  PROVE  IInv'
<1>1. CASE temp = {Whole(file[h])}
  <2>1. /\ pc[h] = "validate" /\ pc'[h] = "move" /\ UNCHANGED <<temp, dest, file, clash>>
        /\ \A g \in Handlers : g # h => pc'[g] = pc[g]
    BY <1>1 DEF Validate, Goto, staging, IInv, Typed
  <2>2. Typed' BY <1>1 DEF Validate, Goto, IInv, Typed
  <2>3. Alone' BY <2>1 DEF IInv, Alone, Assembling
  <2>4. Checked' BY <1>1, <2>1 DEF IInv, Checked, Whole, Part
  <2>5. Arrived' BY <2>1 DEF IInv, Arrived, Whole, Part
  <2>6. OnlyWholeFilesArrive' BY <2>1 DEF IInv, OnlyWholeFilesArrive, Whole, Part
  <2> QED BY <2>2, <2>3, <2>4, <2>5, <2>6 DEF IInv
<1>2. CASE temp # {Whole(file[h])}
  BY <1>2, RaisedKeeps DEF Validate
<1> QED BY <1>1, <1>2

\* The file that is moved is the one whose hash was checked.
LEMMA MoveKeeps ==
  ASSUME IInv, NEW h \in Handlers, Move(h)
  PROVE  IInv'
<1>1. CASE temp # {}
  <2>1. /\ pc[h] = "move" /\ pc'[h] = "clean" /\ temp' = {}
        /\ dest' = [dest EXCEPT ![file[h]] = temp] /\ UNCHANGED <<file, clash>>
        /\ \A g \in Handlers : g # h => pc'[g] = pc[g]
    BY <1>1 DEF Move, Goto, IInv, Typed
  <2>2. ~clash => temp = {Whole(file[h])}
    BY <1>1, <2>1 DEF IInv, Checked
  <2>3. Typed' BY <1>1 DEF Move, Goto, IInv, Typed
  <2>4. Alone' BY <2>1 DEF IInv, Alone, Assembling
  <2>5. Checked' BY <2>1 DEF Checked
  <2>6. \A f \in Files : dest'[f] = IF f = file[h] THEN temp ELSE dest[f]
    BY <2>1 DEF IInv, Typed
  <2>7. Arrived'
    <3> SUFFICES ASSUME ~clash, NEW g \in Handlers, pc'[g] \in {"clean", "cleaning"}
                 PROVE  dest'[file[g]] = {Whole(file[g])}
      BY <2>1 DEF Arrived, Whole, Part
    <3>1. CASE file[g] = file[h] BY <2>2, <2>6, <3>1 DEF IInv, Typed
    <3>2. CASE file[g] # file[h]
      BY <2>1, <2>6, <3>2 DEF IInv, Typed, Arrived
    <3> QED BY <3>1, <3>2
  <2>8. OnlyWholeFilesArrive'
    BY <2>1, <2>2, <2>6 DEF IInv, OnlyWholeFilesArrive, Whole, Part
  <2> QED BY <2>3, <2>4, <2>5, <2>7, <2>8 DEF IInv
<1>2. CASE temp = {}
  BY <1>2, RaisedKeeps DEF Move
<1> QED BY <1>1, <1>2

-------------------------------------------------------------------------------
\* Every step of a handler keeps the invariant.
LEMMA StepGood ==
  ASSUME IInv, NEW h \in Handlers, Step(h)
  PROVE  IInv'
<1>1. CASE Open(h)
  <2>1. CASE directory BY <1>1, <2>1, LeavesKeeps DEF Open, IInv, Typed
  <2>2. CASE ~directory BY <1>1, <2>2, RaisedKeeps DEF Open
  <2> QED BY <2>1, <2>2
<1>2. CASE Write(h) \/ RemoveDirectory(h)
  BY <1>2, LeavesKeeps DEF Write, RemoveDirectory, Over, IInv, Typed
<1>3. CASE Rmtree(h)
  <2>1. CASE ~directory BY <1>3, <2>1, RaisedKeeps DEF Rmtree
  <2>2. CASE directory /\ pc[h] = "delete"
    BY <1>3, <2>2, LeavesKeeps DEF Rmtree, staging, IInv, Typed
  <2>3. CASE directory /\ pc[h] = "clean"
    BY <1>3, <2>3, StaysKeeps DEF Rmtree, staging
  <2> QED BY <1>3, <2>1, <2>2, <2>3 DEF Rmtree
<1>4. CASE Remove(h)
  <2>1. \/ Raised(h) /\ UNCHANGED <<file, clash>>
        \/ UNCHANGED <<pc, dest, file, clash>> /\ (temp' = temp \/ temp' = {})
    BY <1>4 DEF Remove
  <2> QED BY <2>1, RaisedKeeps, StaysKeeps
<1>5. CASE List(h) \/ Make(h) \/ Create(h)
  <2>1. /\ pc[h] \in {"list", "make", "create"} /\ UNCHANGED <<file, clash>>
        /\ \/ Raised(h)
           \/ /\ UNCHANGED dest
              /\ \E next \in {"make", "create", "read", "validate"} : Goto(h, next)
    BY <1>5 DEF List, Make, Create
  <2> QED BY <2>1, RaisedKeeps, AssemblesKeeps
<1>6. CASE Read(h)
  <2>1. pc[h] = "read" /\ UNCHANGED <<file, clash>> BY <1>6 DEF Read
  <2>2. \/ Goto(h, "validate") /\ UNCHANGED dest
        \/ Raised(h)
        \/ UNCHANGED <<pc, dest>>
    BY <1>6 DEF Read
  <2> QED BY <2>1, <2>2, RaisedKeeps, AssemblesKeeps
<1>7. CASE Validate(h) BY <1>7, ValidateKeeps
<1>8. CASE Move(h) BY <1>8, MoveKeeps
<1>9. CASE Crash(h) BY <1>9, RaisedKeeps DEF Crash
<1> QED BY <1>1, <1>2, <1>3, <1>4, <1>5, <1>6, <1>7, <1>8, <1>9 DEF Step

\* And so do the handlers' deaths and the beginning of commands.
LEMMA NextGood ==
  ASSUME IInv, [Next]_vars
  PROVE  IInv'
<1>1. ASSUME NEW h \in Handlers, NEW f \in Files, NEW i, UplinkFile(h, f, i)
      PROVE  IInv'
  BY <1>1, LeavesKeeps DEF UplinkFile, Begin, IInv, Typed
<1>2. ASSUME NEW h \in Handlers, NEW f \in Files, DelFile(h, f)
      PROVE  IInv'
  BY <1>2, LeavesKeeps DEF DelFile, Begin, staging, IInv, Typed
<1>3. CASE UNCHANGED vars
  BY <1>3 DEF vars, locals, staging, IInv, Typed, Alone, Checked, Arrived, OnlyWholeFilesArrive,
              Assembling, Whole, Part
<1> QED BY <1>1, <1>2, <1>3, StepGood, BeginsKeeps DEF Next

\* The staging area and the handlers of one process each: what assembles alone has checked
\* what it moves (auto_assemble_file, validate_file).
THEOREM FilesInvariant == Spec => []IInv
<1>1. IInv /\ [Next]_vars => IInv' BY NextGood
<1> QED BY InitGood, <1>1, PTL DEF Spec

\* For all handlers, files and lengths: what arrives at a file's destination is that file
\* and all of it, unless two handlers have assembled the transfer at once
\* (auto_assemble_file, validate_file, send_exception).
THEOREM WholeFilesArrive == Spec => []OnlyWholeFilesArrive
<1>1. IInv => OnlyWholeFilesArrive BY DEF IInv
<1> QED BY <1>1, FilesInvariant, PTL

-------------------------------------------------------------------------------
(* Which steps take a chunk out of the staging area. *)

\* The handlers keep their lists.
LEMMA NextListed ==
  ASSUME Listed, [Next]_vars
  PROVE  Listed'
<1>1. ASSUME NEW h \in Handlers, NEW f \in Files, NEW i, NEW next, Begin(h, f, i, next)
      PROVE  Listed'
  BY <1>1 DEF Begin, Listed
<1>2. ASSUME NEW h \in Handlers, Over(h) PROVE Listed' BY <1>2 DEF Over, Listed
<1>3. ASSUME NEW h \in Handlers, Step(h) PROVE Listed'
  <2>1. CASE Open(h) BY <1>2, <2>1 DEF Open, Raised, Listed
  <2>2. CASE Write(h) \/ RemoveDirectory(h) BY <1>2, <2>2 DEF Write, RemoveDirectory
  <2>3. CASE Rmtree(h) BY <1>2, <2>3 DEF Rmtree, Raised, Listed
  <2>4. CASE Remove(h) BY <1>2, <2>4 DEF Remove, Raised, Listed
  <2>5. CASE List(h) \/ Make(h) \/ Create(h)
    BY <1>2, <2>5 DEF List, Make, Create, Raised, Listed
  <2>6. CASE Read(h) BY <1>2, <2>6 DEF Read, Raised, Listed
  <2>7. CASE Validate(h) \/ Move(h) \/ Crash(h)
    BY <1>2, <2>7 DEF Validate, Move, Crash, Raised, Listed
  <2> QED BY <1>3, <2>1, <2>2, <2>3, <2>4, <2>5, <2>6, <2>7 DEF Step
<1>4. CASE UNCHANGED vars BY <1>4 DEF vars, locals, Listed
<1> QED BY <1>1, <1>3, <1>4 DEF Next, UplinkFile, DelFile, AutoAssembleFile

\* Only rmtree takes chunks out, one of its list in each step.
LEMMA OnlyRmtreeRemoves ==
  ASSUME Listed, [Next]_vars, NEW n \in DOMAIN staged, n \notin DOMAIN staged'
  PROVE  \E h \in Handlers :
           /\ pc[h] \in {"deleting", "cleaning"}
           /\ n \in entries[h] /\ entries'[h] = entries[h] \ {n}
<1>1. ASSUME UNCHANGED staged PROVE FALSE BY <1>1
<1>2. ASSUME NEW h \in Handlers, Raised(h) PROVE FALSE BY <1>1, <1>2 DEF Raised, staging
<1>3. ASSUME NEW h \in Handlers, Open(h) PROVE FALSE
  <2>1. CASE directory
    <3>1. DOMAIN staged' = DOMAIN staged \cup {Name(file[h], chunk[h])}
      BY <1>3, <2>1 DEF Open
    <3> QED BY <3>1
  <2>2. CASE ~directory BY <1>2, <1>3, <2>2 DEF Open
  <2> QED BY <2>1, <2>2
<1>4. ASSUME NEW h \in Handlers, Write(h) PROVE FALSE
  <2>1. DOMAIN staged' = DOMAIN staged BY <1>4 DEF Write
  <2> QED BY <2>1
<1>5. ASSUME NEW h \in Handlers, Remove(h)
      PROVE  /\ pc[h] \in {"deleting", "cleaning"}
             /\ n \in entries[h] /\ entries'[h] = entries[h] \ {n}
  <2>1. PICK name \in entries[h] :
          \/ /\ staged' = [m \in DOMAIN staged \ {name} |-> staged[m]]
             /\ entries' = [entries EXCEPT ![h] = @ \ {name}]
          \/ Raised(h)
    BY <1>5 DEF Remove
  <2>2. /\ staged' = [m \in DOMAIN staged \ {name} |-> staged[m]]
        /\ entries' = [entries EXCEPT ![h] = @ \ {name}]
    BY <1>2, <2>1
  <2>3. DOMAIN staged' = DOMAIN staged \ {name} BY <2>2
  <2>4. n = name BY <2>3
  <2> QED BY <1>5, <2>2, <2>4 DEF Remove, Listed
<1>6. ASSUME NEW h \in Handlers, Step(h)
      PROVE  /\ pc[h] \in {"deleting", "cleaning"}
             /\ n \in entries[h] /\ entries'[h] = entries[h] \ {n}
  <2>1. CASE Rmtree(h) \/ RemoveDirectory(h)
    BY <1>1, <1>2, <2>1 DEF Rmtree, RemoveDirectory, staging
  <2>2. CASE List(h) \/ Make(h) \/ Create(h) \/ Read(h)
    BY <1>1, <1>2, <2>2 DEF List, Make, Create, Read, staging
  <2>3. CASE Validate(h) \/ Move(h) \/ Crash(h)
    BY <1>1, <1>2, <2>3 DEF Validate, Move, Crash, staging
  <2> QED BY <1>3, <1>4, <1>5, <1>6, <2>1, <2>2, <2>3 DEF Step
<1>7. ASSUME NEW h \in Handlers, NEW f \in Files,
             DelFile(h, f) \/ AutoAssembleFile(h, f) \/ \E i : UplinkFile(h, f, i)
      PROVE  FALSE
  BY <1>1, <1>7 DEF DelFile, AutoAssembleFile, UplinkFile, staging
<1>8. ASSUME UNCHANGED vars PROVE FALSE BY <1>1, <1>8 DEF vars, staging
<1> QED BY <1>6, <1>7, <1>8 DEF Next

\* For all handlers, files and lengths, and whatever is raised or killed in the middle of a
\* deletion: a chunk leaves the staging area only by the ground's command, or with the whole
\* directory when a file of that transfer has arrived whole, unless two handlers have
\* assembled the transfer at once (auto_assemble_file, del_file, rmtree).
THEOREM ChunksStayUntilArrived == Spec => StagedUntilArrived
<1> DEFINE Kept ==
      \A n \in DOMAIN staged \ DOMAIN staged' :
        \/ clash
        \/ \E h \in Handlers :
             /\ entries'[h] = entries[h] \ {n} /\ n \in entries[h]
             /\ \/ pc[h] = "deleting"
                \/ pc[h] = "cleaning" /\ dest[file[h]] = {Whole(file[h])}
<1>1. Spec => []Listed
  <2>1. Init => Listed BY DEF Init, Listed
  <2> QED BY <2>1, NextListed, PTL DEF Spec
<1>2. IInv /\ Listed /\ [Next]_vars => [Kept]_vars
  <2> SUFFICES ASSUME IInv, Listed, [Next]_vars,
                      NEW n \in DOMAIN staged \ DOMAIN staged', ~clash
               PROVE  \E h \in Handlers :
                        /\ entries'[h] = entries[h] \ {n} /\ n \in entries[h]
                        /\ \/ pc[h] = "deleting"
                           \/ pc[h] = "cleaning" /\ dest[file[h]] = {Whole(file[h])}
    OBVIOUS
  <2>1. PICK h \in Handlers :
          /\ pc[h] \in {"deleting", "cleaning"}
          /\ n \in entries[h] /\ entries'[h] = entries[h] \ {n}
    BY OnlyRmtreeRemoves
  <2> QED BY <2>1 DEF IInv, Arrived
<1> QED BY <1>1, <1>2, FilesInvariant, PTL DEF Spec, StagedUntilArrived
===============================================================================
