------------------------------ MODULE TapeChain ------------------------------
(***************************************************************************)
(* The tape processing chain: from the capture file of a closed recording  *)
(* to its ready message.  Every processor (BatchProcessing.cpp,            *)
(* TapeFileNaming.cpp, CommandProcessing.cpp, DirectionSelector.cpp) is a  *)
(* queue and the threads that serve it; a thread that is done with a tape  *)
(* pushes it to the queue of the next processor (TapeProcessor.cpp), and   *)
(* the last one, Reporting, takes the message from the tape in the calling *)
(* thread.                                                                 *)
(*                                                                         *)
(* The disk is shared by all tapes: a file is a name, and what it holds is *)
(* the audio of some tape, complete or not.  A tape's name is made of the  *)
(* second it began and its port (AudioTape.cpp:751), so two tapes may ask  *)
(* for the same one.  Steps that only touch names no other thread uses     *)
(* while the step lasts are merged.  Imported tapes are left out.          *)
(***************************************************************************)
EXTENDS Naturals, Sequences, FiniteSets

CONSTANTS
  Tape, NoTape,            \* the recordings of the model
  Base,                    \* identifiers from the second a tape began and its port
  FinalBase,               \* identifiers that TapeFileNaming makes from the call's data
  Chain,                   \* <TapeProcessors>, in order
  NumBatchThreads,         \* <NumBatchThreads>
  QueueSize,               \* the size of each processor's queue
  SamePath,                \* TRUE iff AudioOutputPathMcf is AudioOutputPath (the default)
  DistinctNames,           \* TRUE iff no two tapes of a port begin in the same second
  DeleteNativeFile, DeleteFailedCaptureFile, \* the configuration flags
  NamingScheme,            \* TRUE iff <TapeFileNaming> is set
  Command                  \* CommandProcessingCommand: "none", "plain" or "in" (with [IN])

Queued == {"DirectionSelector", "BatchProcessing", "TapeFileNaming", "CommandProcessing"}
Processor == Queued \cup {"Reporting"}

ASSUME ChainAssumption ==
  /\ NoTape \notin Tape
  /\ Base # {}
  /\ Chain \in Seq(Processor) /\ Chain # <<>>
  /\ \A i, j \in DOMAIN Chain : Chain[i] = Chain[j] => i = j
  /\ NumBatchThreads \in Nat /\ QueueSize \in Nat
  /\ SamePath \in BOOLEAN /\ DistinctNames \in BOOLEAN
  /\ DeleteNativeFile \in BOOLEAN /\ DeleteFailedCaptureFile \in BOOLEAN
  /\ NamingScheme \in BOOLEAN /\ Command \in {"none", "plain", "in"}

\* The threads OrkAudio.cpp starts: batch threads as configured, one of the others.
Worker == ((Queued \ {"BatchProcessing"}) \X {1}) \cup ({"BatchProcessing"} \X (1..NumBatchThreads))

\* A file is a directory, an identifier (with "-" and the uid of a tape, or
\* without) and an extension; "long" is the path that CommandProcessing
\* appends to the identifier.  Audio names whose audio it holds, and whether all of it.
Dir == {"mcf", "out"}
Ident == [base : Base \cup FinalBase, uid : Tape \cup {NoTape}]
Ext == {".mcf", ".tmp", ".wav", ".wav.tmp", ".gsm.wav", "long"}
File == [dir : Dir, id : Ident, ext : Ext]
Audio == [of : Tape \cup {NoTape}, whole : BOOLEAN]

Absent == [of |-> NoTape, whole |-> FALSE]
Whole(t) == [of |-> t, whole |-> TRUE]
Part(t) == [of |-> t, whole |-> FALSE]

VARIABLES
  disk,      \* what every file holds
  tape,      \* AudioTape: m_audioOutputPath, m_fileIdentifier, m_fileExtension, m_audioFileRef
  fate,      \* where the tape is in its life
  queue,     \* m_audioTapeQueue of every processor
  worker,    \* what every thread is doing, with which tape
  told       \* the ready messages: tape and file name, in order

vars == <<disk, tape, fate, queue, worker, told>>

AnyIdent == [base |-> CHOOSE b \in Base : TRUE, uid |-> NoTape]
AnyFile == [dir |-> "mcf", id |-> AnyIdent, ext |-> ".mcf"]
NewTape == [dir |-> "mcf", id |-> AnyIdent, ext |-> ".wav", file |-> AnyFile]
Idle == [pc |-> "idle", tape |-> NoTape, from |-> AnyFile, got |-> "nothing"]

Init ==
  /\ disk = [f \in File |-> Absent]
  /\ tape = [t \in Tape |-> NewTape]
  /\ fate = [t \in Tape |-> "new"]
  /\ queue = [p \in Queued |-> <<>>]
  /\ worker = [w \in Worker |-> Idle]
  /\ told = <<>>

-----------------------------------------------------------------------------
(* Files.  A definition named X_Y is X with a plausible mistake Y in it: it  *)
(* takes no part in the specification, and serves to see that a property     *)
(* notices.                                                                  *)

\* The two output paths are one directory unless configured apart.
Path(d, i, x) == [dir |-> IF SamePath THEN "out" ELSE d, id |-> i, ext |-> x]

Exists(f) == disk[f] # Absent

\* What a copy, a rename, a removal leave on the disk.
Written(f, a) == [disk EXCEPT ![f] = a]
Moved(f, g) == [disk EXCEPT ![g] = disk[f], ![f] = Absent]
Removed(fs) == [f \in File |-> IF f \in fs THEN Absent ELSE disk[f]]

NotTaken_Never(d, b, x, t) == [base |-> b, uid |-> NoTape]

\* AudioTape::PreventFileIdentifierCollision: a name in use gets the tape's uid.
NotTaken(d, b, x, t) ==
  [base |-> b, uid |-> IF Exists(Path(d, [base |-> b, uid |-> NoTape], x)) THEN t ELSE NoTape]

-----------------------------------------------------------------------------
(* Handing tapes on. *)

\* The processor after p in the chain, as a set with at most one element.
NextProcessor(p) ==
  {Chain[i + 1] : i \in {j \in DOMAIN Chain : Chain[j] = p /\ j + 1 \in DOMAIN Chain}}

FileName_Captured(t) == Path("out", tape'[t].id, ".mcf")

\* The file name a ready message gives (PopulateTapeMessage).
FileName(t) == Path("out", tape'[t].id, tape'[t].ext)

\* Whether push() of the processor's queue accepts a tape.
HasRoom(p) == Len(queue[p]) < QueueSize

\* AddAudioTape of processor p: Reporting takes the message at once, the
\* others queue the tape, or drop it with an error when their queue is full.
Enter(p, t) ==
  \/ /\ p = "Reporting"
     /\ told' = Append(told, [tape |-> t, file |-> FileName(t)])
     /\ fate' = [fate EXCEPT ![t] = "reported"]
     /\ UNCHANGED queue
  \/ /\ p \in Queued /\ HasRoom(p)
     /\ queue' = [queue EXCEPT ![p] = Append(@, t)]
     /\ fate' = [fate EXCEPT ![t] = "waiting"]
     /\ UNCHANGED told
  \/ /\ p \in Queued /\ ~HasRoom(p)
     /\ fate' = [fate EXCEPT ![t] = "dropped"]
     /\ UNCHANGED <<queue, told>>

\* A processor is done with a tape and nothing follows.
GiveUp(t) == fate' = [fate EXCEPT ![t] = "dropped"] /\ UNCHANGED <<queue, told>>

\* RunNextProcessor of processor p.
PassOn(p, t) ==
  IF NextProcessor(p) = {} THEN GiveUp(t) ELSE \E n \in NextProcessor(p) : Enter(n, t)

Rest(w) == worker' = [worker EXCEPT ![w] = Idle]

\* A tape's recording opens its capture file at the first chunk
\* (AudioTape::Write): the file's name is made before the identifier is
\* checked, and the check is for the capture file in the output path.  The
\* tapes of a port follow one another: the immediate thread closes one before
\* it opens the next.
Open(t, b) ==
  LET file == Path("mcf", [base |-> b, uid |-> NoTape], ".mcf") IN
  /\ fate[t] = "new"
  /\ \A u \in Tape : tape[u].file = file =>
       fate[u] = "new" \/ (~DistinctNames /\ fate[u] # "recording")
  /\ tape' = [tape EXCEPT ![t].id = NotTaken("out", b, ".mcf", t), ![t].file = file]
  /\ disk' = Written(file, Part(t))
  /\ fate' = [fate EXCEPT ![t] = "recording"]
  /\ UNCHANGED <<queue, worker, told>>

\* It is closed with all its audio, and RunProcessingChain gives the tape to
\* the first processor.
Close(t) ==
  /\ fate[t] = "recording"
  /\ disk' = Written(tape[t].file, Whole(t))
  /\ UNCHANGED <<tape, worker>>
  /\ Enter(Chain[1], t)

Take_Peeks(w) ==
  /\ worker[w].pc = "idle" /\ queue[w[1]] # <<>>
  /\ worker' = [worker EXCEPT ![w] = [Idle EXCEPT !.pc = "work", !.tape = Head(queue[w[1]])]]
  /\ UNCHANGED <<disk, tape, fate, told, queue>>

\* m_audioTapeQueue.pop() returns a tape to a thread of the processor.
Take(w) ==
  /\ worker[w].pc = "idle" /\ queue[w[1]] # <<>>
  /\ worker' = [worker EXCEPT ![w] = [Idle EXCEPT !.pc = "work", !.tape = Head(queue[w[1]])]]
  /\ queue' = [queue EXCEPT ![w[1]] = Tail(@)]
  /\ UNCHANGED <<disk, tape, fate, told>>

-----------------------------------------------------------------------------
(* BatchProcessing::ThreadHandler *)

OutFile(t) == Path("out", tape[t].id, ".wav")

\* The capture file is read to its end and closed.  The output holds its audio,
\* or was opened for a chunk that gave no samples, or was never opened
\* because no chunk could be decoded.
BatchTranscode(w) ==
  LET t == worker[w].tape IN
  /\ w[1] = "BatchProcessing" /\ worker[w].pc = "work"
  /\ tape' = [tape EXCEPT ![t].dir = "out"]
  /\ Exists(tape[t].file)
  /\ \E got \in {"audio", "silence", "nothing"} :
       /\ worker' = [worker EXCEPT ![w].pc = "done", ![w].got = got]
       /\ disk' = CASE got = "audio"   -> Written(OutFile(t), disk[tape[t].file])
                    [] got = "silence" -> Written(OutFile(t), Part(t))
                    [] got = "nothing" -> disk
  /\ UNCHANGED <<fate, queue, told>>

\* The files deleted after transcoding.
Deleted(w) ==
  LET t == worker[w].tape IN
  IF DeleteNativeFile /\ worker[w].got = "audio" THEN {tape[t].file}
  ELSE IF ~DeleteFailedCaptureFile THEN {}
  ELSE {tape[t].file} \cup (IF worker[w].got = "nothing" THEN {} ELSE {OutFile(t)})

\* A tape that gave no samples is not passed on.
BatchFinish(w) ==
  LET t == worker[w].tape IN
  /\ w[1] = "BatchProcessing" /\ worker[w].pc = "done"
  /\ UNCHANGED tape
  /\ disk' = Removed(Deleted(w))
  /\ IF worker[w].got = "audio" THEN PassOn("BatchProcessing", t) ELSE GiveUp(t)
  /\ Rest(w)

BatchFail_Requeues(w) ==
  LET t == worker[w].tape IN
  /\ w[1] = "BatchProcessing" /\ worker[w].pc = "work"
  /\ tape' = [tape EXCEPT ![t].dir = "out"]
  /\ disk' = IF DeleteFailedCaptureFile THEN Removed({tape[t].file}) ELSE disk
  /\ Enter("BatchProcessing", t)
  /\ Rest(w)

\* An exception, before the output was opened or after it got a part of the
\* audio; always when the capture file cannot be opened.
BatchFail(w) ==
  LET t == worker[w].tape IN
  /\ w[1] = "BatchProcessing" /\ worker[w].pc = "work"
  /\ tape' = [tape EXCEPT ![t].dir = "out"]
  /\ \E opened \in IF Exists(tape[t].file) THEN BOOLEAN ELSE {FALSE} :
       LET out == IF opened THEN {OutFile(t)} ELSE {} IN
       disk' = IF DeleteFailedCaptureFile THEN Removed({tape[t].file} \cup out)
               ELSE [f \in File |-> IF f \in out THEN Part(t) ELSE disk[f]]
  /\ GiveUp(t)
  /\ Rest(w)

-----------------------------------------------------------------------------
(* DirectionSelector::ThreadHandler *)

SideFile(t, x) == Path(tape[t].dir, tape[t].id, x)

\* The capture file is set aside; a rename that fails is only logged.
SideRename(w) ==
  LET t == worker[w].tape IN
  /\ w[1] = "DirectionSelector" /\ worker[w].pc = "work"
  /\ disk' = IF Exists(SideFile(t, ".mcf")) THEN Moved(SideFile(t, ".mcf"), SideFile(t, ".tmp")) ELSE disk
  /\ tape' = [tape EXCEPT ![t].ext = ".tmp", ![t].file = SideFile(t, ".tmp")]
  /\ worker' = [worker EXCEPT ![w].pc = "copy"]
  /\ UNCHANGED <<fate, queue, told>>

\* It is copied back without the sides not to be kept, and removed.
SideCopy(w) ==
  LET t == worker[w].tape IN
  /\ w[1] = "DirectionSelector" /\ worker[w].pc = "copy"
  /\ Exists(SideFile(t, ".tmp"))
  /\ disk' = Moved(SideFile(t, ".tmp"), SideFile(t, ".mcf"))
  /\ tape' = [tape EXCEPT ![t].ext = ".mcf", ![t].file = SideFile(t, ".mcf")]
  /\ PassOn("DirectionSelector", t)
  /\ Rest(w)

\* An exception leaves the file aside, and perhaps a part of the copy.
SideFail(w) ==
  LET t == worker[w].tape IN
  /\ w[1] = "DirectionSelector" /\ worker[w].pc = "copy"
  /\ \E opened \in IF Exists(SideFile(t, ".tmp")) THEN BOOLEAN ELSE {FALSE} :
       disk' = IF opened THEN Written(SideFile(t, ".mcf"), Part(t)) ELSE disk
  /\ UNCHANGED tape
  /\ GiveUp(t)
  /\ Rest(w)

-----------------------------------------------------------------------------
(* TapeFileNaming::ThreadHandler *)

\* GenerateFinalFilePathAndIdentifier: a name from the call's data, checked
\* against the names in use.
NameChoose(w) ==
  LET t == worker[w].tape IN
  /\ w[1] = "TapeFileNaming" /\ worker[w].pc = "work"
  /\ worker' = [worker EXCEPT ![w].pc = "rename", ![w].from = SideFile(t, tape[t].ext)]
  /\ IF NamingScheme
     THEN \E b \in FinalBase : tape' = [tape EXCEPT ![t].id = NotTaken("out", b, tape[t].ext, t)]
     ELSE UNCHANGED tape
  /\ UNCHANGED <<disk, fate, queue, told>>

\* The rename, whose failure is only logged; the tape goes on in any case.
NameRename(w) ==
  LET t == worker[w].tape
      to == SideFile(t, tape[t].ext) IN
  /\ w[1] = "TapeFileNaming" /\ worker[w].pc = "rename"
  /\ disk' = IF worker[w].from # to /\ Exists(worker[w].from) THEN Moved(worker[w].from, to) ELSE disk
  /\ UNCHANGED tape
  /\ PassOn("TapeFileNaming", t)
  /\ Rest(w)

-----------------------------------------------------------------------------
(* CommandProcessing::ThreadHandler *)

\* Without a command the tape is passed on.
CommandNone(w) ==
  /\ w[1] = "CommandProcessing" /\ worker[w].pc = "work" /\ Command = "none"
  /\ UNCHANGED <<disk, tape>>
  /\ PassOn("CommandProcessing", worker[w].tape)
  /\ Rest(w)

\* The audio is set aside for the command; a tape whose audio is missing is given up.
CommandMove(w) ==
  LET t == worker[w].tape IN
  /\ w[1] = "CommandProcessing" /\ worker[w].pc = "work" /\ Command # "none"
  /\ IF Exists(SideFile(t, ".wav"))
     THEN /\ disk' = Moved(SideFile(t, ".wav"), SideFile(t, ".wav.tmp"))
          /\ worker' = [worker EXCEPT ![w].pc = "run"]
          /\ UNCHANGED <<fate, queue, told>>
     ELSE /\ UNCHANGED disk
          /\ GiveUp(t)
          /\ Rest(w)
  /\ UNCHANGED tape

\* system(command): with [IN] and [OUT] it converts the audio, in part if it fails.
CommandRun(w) ==
  LET t == worker[w].tape IN
  /\ w[1] = "CommandProcessing" /\ worker[w].pc = "run"
  /\ IF Command = "plain" THEN UNCHANGED disk
     ELSE \E a \in {disk[SideFile(t, ".wav.tmp")], Part(t), disk[SideFile(t, ".wav")]} :
            disk' = Written(SideFile(t, ".wav"), a)
  /\ worker' = [worker EXCEPT ![w].pc = "ran"]
  /\ UNCHANGED <<tape, fate, queue, told>>

CommandFinish_Removes(w) ==
  LET t == worker[w].tape IN
  /\ w[1] = "CommandProcessing" /\ worker[w].pc = "ran"
  /\ disk' = Removed({SideFile(t, ".wav.tmp")})
  /\ UNCHANGED tape
  /\ PassOn("CommandProcessing", t)
  /\ Rest(w)

\* With [IN] the audio set aside is removed, the output named and its size
\* verified; a tape without output, or with one too small, is given up.
CommandFinish(w) ==
  LET t == worker[w].tape
      wav == SideFile(t, ".wav")
      aside == SideFile(t, ".wav.tmp")
      gsm == [Moved(wav, SideFile(t, ".gsm.wav")) EXCEPT ![aside] = Absent] IN
  /\ w[1] = "CommandProcessing" /\ worker[w].pc = "ran"
  /\ \/ /\ Command = "plain"
        /\ UNCHANGED <<disk, tape>>
        /\ PassOn("CommandProcessing", t)
     \/ /\ Command = "in" /\ Exists(wav)
        /\ disk' = gsm
        /\ tape' = [tape EXCEPT ![t].ext = "long"]
        /\ PassOn("CommandProcessing", t)
     \/ /\ Command = "in"
        /\ disk' = IF Exists(wav) THEN gsm ELSE Removed({aside})
        /\ UNCHANGED tape
        /\ GiveUp(t)
  /\ Rest(w)

-----------------------------------------------------------------------------
\* What a thread does with the tape it took, processor by processor.
Process(w) ==
  \/ BatchTranscode(w) \/ BatchFinish(w) \/ BatchFail(w)
  \/ SideRename(w) \/ SideCopy(w) \/ SideFail(w)
  \/ NameChoose(w) \/ NameRename(w)
  \/ CommandNone(w) \/ CommandMove(w) \/ CommandRun(w) \/ CommandFinish(w)

ThreadStep(w) == Take(w) \/ Process(w)

Next ==
  \/ \E t \in Tape, b \in Base : Open(t, b)
  \/ \E t \in Tape : Close(t)
  \/ \E w \in Worker : ThreadStep(w)

Spec == Init /\ [][Next]_vars

\* Every thread goes on; nothing is assumed of the recordings.
FairSpec == Spec /\ \A w \in Worker : WF_vars(ThreadStep(w))

-----------------------------------------------------------------------------
TapeRecord == [dir : Dir, id : Ident, ext : Ext, file : File]
WorkerRecord ==
  [pc : {"idle", "work", "done", "copy", "rename", "run", "ran"}, tape : Tape \cup {NoTape},
   from : File, got : {"audio", "silence", "nothing"}]

\* The type invariant: audio, names, queues and threads keep their shape,
\* and no queue exceeds its size.
TypeOK ==
  /\ disk \in [File -> Audio]
  /\ tape \in [Tape -> TapeRecord]
  /\ fate \in [Tape -> {"new", "recording", "waiting", "dropped", "reported"}]
  /\ queue \in [Queued -> Seq(Tape)]
  /\ \A p \in Queued : Len(queue[p]) <= QueueSize
  /\ worker \in [Worker -> WorkerRecord]
  /\ told \in Seq([tape : Tape, file : File])

\* No tape is twice in the queues, or with two threads, or in a queue and with
\* a thread; the tapes there are those the chain is not finished with.
QueuesDisjoint ==
  \A p, q \in Queued : \A i \in DOMAIN queue[p], j \in DOMAIN queue[q] :
    queue[p][i] = queue[q][j] => p = q /\ i = j
ThreadsDisjoint ==
  \A v, w \in Worker : worker[v].tape = worker[w].tape /\ worker[v].tape # NoTape => v = w
NotInBoth ==
  \A w \in Worker, p \in Queued : \A i \in DOMAIN queue[p] : worker[w].tape # queue[p][i]
InPlace(t) ==
  \/ \E p \in Queued : \E i \in DOMAIN queue[p] : queue[p][i] = t
  \/ \E w \in Worker : worker[w].tape = t

\* A tape the chain is not finished with is in one queue or with one thread, so
\* that no two threads work on its files and none forgets it; a tape the
\* chain is finished with is nowhere (TapeProcessor::RunNextProcessor and the
\* thread handlers of all processors).
OnePlace ==
  /\ QueuesDisjoint /\ ThreadsDisjoint /\ NotInBoth
  /\ \A t \in Tape : fate[t] = "waiting" <=> InPlace(t)

\* From its closing on, the audio of a recording is in some file, whole,
\* whatever its processors do with its files and whether they succeed
\* (BatchProcessing.cpp:647, TapeFileNaming.cpp:121, DirectionSelector.cpp:267).
AudioKept ==
  \A t \in Tape : fate[t] \in {"waiting", "dropped", "reported"} => \E f \in File : disk[f] = Whole(t)

\* The file that a ready message names holds the audio of the recording it is
\* about, then and ever after (AudioTape::PopulateTapeMessage).
AsReported == \A i \in DOMAIN told : disk[told[i].file] = Whole(told[i].tape)

\* Every recording the chain was given is reported or given up at last.
ChainCompletes ==
  \A t \in Tape : fate[t] = "waiting" ~> fate[t] \in {"dropped", "reported"}

\* A thread has a tape unless it waits for one, and a tape told of is reported.
ThreadsConsistent == \A w \in Worker : worker[w].pc = "idle" <=> worker[w].tape = NoTape
ToldConsistent == \A i \in DOMAIN told : fate[told[i].tape] = "reported"

\* The inductive invariant: with the types, a tape's place and its fate.
IInv == TypeOK /\ OnePlace /\ ThreadsConsistent /\ ToldConsistent

\* The chain keeps the promise of TapeFate: one report, or a tape given up.
Fate == INSTANCE TapeFate WITH
  waiting <- {t \in Tape : fate[t] = "waiting"},
  dropped <- {t \in Tape : fate[t] = "dropped"},
  told <- [i \in DOMAIN told |-> told[i].tape]
ImplementsFate == Fate!FateSpec

=============================================================================
