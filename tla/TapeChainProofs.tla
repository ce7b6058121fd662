--------------------------- MODULE TapeChainProofs ---------------------------
(***************************************************************************)
(* Proofs about TapeChain: every tape is in one place at a time, whatever  *)
(* the chain, the number of threads and the size of the queues; the chain  *)
(* implements TapeFate; and under the settings named by Careful no audio   *)
(* is lost, and what is reported is there.                                 *)
(*                                                                         *)
(* The steps of a thread are of two kinds: it goes on with its tape, and   *)
(* only files change (GoesOn); or it is done with it, and hands it on or   *)
(* gives it up (LetsGo).  A lemma for each says what becomes of queues,    *)
(* threads and fates; the theorem then types the files step by step.       *)
(*                                                                         *)
(* For the audio, no file is two tapes' (NamesInv), so that a step leaves  *)
(* every tape but its own undisturbed; AudioInv says where the audio of a  *)
(* tape is at each processor, and the steps of a processor move it on.     *)
(***************************************************************************)
EXTENDS TapeChain, SequenceTheorems, TLAPS

FilesTyped == disk \in [File -> Audio] /\ tape \in [Tape -> TapeRecord]

FateName == {"new", "recording", "waiting", "dropped", "reported"}
ToldRecord == [tape : Tape, file : File]

FlowTyped ==
  /\ fate \in [Tape -> FateName]
  /\ queue \in [Queued -> Seq(Tape)]
  /\ \A p \in Queued : Len(queue[p]) <= QueueSize
  /\ worker \in [Worker -> WorkerRecord]
  /\ told \in Seq(ToldRecord)

Flow == FlowTyped /\ OnePlace /\ ThreadsConsistent /\ ToldConsistent

\* The invariant is about the files on one side, the flow of tapes on the other.
LEMMA Split == IInv <=> FilesTyped /\ Flow
BY DEF IInv, TypeOK, FilesTyped, Flow, FlowTyped, FateName, ToldRecord

-----------------------------------------------------------------------------
(* The flow of the tapes. *)

HandsOver(p, t) == Enter(p, t) \/ GiveUp(t)

\* A thread that keeps its tape changes nothing of the flow.
LEMMA GoesOn ==
  ASSUME Flow, NEW w \in Worker, worker[w].pc # "idle",
         worker' \in [Worker -> WorkerRecord],
         \A v \in Worker : worker'[v].tape = worker[v].tape,
         \A v \in Worker \ {w} : worker'[v].pc = worker[v].pc,
         worker'[w].pc # "idle",
         UNCHANGED <<fate, queue, told>>
  PROVE Flow'
<1>1. FlowTyped'  BY DEF Flow, FlowTyped
<1>2. OnePlace'
  BY DEF Flow, OnePlace, QueuesDisjoint, ThreadsDisjoint, NotInBoth, InPlace
<1>3. ThreadsConsistent'  BY DEF Flow, ThreadsConsistent
<1>4. ToldConsistent'  BY DEF Flow, ToldConsistent
<1> QED  BY <1>1, <1>2, <1>3, <1>4 DEF Flow

\* A tape that is nowhere enters the queue of a processor, or is reported, or
\* dropped, and no other tape is affected.
LEMMA Entering ==
  ASSUME FlowTyped, tape' \in [Tape -> TapeRecord], ToldConsistent, NEW t \in Tape, NEW p,
         p \in Processor, HandsOver(p, t),
         fate[t] # "reported",
         \A q \in Queued : \A i \in DOMAIN queue[q] : queue[q][i] # t,
         QueuesDisjoint
  PROVE  /\ fate' \in [Tape -> FateName]
         /\ queue' \in [Queued -> Seq(Tape)]
         /\ \A q \in Queued : Len(queue'[q]) <= QueueSize
         /\ told' \in Seq(ToldRecord)
         /\ ToldConsistent'
         /\ QueuesDisjoint'
         /\ \A u \in Tape \ {t} : fate'[u] = fate[u]
         /\ \A u \in Tape \ {t} :
              (\E q \in Queued : \E i \in DOMAIN queue[q] : queue[q][i] = u)
                <=> (\E q \in Queued : \E i \in DOMAIN queue'[q] : queue'[q][i] = u)
         /\ fate'[t] = "waiting" <=> (\E q \in Queued : \E i \in DOMAIN queue'[q] : queue'[q][i] = t)
         /\ \A q \in Queued : \A i \in DOMAIN queue'[q] :
              queue'[q][i] = t \/ (i \in DOMAIN queue[q] /\ queue'[q][i] = queue[q][i])
<1> USE ChainAssumption
<1>1. CASE UNCHANGED queue /\ UNCHANGED told /\ fate' = [fate EXCEPT ![t] = "dropped"]
  <2>1. ToldConsistent'  BY <1>1 DEF ToldConsistent, FlowTyped, ToldRecord
  <2>2. QueuesDisjoint'  BY <1>1 DEF QueuesDisjoint
  <2> QED  BY <1>1, <2>1, <2>2 DEF FlowTyped, FateName
<1>2. CASE /\ UNCHANGED queue
           /\ told' = Append(told, [tape |-> t, file |-> FileName(t)])
           /\ fate' = [fate EXCEPT ![t] = "reported"]
  <2>1. FileName(t) \in File
    BY DEF FileName, Path, File, TapeRecord, Dir
  <2>2. told' \in Seq(ToldRecord)
    BY <1>2, <2>1 DEF FlowTyped, ToldRecord
  <2>3. ToldConsistent'
    <3> SUFFICES ASSUME NEW i \in DOMAIN told' PROVE fate'[told'[i].tape] = "reported"
      BY DEF ToldConsistent
    <3>1. CASE i = Len(told) + 1
      BY <1>2, <3>1 DEF FlowTyped
    <3>2. CASE i \in DOMAIN told
      <4>1. told \in Seq(ToldRecord) /\ [tape |-> t, file |-> FileName(t)] \in ToldRecord
        BY <2>1 DEF FlowTyped, ToldRecord
      <4>2. told'[i] = told[i] /\ told[i] \in ToldRecord
        <5> HIDE DEF ToldRecord
        <5> QED  BY <1>2, <3>2, <4>1
      <4>3. told[i].tape \in Tape  BY <4>2 DEF ToldRecord
      <4> QED  BY <1>2, <3>2, <4>2, <4>3 DEF ToldConsistent, FlowTyped
    <3> QED  BY <1>2, <3>1, <3>2 DEF FlowTyped
  <2>4. QueuesDisjoint'  BY <1>2 DEF QueuesDisjoint
  <2> QED  BY <1>2, <2>2, <2>3, <2>4 DEF FlowTyped, FateName
<1>3. CASE /\ p \in Queued /\ HasRoom(p)
           /\ queue' = [queue EXCEPT ![p] = Append(@, t)]
           /\ fate' = [fate EXCEPT ![t] = "waiting"]
           /\ UNCHANGED told
  <2>1. queue[p] \in Seq(Tape)  BY <1>3 DEF FlowTyped
  <2>2. /\ queue'[p] = Append(queue[p], t)
        /\ \A q \in Queued \ {p} : queue'[q] = queue[q]
    BY <1>3 DEF FlowTyped
  <2>3. /\ DOMAIN queue'[p] = DOMAIN queue[p] \cup {Len(queue[p]) + 1}
        /\ Len(queue[p]) + 1 \notin DOMAIN queue[p]
        /\ queue'[p][Len(queue[p]) + 1] = t
        /\ \A i \in DOMAIN queue[p] : queue'[p][i] = queue[p][i]
        /\ Len(queue'[p]) = Len(queue[p]) + 1
        /\ queue'[p] \in Seq(Tape)
    BY <2>1, <2>2
  <2>4. queue' \in [Queued -> Seq(Tape)]  BY <1>3, <2>3 DEF FlowTyped
  <2>5. \A q \in Queued : Len(queue'[q]) <= QueueSize
    BY <1>3, <2>1, <2>2, <2>3 DEF FlowTyped, HasRoom
  <2>6. ToldConsistent'  BY <1>3 DEF ToldConsistent, FlowTyped, ToldRecord
  <2>7. QueuesDisjoint'
    <3> SUFFICES ASSUME NEW q \in Queued, NEW r \in Queued,
                        NEW i \in DOMAIN queue'[q], NEW j \in DOMAIN queue'[r],
                        queue'[q][i] = queue'[r][j]
                 PROVE  q = r /\ i = j
      BY DEF QueuesDisjoint
    <3>1. (i \in DOMAIN queue[q] /\ queue'[q][i] = queue[q][i])
            \/ (q = p /\ i = Len(queue[p]) + 1 /\ queue'[q][i] = t)
      BY <2>2, <2>3
    <3>2. (j \in DOMAIN queue[r] /\ queue'[r][j] = queue[r][j])
            \/ (r = p /\ j = Len(queue[p]) + 1 /\ queue'[r][j] = t)
      BY <2>2, <2>3
    <3>3. CASE i \in DOMAIN queue[q] /\ j \in DOMAIN queue[r]
      BY <3>1, <3>2, <3>3, <2>3 DEF QueuesDisjoint
    <3> QED  BY <3>1, <3>2, <3>3
  <2>8. \A q \in Queued : \A i \in DOMAIN queue'[q] :
          queue'[q][i] = t \/ (i \in DOMAIN queue[q] /\ queue'[q][i] = queue[q][i])
    BY <2>2, <2>3
  <2>9. \A q \in Queued : \A i \in DOMAIN queue[q] : i \in DOMAIN queue'[q] /\ queue'[q][i] = queue[q][i]
    BY <2>2, <2>3
  <2>10. fate' \in [Tape -> FateName] /\ fate'[t] = "waiting" /\ \A u \in Tape \ {t} : fate'[u] = fate[u]
    BY <1>3 DEF FlowTyped, FateName
  <2>11. \E q \in Queued : \E i \in DOMAIN queue'[q] : queue'[q][i] = t
    BY <1>3, <2>3
  <2>12. told' \in Seq(ToldRecord)  BY <1>3 DEF FlowTyped
  <2> QED  BY <2>4, <2>5, <2>6, <2>7, <2>8, <2>9, <2>10, <2>11, <2>12
<1> QED  BY <1>1, <1>2, <1>3 DEF HandsOver, Enter, GiveUp

\* A thread that is done with its tape hands it over, and is idle.
LEMMA LetsGo ==
  ASSUME Flow, tape' \in [Tape -> TapeRecord], NEW w \in Worker, worker[w].pc # "idle",
         NEW p \in Processor, HandsOver(p, worker[w].tape), Rest(w)
  PROVE Flow'
<1> USE ChainAssumption
<1> DEFINE t == worker[w].tape
<1>1. t \in Tape /\ t # NoTape
  BY DEF Flow, FlowTyped, ThreadsConsistent, WorkerRecord
<1>2. fate[t] = "waiting"
  BY <1>1 DEF Flow, OnePlace, InPlace
<1>3. \A q \in Queued : \A i \in DOMAIN queue[q] : queue[q][i] # t
  BY DEF Flow, OnePlace, NotInBoth
<1>4. /\ fate' \in [Tape -> FateName]
      /\ queue' \in [Queued -> Seq(Tape)]
      /\ \A q \in Queued : Len(queue'[q]) <= QueueSize
      /\ told' \in Seq(ToldRecord)
      /\ ToldConsistent'
      /\ QueuesDisjoint'
      /\ \A u \in Tape \ {t} : fate'[u] = fate[u]
      /\ \A u \in Tape \ {t} :
           (\E q \in Queued : \E i \in DOMAIN queue[q] : queue[q][i] = u)
             <=> (\E q \in Queued : \E i \in DOMAIN queue'[q] : queue'[q][i] = u)
      /\ fate'[t] = "waiting" <=> (\E q \in Queued : \E i \in DOMAIN queue'[q] : queue'[q][i] = t)
      /\ \A q \in Queued : \A i \in DOMAIN queue'[q] :
           queue'[q][i] = t \/ (i \in DOMAIN queue[q] /\ queue'[q][i] = queue[q][i])
  <2> HIDE DEF t
  <2>1. HandsOver(p, t)  BY DEF t
  <2>2. fate[t] # "reported"  BY <1>2
  <2> QED  BY <1>1, <1>3, <2>1, <2>2, Entering DEF Flow, OnePlace
<1>5. Idle \in WorkerRecord /\ Idle.tape = NoTape /\ Idle.pc = "idle"
  BY DEF Idle, WorkerRecord, AnyFile, AnyIdent, File, Ident, Dir, Ext
<1>6. /\ worker' \in [Worker -> WorkerRecord]
      /\ worker'[w].tape = NoTape /\ worker'[w].pc = "idle"
      /\ \A v \in Worker \ {w} : worker'[v] = worker[v]
  BY <1>5 DEF Rest, Flow, FlowTyped
<1>7. FlowTyped'  BY <1>4, <1>6 DEF FlowTyped
<1>8. ThreadsConsistent'  BY <1>6 DEF Flow, ThreadsConsistent
<1>9. \A v \in Worker \ {w} : worker[v].tape # t
  BY <1>1 DEF Flow, OnePlace, ThreadsDisjoint
<1>10. ThreadsDisjoint'
  BY <1>6 DEF Flow, OnePlace, ThreadsDisjoint
<1>11. NotInBoth'
  <2> SUFFICES ASSUME NEW v \in Worker, NEW q \in Queued, NEW i \in DOMAIN queue'[q]
               PROVE worker'[v].tape # queue'[q][i]
    BY DEF NotInBoth
  <2>1. CASE v = w
    <3>1. queue'[q][i] \in Tape  BY <1>4
    <3> QED  BY <2>1, <3>1, <1>6
  <2>2. CASE v # w
    BY <2>2, <1>4, <1>6, <1>9 DEF Flow, OnePlace, NotInBoth
  <2> QED  BY <2>1, <2>2
<1>12. \A u \in Tape : fate'[u] = "waiting" <=> InPlace(u)'
  <2> SUFFICES ASSUME NEW u \in Tape PROVE fate'[u] = "waiting" <=> InPlace(u)'
    OBVIOUS
  <2>1. CASE u = t
    <3>1. \A v \in Worker : worker'[v].tape # t  BY <1>1, <1>6, <1>9
    <3> QED  BY <2>1, <3>1, <1>4 DEF InPlace
  <2>2. CASE u # t
    <3>1. fate[u] = "waiting" <=> InPlace(u)  BY DEF Flow, OnePlace
    <3>2. (\E v \in Worker : worker'[v].tape = u) <=> (\E v \in Worker : worker[v].tape = u)
      BY <2>2, <1>6
    <3> QED  BY <2>2, <3>1, <3>2, <1>4 DEF InPlace
  <2> QED  BY <2>1, <2>2
<1>13. OnePlace'  BY <1>4, <1>10, <1>11, <1>12 DEF OnePlace
<1> QED  BY <1>4, <1>7, <1>8, <1>13 DEF Flow

-----------------------------------------------------------------------------
(* The files. *)

LEMMA NameTypes ==
  ASSUME FilesTyped, NEW t \in Tape
  PROVE  /\ \A d \in Dir, i \in Ident, x \in Ext : Path(d, i, x) \in File
         /\ \A d \in Dir, b \in Base \cup FinalBase, x \in Ext : NotTaken(d, b, x, t) \in Ident
         /\ \A x \in Ext : SideFile(t, x) \in File
         /\ OutFile(t) \in File /\ tape[t] \in TapeRecord /\ tape[t].file \in File
         /\ tape[t].ext \in Ext
<1>1. \A d \in Dir, i \in Ident, x \in Ext : Path(d, i, x) \in File
  BY DEF Path, File, Dir
<1>2. \A d \in Dir, b \in Base \cup FinalBase, x \in Ext : NotTaken(d, b, x, t) \in Ident
  BY DEF NotTaken, Ident
<1>3. /\ tape[t] \in TapeRecord /\ tape[t].dir \in Dir /\ tape[t].id \in Ident
      /\ tape[t].ext \in Ext /\ tape[t].file \in File
  BY DEF FilesTyped, TapeRecord
<1>4. "out" \in Dir /\ ".wav" \in Ext  BY DEF Dir, Ext
<1> QED  BY <1>1, <1>2, <1>3, <1>4 DEF SideFile, OutFile

LEMMA DiskTypes ==
  ASSUME FilesTyped
  PROVE  /\ \A t \in Tape : Whole(t) \in Audio /\ Part(t) \in Audio
         /\ \A f \in File, a \in Audio : Written(f, a) \in [File -> Audio]
         /\ \A f, g \in File : Moved(f, g) \in [File -> Audio]
         /\ \A fs : Removed(fs) \in [File -> Audio]
         /\ Absent \in Audio
<1>1. /\ \A t \in Tape : Whole(t) \in Audio /\ Part(t) \in Audio
      /\ Absent \in Audio
  BY DEF Whole, Part, Absent, Audio
<1> HIDE DEF Audio
<1> QED  BY <1>1 DEF FilesTyped, Written, Moved, Removed

LEMMA ThreadRecord ==
  ASSUME Flow, NEW w \in Worker, worker[w].pc # "idle"
  PROVE  /\ worker \in [Worker -> WorkerRecord]
         /\ worker[w] \in WorkerRecord /\ worker[w].tape \in Tape
         /\ worker[w] = [pc |-> worker[w].pc, tape |-> worker[w].tape,
                         from |-> worker[w].from, got |-> worker[w].got]
         /\ worker[w].from \in File /\ worker[w].got \in {"audio", "silence", "nothing"}
         /\ worker[w].pc \in {"work", "done", "copy", "rename", "run", "ran"}
<1>1. worker \in [Worker -> WorkerRecord] /\ worker[w] \in WorkerRecord  BY DEF Flow, FlowTyped
<1>2. worker[w].tape # NoTape  BY DEF Flow, ThreadsConsistent
<1> QED  BY <1>1, <1>2 DEF WorkerRecord

\* RunNextProcessor hands the tape to a processor, or gives it up at the chain's end.
LEMMA PassingOn ==
  ASSUME NEW p, NEW t, PassOn(p, t)
  PROVE  \E q \in Processor : HandsOver(q, t)
<1> USE ChainAssumption
<1>1. NextProcessor(p) \subseteq Processor
  BY DEF NextProcessor
<1> QED  BY <1>1 DEF PassOn, HandsOver, Processor

-----------------------------------------------------------------------------
(* The steps.  First those in which a thread goes on with its tape. *)

LEMMA Continuing ==
  ASSUME Flow, FilesTyped', NEW w \in Worker, worker[w].pc # "idle",
         NEW r \in WorkerRecord, r.tape = worker[w].tape, r.pc # "idle",
         worker' = [worker EXCEPT ![w] = r],
         UNCHANGED <<fate, queue, told>>
  PROVE  IInv'
<1>1. /\ worker' \in [Worker -> WorkerRecord]
      /\ \A v \in Worker : worker'[v].tape = worker[v].tape
      /\ \A v \in Worker \ {w} : worker'[v].pc = worker[v].pc
      /\ worker'[w].pc # "idle"
  BY DEF Flow, FlowTyped
<1>2. Flow'  BY <1>1, GoesOn
<1> QED  BY <1>2, Split, PTL

\* A tape's record with another directory, name, extension or file.
LEMMA TapeTypes ==
  ASSUME FilesTyped, NEW t \in Tape, NEW r \in TapeRecord
  PROVE  [tape EXCEPT ![t] = r] \in [Tape -> TapeRecord]
BY DEF FilesTyped

LEMMA TapeParts ==
  ASSUME FilesTyped, NEW t \in Tape
  PROVE  /\ tape \in [Tape -> TapeRecord]
         /\ tape[t].dir \in Dir /\ tape[t].id \in Ident /\ tape[t].ext \in Ext /\ tape[t].file \in File
         /\ tape[t] = [dir |-> tape[t].dir, id |-> tape[t].id, ext |-> tape[t].ext, file |-> tape[t].file]
<1>1. tape \in [Tape -> TapeRecord] /\ tape[t] \in TapeRecord  BY DEF FilesTyped
<1> QED  BY <1>1 DEF TapeRecord

LEMMA TranscodeKeeps ==
  ASSUME IInv, NEW w \in Worker, BatchTranscode(w)
  PROVE  IInv'
<1> DEFINE t == worker[w].tape
<1>0. FilesTyped /\ Flow  BY Split
<1>1. worker[w].pc # "idle"  BY DEF BatchTranscode
<1>2. /\ t \in Tape /\ worker \in [Worker -> WorkerRecord] /\ worker[w].from \in File
      /\ worker[w] = [pc |-> worker[w].pc, tape |-> t, from |-> worker[w].from, got |-> worker[w].got]
  BY <1>0, <1>1, ThreadRecord
<1>3. PICK got \in {"audio", "silence", "nothing"} :
        /\ worker' = [worker EXCEPT ![w].pc = "done", ![w].got = got]
        /\ disk' = CASE got = "audio"   -> Written(OutFile(t), disk[tape[t].file])
                     [] got = "silence" -> Written(OutFile(t), Part(t))
                     [] got = "nothing" -> disk
  BY DEF BatchTranscode
<1>4. /\ OutFile(t) \in File /\ tape[t].file \in File /\ disk[tape[t].file] \in Audio
  <2>1. OutFile(t) \in File /\ tape[t].file \in File  BY <1>0, <1>2, NameTypes
  <2> QED  BY <1>0, <2>1 DEF FilesTyped
<1>5. disk' \in [File -> Audio]
  <2>1. CASE got = "audio"  BY <2>1, <1>0, <1>3, <1>4, DiskTypes
  <2>2. CASE got = "silence"  BY <2>2, <1>0, <1>2, <1>3, <1>4, DiskTypes
  <2>3. CASE got = "nothing"  BY <2>3, <1>0, <1>3 DEF FilesTyped
  <2> QED  BY <2>1, <2>2, <2>3
<1>6. tape' \in [Tape -> TapeRecord]
  <2> DEFINE d == [tape[t] EXCEPT !.dir = "out"]
  <2>1. tape' = [tape EXCEPT ![t].dir = "out"]  BY DEF BatchTranscode
  <2>2. tape' = [tape EXCEPT ![t] = d]  BY <1>0, <1>2, <2>1, TapeParts
  <2>3. d \in TapeRecord  BY <1>0, <1>2, TapeParts DEF TapeRecord, Dir
  <2> HIDE DEF d
  <2> QED  BY <1>0, <1>2, <2>2, <2>3, TapeTypes
<1> DEFINE r == [worker[w] EXCEPT !.pc = "done", !.got = got]
<1>7. worker' = [worker EXCEPT ![w] = r]
  BY <1>2, <1>3
<1>8. UNCHANGED <<fate, queue, told>>  BY DEF BatchTranscode
<1>9. FilesTyped'  BY <1>5, <1>6 DEF FilesTyped
<1>10. r \in WorkerRecord /\ r.tape = t /\ r.pc # "idle"
  BY <1>2, <1>3 DEF WorkerRecord
<1> HIDE DEF r
<1> QED  BY <1>0, <1>1, <1>7, <1>8, <1>9, <1>10, Continuing

LEMMA SideRenameKeeps ==
  ASSUME IInv, NEW w \in Worker, SideRename(w)
  PROVE  IInv'
<1> DEFINE t == worker[w].tape
<1>0. FilesTyped /\ Flow  BY Split
<1>1. worker[w].pc # "idle"  BY DEF SideRename
<1>2. /\ t \in Tape /\ worker \in [Worker -> WorkerRecord] /\ worker[w].from \in File /\ worker[w].got \in {"audio", "silence", "nothing"}
      /\ worker[w] = [pc |-> worker[w].pc, tape |-> t, from |-> worker[w].from, got |-> worker[w].got]
  BY <1>0, <1>1, ThreadRecord
<1>3. SideFile(t, ".mcf") \in File /\ SideFile(t, ".tmp") \in File
  BY <1>0, <1>2, NameTypes DEF Ext
<1>5. disk' \in [File -> Audio]
  BY <1>0, <1>3, DiskTypes DEF SideRename, FilesTyped
<1>6. tape' \in [Tape -> TapeRecord]
  <2> DEFINE d == [tape[t] EXCEPT !.ext = ".tmp", !.file = SideFile(t, ".tmp")]
  <2>1. tape' = [tape EXCEPT ![t].ext = ".tmp", ![t].file = SideFile(t, ".tmp")]  BY DEF SideRename
  <2>2. tape' = [tape EXCEPT ![t] = d]  BY <1>0, <1>2, <2>1, TapeParts
  <2>3. d \in TapeRecord  BY <1>0, <1>2, <1>3, TapeParts DEF TapeRecord, Ext
  <2> HIDE DEF d
  <2> QED  BY <1>0, <1>2, <2>2, <2>3, TapeTypes
<1> DEFINE r == [worker[w] EXCEPT !.pc = "copy"]
<1>7. worker' = [worker EXCEPT ![w] = r]
  BY <1>2 DEF SideRename
<1>8. UNCHANGED <<fate, queue, told>>  BY DEF SideRename
<1>9. FilesTyped'  BY <1>5, <1>6 DEF FilesTyped
<1>10. r \in WorkerRecord /\ r.tape = t /\ r.pc # "idle"
  BY <1>2, <1>3 DEF WorkerRecord
<1> HIDE DEF r
<1> QED  BY <1>0, <1>1, <1>7, <1>8, <1>9, <1>10, Continuing

LEMMA NameChooseKeeps ==
  ASSUME IInv, NEW w \in Worker, NameChoose(w)
  PROVE  IInv'
<1> DEFINE t == worker[w].tape
<1>0. FilesTyped /\ Flow  BY Split
<1>1. worker[w].pc # "idle"  BY DEF NameChoose
<1>2. /\ t \in Tape /\ worker \in [Worker -> WorkerRecord] /\ worker[w].from \in File /\ worker[w].got \in {"audio", "silence", "nothing"}
      /\ worker[w] = [pc |-> worker[w].pc, tape |-> t, from |-> worker[w].from, got |-> worker[w].got]
  BY <1>0, <1>1, ThreadRecord
<1>3. SideFile(t, tape[t].ext) \in File
  BY <1>0, <1>2, NameTypes
<1>6. tape' \in [Tape -> TapeRecord]
  <2>1. CASE NamingScheme
    <3>1. PICK b \in FinalBase : tape' = [tape EXCEPT ![t].id = NotTaken("out", b, tape[t].ext, t)]
      BY <2>1 DEF NameChoose
    <3>2. NotTaken("out", b, tape[t].ext, t) \in Ident
      BY <1>0, <1>2, NameTypes DEF Dir
    <3> DEFINE d == [tape[t] EXCEPT !.id = NotTaken("out", b, tape[t].ext, t)]
    <3>3. tape' = [tape EXCEPT ![t] = d]  BY <1>0, <1>2, <3>1, TapeParts
    <3>4. d \in TapeRecord  BY <1>0, <1>2, <3>2, TapeParts DEF TapeRecord
    <3> HIDE DEF d
    <3> QED  BY <1>0, <1>2, <3>3, <3>4, TapeTypes
  <2>2. CASE ~NamingScheme  BY <2>2, <1>0 DEF NameChoose, FilesTyped
  <2> QED  BY <2>1, <2>2
<1> DEFINE r == [worker[w] EXCEPT !.pc = "rename", !.from = SideFile(t, tape[t].ext)]
<1>7. worker' = [worker EXCEPT ![w] = r]
  BY <1>2 DEF NameChoose
<1>8. UNCHANGED <<disk, fate, queue, told>>  BY DEF NameChoose
<1>9. FilesTyped'  BY <1>0, <1>6, <1>8 DEF FilesTyped
<1>10. r \in WorkerRecord /\ r.tape = t /\ r.pc # "idle"
  BY <1>2, <1>3 DEF WorkerRecord
<1> HIDE DEF r
<1> QED  BY <1>0, <1>1, <1>7, <1>8, <1>9, <1>10, Continuing

LEMMA CommandRunKeeps ==
  ASSUME IInv, NEW w \in Worker, CommandRun(w)
  PROVE  IInv'
<1> DEFINE t == worker[w].tape
<1>0. FilesTyped /\ Flow  BY Split
<1>1. worker[w].pc # "idle"  BY DEF CommandRun
<1>2. /\ t \in Tape /\ worker \in [Worker -> WorkerRecord] /\ worker[w].from \in File /\ worker[w].got \in {"audio", "silence", "nothing"}
      /\ worker[w] = [pc |-> worker[w].pc, tape |-> t, from |-> worker[w].from, got |-> worker[w].got]
  BY <1>0, <1>1, ThreadRecord
<1>3. SideFile(t, ".wav") \in File /\ SideFile(t, ".wav.tmp") \in File
  BY <1>0, <1>2, NameTypes DEF Ext
<1>5. disk' \in [File -> Audio]
  <2>1. disk[SideFile(t, ".wav.tmp")] \in Audio /\ disk[SideFile(t, ".wav")] \in Audio
    BY <1>0, <1>3 DEF FilesTyped
  <2>2. CASE Command = "plain"  BY <2>2, <1>0 DEF CommandRun, FilesTyped
  <2>3. CASE Command # "plain"
    <3>1. PICK a \in {disk[SideFile(t, ".wav.tmp")], Part(t), disk[SideFile(t, ".wav")]} :
            disk' = Written(SideFile(t, ".wav"), a)
      BY <2>3 DEF CommandRun
    <3>2. Part(t) \in Audio  BY <1>0, <1>2, DiskTypes
    <3> QED  BY <1>0, <1>3, <2>1, <3>1, <3>2, DiskTypes
  <2> QED  BY <2>2, <2>3
<1> DEFINE r == [worker[w] EXCEPT !.pc = "ran"]
<1>7. worker' = [worker EXCEPT ![w] = r]
  BY <1>2 DEF CommandRun
<1>8. UNCHANGED <<tape, fate, queue, told>>  BY DEF CommandRun
<1>9. FilesTyped'  BY <1>0, <1>5, <1>8 DEF FilesTyped
<1>10. r \in WorkerRecord /\ r.tape = t /\ r.pc # "idle"
  BY <1>2, <1>3 DEF WorkerRecord
<1> HIDE DEF r
<1> QED  BY <1>0, <1>1, <1>7, <1>8, <1>9, <1>10, Continuing

-----------------------------------------------------------------------------
(* The steps in which a thread is done with its tape. *)

LEMMA Finishing ==
  ASSUME Flow, FilesTyped', NEW w \in Worker, worker[w].pc # "idle", NEW p,
         PassOn(p, worker[w].tape) \/ GiveUp(worker[w].tape), Rest(w)
  PROVE  IInv'
<1>1. \E q \in Processor : HandsOver(q, worker[w].tape)
  <2>1. CASE PassOn(p, worker[w].tape)  BY <2>1, PassingOn
  <2>2. CASE GiveUp(worker[w].tape)  BY <2>2 DEF HandsOver, Processor
  <2> QED  BY <2>1, <2>2
<1>2. tape' \in [Tape -> TapeRecord]  BY DEF FilesTyped
<1>3. Flow'  BY <1>1, <1>2, LetsGo
<1> QED  BY <1>3, Split, PTL

\* What is known of a thread that has a tape.
LEMMA AtWork ==
  ASSUME IInv, NEW w \in Worker, worker[w].pc # "idle"
  PROVE  /\ FilesTyped /\ Flow
         /\ worker[w].tape \in Tape
         /\ \A x \in Ext : SideFile(worker[w].tape, x) \in File
         /\ OutFile(worker[w].tape) \in File
         /\ tape[worker[w].tape].ext \in Ext
<1>1. FilesTyped /\ Flow  BY Split
<1>2. worker[w].tape \in Tape  BY <1>1, ThreadRecord
<1> QED  BY <1>1, <1>2, NameTypes

LEMMA BatchEndKeeps ==
  ASSUME IInv, NEW w \in Worker, BatchFinish(w) \/ BatchFail(w)
  PROVE  IInv'
<1> DEFINE t == worker[w].tape
<1>1. worker[w].pc # "idle"  BY DEF BatchFinish, BatchFail
<1>2. FilesTyped /\ Flow /\ t \in Tape  BY <1>1, AtWork
<1>3. CASE BatchFinish(w)
  <2>1. disk' \in [File -> Audio]  BY <1>2, <1>3, DiskTypes DEF BatchFinish
  <2>2. FilesTyped'  BY <1>2, <1>3, <2>1 DEF BatchFinish, FilesTyped
  <2>3. PassOn("BatchProcessing", t) \/ GiveUp(t)  BY <1>3 DEF BatchFinish
  <2>4. Rest(w)  BY <1>3 DEF BatchFinish
  <2> QED  BY <1>1, <1>2, <2>2, <2>3, <2>4, Finishing
<1>4. CASE BatchFail(w)
  <2>1. PICK opened \in BOOLEAN :
          disk' = IF DeleteFailedCaptureFile
                  THEN Removed({tape[t].file} \cup (IF opened THEN {OutFile(t)} ELSE {}))
                  ELSE [f \in File |-> IF f \in (IF opened THEN {OutFile(t)} ELSE {}) THEN Part(t) ELSE disk[f]]
    BY <1>4 DEF BatchFail
  <2>2. Part(t) \in Audio  BY <1>2, DiskTypes
  <2>3. disk' \in [File -> Audio]
    <3>1. CASE DeleteFailedCaptureFile  BY <1>2, <2>1, <3>1, DiskTypes
    <3>2. CASE ~DeleteFailedCaptureFile  BY <1>2, <2>1, <2>2, <3>2 DEF FilesTyped
    <3> QED  BY <3>1, <3>2
  <2>4. tape' \in [Tape -> TapeRecord]
    <3> DEFINE d == [tape[t] EXCEPT !.dir = "out"]
    <3>1. tape' = [tape EXCEPT ![t] = d]  BY <1>2, <1>4, TapeParts DEF BatchFail
    <3>2. d \in TapeRecord  BY <1>2, TapeParts DEF TapeRecord, Dir
    <3> HIDE DEF d
    <3> QED  BY <1>2, <3>1, <3>2, TapeTypes
  <2>5. FilesTyped'  BY <2>3, <2>4 DEF FilesTyped
  <2>6. GiveUp(t) /\ Rest(w)  BY <1>4 DEF BatchFail
  <2> QED  BY <1>1, <1>2, <2>5, <2>6, Finishing
<1> QED  BY <1>3, <1>4

LEMMA SideEndKeeps ==
  ASSUME IInv, NEW w \in Worker, SideCopy(w) \/ SideFail(w)
  PROVE  IInv'
<1> DEFINE t == worker[w].tape
<1>1. worker[w].pc # "idle"  BY DEF SideCopy, SideFail
<1>2. FilesTyped /\ Flow /\ t \in Tape  BY <1>1, AtWork
<1>3. SideFile(t, ".mcf") \in File /\ SideFile(t, ".tmp") \in File
  BY <1>1, AtWork DEF Ext
<1>4. CASE SideCopy(w)
  <2>1. disk' \in [File -> Audio]  BY <1>2, <1>3, <1>4, DiskTypes DEF SideCopy
  <2>2. tape' \in [Tape -> TapeRecord]
    <3> DEFINE d == [tape[t] EXCEPT !.ext = ".mcf", !.file = SideFile(t, ".mcf")]
    <3>1. tape' = [tape EXCEPT ![t] = d]  BY <1>2, <1>4, TapeParts DEF SideCopy
    <3>2. d \in TapeRecord  BY <1>2, <1>3, TapeParts DEF TapeRecord, Ext
    <3> HIDE DEF d
    <3> QED  BY <1>2, <3>1, <3>2, TapeTypes
  <2>3. FilesTyped'  BY <2>1, <2>2 DEF FilesTyped
  <2>4. PassOn("DirectionSelector", t) /\ Rest(w)  BY <1>4 DEF SideCopy
  <2> QED  BY <1>1, <1>2, <2>3, <2>4, Finishing
<1>5. CASE SideFail(w)
  <2>1. Part(t) \in Audio  BY <1>2, DiskTypes
  <2>2. disk' = disk \/ disk' = Written(SideFile(t, ".mcf"), Part(t))  BY <1>5 DEF SideFail
  <2>6. Written(SideFile(t, ".mcf"), Part(t)) \in [File -> Audio]
    <3> HIDE DEF t
    <3> QED  BY <1>2, <1>3, <2>1, DiskTypes
  <2>7. disk \in [File -> Audio]  BY <1>2 DEF FilesTyped
  <2>3. disk' \in [File -> Audio]  BY <2>2, <2>6, <2>7
  <2>4. FilesTyped'  BY <1>2, <1>5, <2>3 DEF FilesTyped, SideFail
  <2>5. GiveUp(t) /\ Rest(w)  BY <1>5 DEF SideFail
  <2> QED  BY <1>1, <1>2, <2>4, <2>5, Finishing
<1> QED  BY <1>4, <1>5

LEMMA NameRenameKeeps ==
  ASSUME IInv, NEW w \in Worker, NameRename(w)
  PROVE  IInv'
<1> DEFINE t == worker[w].tape
<1>1. worker[w].pc # "idle"  BY DEF NameRename
<1>2. FilesTyped /\ Flow /\ t \in Tape  BY <1>1, AtWork
<1>3. SideFile(t, tape[t].ext) \in File /\ worker[w].from \in File
  BY <1>1, <1>2, AtWork, ThreadRecord
<1>4. Moved(worker[w].from, SideFile(t, tape[t].ext)) \in [File -> Audio] /\ disk \in [File -> Audio]
  BY <1>2, <1>3, DiskTypes DEF FilesTyped
<1>5. FilesTyped'  BY <1>2, <1>4 DEF FilesTyped, NameRename
<1>6. PassOn("TapeFileNaming", t) /\ Rest(w)  BY DEF NameRename
<1> QED  BY <1>1, <1>2, <1>5, <1>6, Finishing

LEMMA CommandNoneKeeps ==
  ASSUME IInv, NEW w \in Worker, CommandNone(w)
  PROVE  IInv'
<1> DEFINE t == worker[w].tape
<1>1. worker[w].pc # "idle"  BY DEF CommandNone
<1>2. FilesTyped /\ Flow /\ t \in Tape  BY <1>1, AtWork
<1>3. FilesTyped'  BY <1>2 DEF FilesTyped, CommandNone
<1>4. PassOn("CommandProcessing", t) /\ Rest(w)  BY DEF CommandNone
<1> QED  BY <1>1, <1>2, <1>3, <1>4, Finishing

LEMMA CommandMoveKeeps ==
  ASSUME IInv, NEW w \in Worker, CommandMove(w)
  PROVE  IInv'
<1> DEFINE t == worker[w].tape
<1>1. worker[w].pc # "idle"  BY DEF CommandMove
<1>2. FilesTyped /\ Flow /\ t \in Tape  BY <1>1, AtWork
<1>3. Moved(SideFile(t, ".wav"), SideFile(t, ".wav.tmp")) \in [File -> Audio]
  BY <1>1, <1>2, AtWork, DiskTypes DEF Ext
<1>4. FilesTyped'  BY <1>2, <1>3 DEF FilesTyped, CommandMove
<1>5. CASE Exists(SideFile(t, ".wav"))
  <2> DEFINE r == [worker[w] EXCEPT !.pc = "run"]
  <2>1. worker' = [worker EXCEPT ![w] = r]
    BY <1>1, <1>2, <1>5, ThreadRecord DEF CommandMove
  <2>2. r \in WorkerRecord /\ r.tape = t /\ r.pc # "idle"
    BY <1>1, <1>2, ThreadRecord DEF WorkerRecord
  <2>3. UNCHANGED <<fate, queue, told>>  BY <1>5 DEF CommandMove
  <2> HIDE DEF r
  <2> QED  BY <1>1, <1>2, <1>4, <2>1, <2>2, <2>3, Continuing
<1>6. CASE ~Exists(SideFile(t, ".wav"))
  <2>1. GiveUp(t) /\ Rest(w)  BY <1>6 DEF CommandMove
  <2> QED  BY <1>1, <1>2, <1>4, <2>1, Finishing
<1> QED  BY <1>5, <1>6

LEMMA CommandFinishKeeps ==
  ASSUME IInv, NEW w \in Worker, CommandFinish(w)
  PROVE  IInv'
<1> DEFINE t == worker[w].tape
           gsm == [Moved(SideFile(t, ".wav"), SideFile(t, ".gsm.wav")) EXCEPT ![SideFile(t, ".wav.tmp")] = Absent]
<1>1. worker[w].pc # "idle"  BY DEF CommandFinish
<1>2. FilesTyped /\ Flow /\ t \in Tape  BY <1>1, AtWork
<1>3. /\ Moved(SideFile(t, ".wav"), SideFile(t, ".gsm.wav")) \in [File -> Audio]
      /\ SideFile(t, ".wav.tmp") \in File
  BY <1>1, <1>2, AtWork, DiskTypes DEF Ext
<1>4. /\ gsm \in [File -> Audio]
      /\ Removed({SideFile(t, ".wav.tmp")}) \in [File -> Audio]
      /\ disk \in [File -> Audio]
  <2>1. Absent \in Audio  BY <1>2, DiskTypes
  <2>2. gsm \in [File -> Audio]  BY <1>3, <2>1
  <2> QED  BY <1>2, <2>2, DiskTypes DEF FilesTyped
<1>5. disk' \in {disk, gsm, Removed({SideFile(t, ".wav.tmp")})}
  BY DEF CommandFinish
<1>6. tape' \in [Tape -> TapeRecord]
  <2> DEFINE d == [tape[t] EXCEPT !.ext = "long"]
  <2>1. tape' = tape \/ tape' = [tape EXCEPT ![t].ext = "long"]  BY DEF CommandFinish
  <2>2. [tape EXCEPT ![t].ext = "long"] = [tape EXCEPT ![t] = d]  BY <1>2, TapeParts
  <2>3. d \in TapeRecord  BY <1>2, TapeParts DEF TapeRecord, Ext
  <2> HIDE DEF d
  <2> QED  BY <1>2, <2>1, <2>2, <2>3, TapeTypes DEF FilesTyped
<1>7. FilesTyped'
  <2> HIDE DEF gsm
  <2> QED  BY <1>4, <1>5, <1>6 DEF FilesTyped
<1>8. PassOn("CommandProcessing", t) \/ GiveUp(t)  BY DEF CommandFinish
<1>9. Rest(w)  BY DEF CommandFinish
<1> QED  BY <1>1, <1>2, <1>7, <1>8, <1>9, Finishing

-----------------------------------------------------------------------------
(* A thread takes a tape; a recording opens its file, and is given to the chain. *)

LEMMA TakeKeeps ==
  ASSUME IInv, NEW w \in Worker, Take(w)
  PROVE  IInv'
<1> USE ChainAssumption
<1> DEFINE t == Head(queue[w[1]])
           r == [Idle EXCEPT !.pc = "work", !.tape = t]
           q1 == w[1]
<1>1. FilesTyped /\ Flow  BY Split
<1>2. q1 \in Queued  BY DEF Worker, Queued
<1>3. queue[q1] \in Seq(Tape) /\ queue[q1] # <<>>  BY <1>1, <1>2 DEF Flow, FlowTyped, Take
<1>4. /\ t \in Tape /\ t = queue[q1][1] /\ 1 \in DOMAIN queue[q1]
      /\ Tail(queue[q1]) \in Seq(Tape) /\ Len(Tail(queue[q1])) = Len(queue[q1]) - 1
      /\ \A i \in DOMAIN Tail(queue[q1]) :
           i + 1 \in DOMAIN queue[q1] /\ Tail(queue[q1])[i] = queue[q1][i + 1]
      /\ \A i \in DOMAIN queue[q1] :
           i = 1 \/ (i - 1 \in DOMAIN Tail(queue[q1]) /\ Tail(queue[q1])[i - 1] = queue[q1][i])
  BY <1>3
<1>5. r \in WorkerRecord /\ r.tape = t /\ r.pc = "work"
  BY <1>4 DEF Idle, WorkerRecord, AnyFile, AnyIdent, File, Ident, Dir, Ext
<1>6. /\ worker' = [worker EXCEPT ![w] = r]
      /\ queue' = [queue EXCEPT ![q1] = Tail(queue[q1])]
      /\ UNCHANGED <<disk, tape, fate, told>>
      /\ worker[w].pc = "idle"
  BY DEF Take
<1> HIDE DEF t, r, q1
<1>7. /\ worker' \in [Worker -> WorkerRecord] /\ worker'[w] = r
      /\ \A v \in Worker \ {w} : worker'[v] = worker[v]
  BY <1>1, <1>5, <1>6 DEF Flow, FlowTyped
<1>8. /\ queue' \in [Queued -> Seq(Tape)] /\ queue'[q1] = Tail(queue[q1])
      /\ \A q \in Queued \ {q1} : queue'[q] = queue[q]
  BY <1>1, <1>2, <1>4, <1>6 DEF Flow, FlowTyped
<1>9. \A q \in Queued : Len(queue'[q]) <= QueueSize
  <2> SUFFICES ASSUME NEW q \in Queued PROVE Len(queue'[q]) <= QueueSize
    OBVIOUS
  <2>1. Len(queue[q]) <= QueueSize  BY <1>1 DEF Flow, FlowTyped
  <2>2. CASE q = q1
    <3>1. Len(queue[q]) \in Nat  BY <2>2, <1>3
    <3> QED  BY <2>1, <2>2, <3>1, <1>4, <1>8
  <2>3. CASE q # q1  BY <2>1, <2>3, <1>8
  <2> QED  BY <2>2, <2>3
<1>10. FlowTyped'  BY <1>1, <1>6, <1>7, <1>8, <1>9 DEF Flow, FlowTyped
<1>11. ThreadsConsistent'
  BY <1>1, <1>4, <1>5, <1>7 DEF Flow, ThreadsConsistent
<1>12. ToldConsistent'  BY <1>1, <1>6 DEF Flow, ToldConsistent
<1>13. worker[w].tape = NoTape  BY <1>1, <1>6 DEF Flow, ThreadsConsistent
\* Where an element of a new queue was before.
<1> DEFINE Was(q, i) == IF q = q1 THEN i + 1 ELSE i
<1>14. \A q \in Queued : \A i \in DOMAIN queue'[q] :
         Was(q, i) \in DOMAIN queue[q] /\ queue'[q][i] = queue[q][Was(q, i)]
  BY <1>4, <1>8
<1>a. \A q \in Queued : \A i \in DOMAIN queue'[q] : i \in Nat /\ i > 0
  BY <1>8
<1>b. \A q \in Queued, i, j \in Nat : Was(q, i) = Was(q, j) => i = j
  OBVIOUS
<1>c. \A i \in Nat : i > 0 => Was(q1, i) # 1
  OBVIOUS
<1> HIDE DEF Was
<1>15. QueuesDisjoint'
  <2> SUFFICES ASSUME NEW p \in Queued, NEW q \in Queued, NEW i \in DOMAIN queue'[p],
                      NEW j \in DOMAIN queue'[q], queue'[p][i] = queue'[q][j]
               PROVE  p = q /\ i = j
    BY DEF QueuesDisjoint
  <2>1. Was(p, i) \in DOMAIN queue[p] /\ queue'[p][i] = queue[p][Was(p, i)]  BY <1>14
  <2>2. Was(q, j) \in DOMAIN queue[q] /\ queue'[q][j] = queue[q][Was(q, j)]  BY <1>14
  <2>3. p = q /\ Was(p, i) = Was(q, j)
    <3>1. QueuesDisjoint  BY <1>1 DEF Flow, OnePlace
    <3>2. \A k \in DOMAIN queue[p], l \in DOMAIN queue[q] : queue[p][k] = queue[q][l] => p = q /\ k = l
      BY <3>1 DEF QueuesDisjoint
    <3> QED  BY <2>1, <2>2, <3>2
  <2>4. i \in Nat /\ j \in Nat  BY <1>a
  <2> QED  BY <2>3, <2>4, <1>b
\* The head is no longer in a queue.
<1>16. \A q \in Queued : \A i \in DOMAIN queue'[q] : queue'[q][i] # t
  <2> SUFFICES ASSUME NEW q \in Queued, NEW i \in DOMAIN queue'[q], queue'[q][i] = t PROVE FALSE
    OBVIOUS
  <2>1. Was(q, i) \in DOMAIN queue[q] /\ queue'[q][i] = queue[q][Was(q, i)]  BY <1>14
  <2>2. q = q1 /\ Was(q, i) = 1  BY <1>1, <1>2, <1>4, <2>1 DEF Flow, OnePlace, QueuesDisjoint
  <2>3. i \in Nat /\ i > 0  BY <1>a
  <2> QED  BY <2>2, <2>3, <1>c
<1>17. \A v \in Worker : worker[v].tape # t
  BY <1>1, <1>2, <1>4 DEF Flow, OnePlace, NotInBoth
<1>18. ThreadsDisjoint'
  BY <1>1, <1>5, <1>7, <1>17 DEF Flow, OnePlace, ThreadsDisjoint
<1>19. NotInBoth'
  <2> SUFFICES ASSUME NEW v \in Worker, NEW q \in Queued, NEW i \in DOMAIN queue'[q]
               PROVE  worker'[v].tape # queue'[q][i]
    BY DEF NotInBoth
  <2>1. CASE v = w  BY <2>1, <1>5, <1>7, <1>16
  <2>2. CASE v # w
    <3>1. Was(q, i) \in DOMAIN queue[q] /\ queue'[q][i] = queue[q][Was(q, i)]  BY <1>14
    <3> QED  BY <2>2, <3>1, <1>1, <1>7 DEF Flow, OnePlace, NotInBoth
  <2> QED  BY <2>1, <2>2
<1>20. \A u \in Tape : fate'[u] = "waiting" <=> InPlace(u)'
  <2> SUFFICES ASSUME NEW u \in Tape PROVE fate[u] = "waiting" <=> InPlace(u)'
    BY <1>6
  <2>1. fate[u] = "waiting" <=> InPlace(u)  BY <1>1 DEF Flow, OnePlace
  <2>2. ASSUME InPlace(u) PROVE InPlace(u)'
    <3>1. CASE \E v \in Worker : worker[v].tape = u
      <4>1. PICK v \in Worker : worker[v].tape = u  BY <3>1
      <4>2. v # w  BY <1>13, <4>1
      <4> QED  BY <1>7, <4>1, <4>2 DEF InPlace
    <3>2. CASE \E q \in Queued : \E i \in DOMAIN queue[q] : queue[q][i] = u
      <4>0. PICK q \in Queued : \E i \in DOMAIN queue[q] : queue[q][i] = u  BY <3>2
      <4>1. PICK i \in DOMAIN queue[q] : queue[q][i] = u  BY <4>0
      <4>2. CASE q = q1 /\ i = 1  BY <4>1, <4>2, <1>4, <1>5, <1>7 DEF InPlace
      <4>3. CASE q = q1 /\ i # 1  BY <4>1, <4>3, <1>4, <1>8 DEF InPlace
      <4>4. CASE q # q1  BY <4>1, <4>4, <1>8 DEF InPlace
      <4> QED  BY <4>2, <4>3, <4>4
    <3> QED  BY <2>2, <3>1, <3>2 DEF InPlace
  <2>3. ASSUME InPlace(u)' PROVE InPlace(u)
    <3>1. CASE \E v \in Worker : worker'[v].tape = u
      <4>1. PICK v \in Worker : worker'[v].tape = u  BY <3>1
      <4>2. CASE v = w  BY <4>1, <4>2, <1>2, <1>4, <1>5, <1>7 DEF InPlace
      <4>3. CASE v # w  BY <4>1, <4>3, <1>7 DEF InPlace
      <4> QED  BY <4>2, <4>3
    <3>2. CASE \E q \in Queued : \E i \in DOMAIN queue'[q] : queue'[q][i] = u
      <4>0. PICK q \in Queued : \E i \in DOMAIN queue'[q] : queue'[q][i] = u  BY <3>2
      <4>1. PICK i \in DOMAIN queue'[q] : queue'[q][i] = u  BY <4>0
      <4>2. Was(q, i) \in DOMAIN queue[q] /\ queue[q][Was(q, i)] = u  BY <4>1, <1>14
      <4> QED  BY <4>2 DEF InPlace
    <3> QED  BY <2>3, <3>1, <3>2 DEF InPlace
  <2> QED  BY <2>1, <2>2, <2>3
<1>21. OnePlace'  BY <1>15, <1>18, <1>19, <1>20 DEF OnePlace
<1>22. FilesTyped'  BY <1>1, <1>6 DEF FilesTyped
<1> QED  BY <1>10, <1>11, <1>12, <1>21, <1>22, Split, PTL DEF Flow

LEMMA OpenKeeps ==
  ASSUME IInv, NEW t \in Tape, NEW b \in Base, Open(t, b)
  PROVE  IInv'
<1> DEFINE file == Path("mcf", [base |-> b, uid |-> NoTape], ".mcf")
           d == [tape[t] EXCEPT !.id = NotTaken("out", b, ".mcf", t), !.file = file]
<1>1. FilesTyped /\ Flow  BY Split
<1>2. [base |-> b, uid |-> NoTape] \in Ident  BY DEF Ident
<1>3. file \in File  BY <1>1, <1>2, NameTypes DEF Dir, Ext
<1>4. NotTaken("out", b, ".mcf", t) \in Ident  BY <1>1, NameTypes DEF Dir, Ext
<1>5. d \in TapeRecord  BY <1>1, <1>3, <1>4, TapeParts DEF TapeRecord
<1>6. tape' = [tape EXCEPT ![t] = d]  BY <1>1, TapeParts DEF Open
<1>7. disk' \in [File -> Audio]
  <2>1. disk' = Written(file, Part(t))  BY DEF Open
  <2> HIDE DEF file
  <2> QED  BY <1>1, <1>3, <2>1, DiskTypes
<1> HIDE DEF d
<1>8. FilesTyped'  BY <1>1, <1>5, <1>6, <1>7, TapeTypes DEF FilesTyped
<1>9. /\ fate[t] = "new" /\ fate' = [fate EXCEPT ![t] = "recording"]
      /\ UNCHANGED <<queue, worker, told>>
  BY DEF Open
<1>10. fate \in [Tape -> FateName] /\ fate' \in [Tape -> FateName]
  BY <1>1, <1>9 DEF Flow, FlowTyped, FateName
<1>11. FlowTyped'  BY <1>1, <1>9, <1>10 DEF Flow, FlowTyped
<1>12. ToldConsistent'  BY <1>1, <1>9, <1>10 DEF Flow, ToldConsistent
<1>13. OnePlace'
  BY <1>1, <1>9, <1>10 DEF Flow, OnePlace, QueuesDisjoint, ThreadsDisjoint, NotInBoth, InPlace
<1>14. ThreadsConsistent'  BY <1>1, <1>9 DEF Flow, ThreadsConsistent
<1> QED  BY <1>8, <1>11, <1>12, <1>13, <1>14, Split, PTL DEF Flow

LEMMA CloseKeeps ==
  ASSUME IInv, NEW t \in Tape, Close(t)
  PROVE  IInv'
<1> USE ChainAssumption
<1>1. FilesTyped /\ Flow  BY Split
<1>2. Chain[1] \in Processor  OBVIOUS
<1>3. HandsOver(Chain[1], t)  BY DEF Close, HandsOver
<1>4. fate[t] = "recording"  BY DEF Close
<1>5. ~InPlace(t)  BY <1>1, <1>4 DEF Flow, OnePlace
<1>6. tape' \in [Tape -> TapeRecord]  BY <1>1 DEF FilesTyped, Close
<1>7. /\ fate' \in [Tape -> FateName]
      /\ queue' \in [Queued -> Seq(Tape)]
      /\ \A q \in Queued : Len(queue'[q]) <= QueueSize
      /\ told' \in Seq(ToldRecord)
      /\ ToldConsistent'
      /\ QueuesDisjoint'
      /\ \A u \in Tape \ {t} : fate'[u] = fate[u]
      /\ \A u \in Tape \ {t} :
           (\E q \in Queued : \E i \in DOMAIN queue[q] : queue[q][i] = u)
             <=> (\E q \in Queued : \E i \in DOMAIN queue'[q] : queue'[q][i] = u)
      /\ fate'[t] = "waiting" <=> (\E q \in Queued : \E i \in DOMAIN queue'[q] : queue'[q][i] = t)
      /\ \A q \in Queued : \A i \in DOMAIN queue'[q] :
           queue'[q][i] = t \/ (i \in DOMAIN queue[q] /\ queue'[q][i] = queue[q][i])
  <2>1. fate[t] # "reported"  BY <1>4
  <2>2. \A q \in Queued : \A i \in DOMAIN queue[q] : queue[q][i] # t  BY <1>5 DEF InPlace
  <2> QED  BY <1>1, <1>2, <1>3, <1>6, <2>1, <2>2, Entering DEF Flow, OnePlace
<1>8. worker' = worker  BY DEF Close
<1>9. \A v \in Worker : worker[v].tape # t  BY <1>5 DEF InPlace
<1>10. FlowTyped' /\ ThreadsConsistent' /\ ThreadsDisjoint'
  BY <1>1, <1>7, <1>8 DEF Flow, FlowTyped, OnePlace, ThreadsConsistent, ThreadsDisjoint
<1>11. NotInBoth'
  BY <1>1, <1>7, <1>8, <1>9 DEF Flow, OnePlace, NotInBoth
<1>12. \A u \in Tape : fate'[u] = "waiting" <=> InPlace(u)'
  <2> SUFFICES ASSUME NEW u \in Tape PROVE fate'[u] = "waiting" <=> InPlace(u)'
    OBVIOUS
  <2>1. CASE u = t  BY <2>1, <1>7, <1>8, <1>9 DEF InPlace
  <2>2. CASE u # t
    <3>1. fate[u] = "waiting" <=> InPlace(u)  BY <1>1 DEF Flow, OnePlace
    <3> QED  BY <2>2, <3>1, <1>7, <1>8 DEF InPlace
  <2> QED  BY <2>1, <2>2
<1>13. OnePlace'  BY <1>7, <1>10, <1>11, <1>12 DEF OnePlace
<1>14. FilesTyped'
  <2>1. tape[t].file \in File /\ Whole(t) \in Audio  BY <1>1, NameTypes, DiskTypes
  <2>2. disk' = Written(tape[t].file, Whole(t))  BY DEF Close
  <2>3. disk' \in [File -> Audio]  BY <1>1, <2>1, <2>2, DiskTypes
  <2> QED  BY <1>6, <2>3 DEF FilesTyped
<1> QED  BY <1>7, <1>10, <1>13, <1>14, Split, PTL DEF Flow

-----------------------------------------------------------------------------
(* The theorems. *)

LEMMA InitIInv == Init => IInv
<1> USE ChainAssumption
<1> SUFFICES ASSUME Init PROVE IInv
  OBVIOUS
<1>1. AnyIdent \in Ident  BY DEF AnyIdent, Ident
<1>2. AnyFile \in File  BY <1>1 DEF AnyFile, File, Dir, Ext
<1>3. NewTape \in TapeRecord  BY <1>1, <1>2 DEF NewTape, TapeRecord, Dir, Ext
<1>4. Idle \in WorkerRecord /\ Idle.tape = NoTape /\ Idle.pc = "idle"
  BY <1>2 DEF Idle, WorkerRecord
<1>5. Absent \in Audio  BY DEF Absent, Audio
<1>6. FilesTyped  BY <1>3, <1>5 DEF Init, FilesTyped
<1>7. /\ fate \in [Tape -> FateName] /\ queue \in [Queued -> Seq(Tape)]
      /\ \A p \in Queued : queue[p] = <<>>
      /\ worker \in [Worker -> WorkerRecord]
      /\ told = <<>>
  BY <1>4 DEF Init, FateName
<1>8. FlowTyped  BY <1>7 DEF FlowTyped
<1>9. OnePlace
  <2>1. \A p \in Queued : DOMAIN queue[p] = {}  BY <1>7
  <2>2. \A w \in Worker : worker[w].tape = NoTape  BY <1>4 DEF Init
  <2>3. \A t \in Tape : fate[t] # "waiting"  BY DEF Init
  <2> QED  BY <2>1, <2>2, <2>3 DEF OnePlace, QueuesDisjoint, ThreadsDisjoint, NotInBoth, InPlace
<1>10. ThreadsConsistent /\ ToldConsistent
  BY <1>4, <1>7 DEF Init, ThreadsConsistent, ToldConsistent
<1> QED  BY <1>6, <1>8, <1>9, <1>10, Split DEF Flow

LEMMA ProcessKeeps ==
  ASSUME IInv, NEW w \in Worker, Process(w)
  PROVE  IInv'
<1>1. CASE BatchTranscode(w)  BY <1>1, TranscodeKeeps
<1>2. CASE BatchFinish(w) \/ BatchFail(w)  BY <1>2, BatchEndKeeps
<1>3. CASE SideRename(w)  BY <1>3, SideRenameKeeps
<1>4. CASE SideCopy(w) \/ SideFail(w)  BY <1>4, SideEndKeeps
<1>5. CASE NameChoose(w)  BY <1>5, NameChooseKeeps
<1>6. CASE NameRename(w)  BY <1>6, NameRenameKeeps
<1>7. CASE CommandNone(w)  BY <1>7, CommandNoneKeeps
<1>8. CASE CommandMove(w)  BY <1>8, CommandMoveKeeps
<1>9. CASE CommandRun(w)  BY <1>9, CommandRunKeeps
<1>10. CASE CommandFinish(w)  BY <1>10, CommandFinishKeeps
<1> QED  BY <1>1, <1>2, <1>3, <1>4, <1>5, <1>6, <1>7, <1>8, <1>9, <1>10 DEF Process

LEMMA NextIInv == IInv /\ [Next]_vars => IInv'
<1> SUFFICES ASSUME IInv, [Next]_vars PROVE IInv'
  OBVIOUS
<1>1. CASE \E t \in Tape, b \in Base : Open(t, b)  BY <1>1, OpenKeeps
<1>2. CASE \E t \in Tape : Close(t)  BY <1>2, CloseKeeps
<1>3. CASE \E w \in Worker : ThreadStep(w)
  BY <1>3, TakeKeeps, ProcessKeeps DEF ThreadStep
<1>4. CASE UNCHANGED vars
  <2>1. FilesTyped /\ Flow  BY Split
  <2>2. FilesTyped'  BY <1>4, <2>1 DEF vars, FilesTyped
  <2>3. FlowTyped' /\ ThreadsConsistent' /\ ToldConsistent'
    BY <1>4, <2>1 DEF vars, Flow, FlowTyped, ThreadsConsistent, ToldConsistent
  <2>4. OnePlace'
    BY <1>4, <2>1 DEF vars, Flow, OnePlace, QueuesDisjoint, ThreadsDisjoint, NotInBoth, InPlace
  <2> QED  BY <2>2, <2>3, <2>4, Split, PTL DEF Flow
<1> QED  BY <1>1, <1>2, <1>3, <1>4 DEF Next

\* The inductive invariant of the chain: types, places, and the agreement of a
\* thread's state and of the messages told with the fate of the tapes.
THEOREM ChainInvariant == Spec => []IInv
<1>1. IInv /\ [Next]_vars => IInv'
  BY NextIInv
<1>2. QED
  BY <1>1, InitIInv, PTL DEF Spec

\* Whatever the chain, its queues' size and the number of threads, names and
\* files keep their types and no queue exceeds its size.
THEOREM ChainTypeCorrect == Spec => []TypeOK
<1>1. IInv => TypeOK
  BY DEF IInv
<1>2. QED
  BY <1>1, ChainInvariant, PTL

\* A tape the chain is not finished with is in one queue or with one thread: no
\* two threads work on its files, and none is forgotten (RunNextProcessor and
\* the thread handlers).
THEOREM AlwaysInOnePlace == Spec => []OnePlace
<1>1. IInv => OnePlace
  BY DEF IInv
<1>2. QED
  BY <1>1, ChainInvariant, PTL

-----------------------------------------------------------------------------
(* The chain implements TapeFate. *)

\* What a step does to fates and messages: a tape is handed over or given up,
\* or begins to record, or nothing happens to them.
LEMMA FlowStep ==
  ASSUME IInv, [Next]_vars
  PROVE  \/ \E t \in Tape, p \in Processor :
              HandsOver(p, t) /\ fate[t] \in {"waiting", "recording"}
         \/ UNCHANGED <<fate, told>>
         \/ \E t \in Tape : /\ fate[t] = "new" /\ fate' = [fate EXCEPT ![t] = "recording"]
                          /\ UNCHANGED told
<1> USE ChainAssumption
<1>1. CASE \E t \in Tape, b \in Base : Open(t, b)  BY <1>1 DEF Open
<1>2. CASE \E t \in Tape : Close(t)
  <2>1. PICK t \in Tape : Close(t)  BY <1>2
  <2>2. Chain[1] \in Processor  OBVIOUS
  <2> QED  BY <2>1, <2>2 DEF Close, HandsOver
<1>3. CASE \E w \in Worker : Take(w)  BY <1>3 DEF Take
<1>4. ASSUME NEW w \in Worker, worker[w].pc # "idle",
             (\E p \in Processor : PassOn(p, worker[w].tape)) \/ GiveUp(worker[w].tape)
      PROVE  \E t \in Tape, p \in Processor : HandsOver(p, t) /\ fate[t] \in {"waiting", "recording"}
  <2>1. Flow /\ worker[w].tape \in Tape  BY <1>4, AtWork
  <2>2. fate[worker[w].tape] = "waiting"  BY <2>1 DEF Flow, OnePlace, InPlace
  <2>3. \E p \in Processor : HandsOver(p, worker[w].tape)
    BY <1>4, PassingOn DEF HandsOver, Processor
  <2> QED  BY <2>1, <2>2, <2>3
<1>5. CASE \E w \in Worker : Process(w)
  <2>1. PICK w \in Worker : Process(w)  BY <1>5
  <2>2. CASE BatchTranscode(w) \/ SideRename(w) \/ NameChoose(w) \/ CommandRun(w)
    BY <2>2 DEF BatchTranscode, SideRename, NameChoose, CommandRun
  <2>3. CASE BatchFinish(w) \/ BatchFail(w)
    BY <1>4, <2>3 DEF BatchFinish, BatchFail, Processor, Queued
  <2>4. CASE SideCopy(w) \/ SideFail(w)
    BY <1>4, <2>4 DEF SideCopy, SideFail, Processor, Queued
  <2>5. CASE NameRename(w)
    BY <1>4, <2>5 DEF NameRename, Processor, Queued
  <2>6. CASE CommandNone(w)
    BY <1>4, <2>6 DEF CommandNone, Processor, Queued
  <2>7. CASE CommandMove(w)
    BY <1>4, <2>7 DEF CommandMove, Processor, Queued
  <2>8. CASE CommandFinish(w)
    BY <1>4, <2>8 DEF CommandFinish, Processor, Queued
  <2> QED  BY <2>1, <2>2, <2>3, <2>4, <2>5, <2>6, <2>7, <2>8 DEF Process
<1>6. CASE UNCHANGED vars  BY <1>6 DEF vars
<1> QED  BY <1>1, <1>2, <1>3, <1>5, <1>6 DEF Next, ThreadStep

waitingBar == {t \in Tape : fate[t] = "waiting"}
droppedBar == {t \in Tape : fate[t] = "dropped"}
toldBar == [i \in DOMAIN told |-> told[i].tape]

\* A sequence one longer than s that agrees with it and ends in x is Append(s, x).
LEMMA AppendIsExtension ==
  ASSUME NEW S, NEW s \in Seq(S), NEW f \in Seq(S), Len(f) = Len(s) + 1,
         \A i \in 1..Len(s) : f[i] = s[i], f[Len(s) + 1] \in S
  PROVE  f = Append(s, f[Len(s) + 1])
<1> DEFINE x == f[Len(s) + 1]
           g == Append(s, x)
<1>1. /\ g \in Seq(S) /\ Len(g) = Len(s) + 1 /\ g[Len(s) + 1] = x
      /\ \A i \in 1..Len(s) : g[i] = s[i]
  BY AppendProperties
<1>2. \A i \in 1..Len(f) : f[i] = g[i]
  <2> SUFFICES ASSUME NEW i \in 1..Len(f) PROVE f[i] = g[i]
    OBVIOUS
  <2>1. i \in 1..Len(s) \/ i = Len(s) + 1  BY LenProperties
  <2> QED  BY <1>1, <2>1
<1> QED  BY <1>1, <1>2, SeqEqual

\* A tape handed over by the chain's code is, in TapeFate, given, dropped or reported.
LEMMA HandingMaps ==
  ASSUME IInv, IInv', NEW t \in Tape, NEW p \in Processor, HandsOver(p, t),
         fate[t] \in {"waiting", "recording"}
  PROVE  [Fate!FateNext]_<<waitingBar, droppedBar, toldBar>>
<1>1. /\ fate \in [Tape -> FateName] /\ told \in Seq(ToldRecord) /\ ToldConsistent
      /\ told' \in Seq(ToldRecord)
  <2>1. Flow  BY Split
  <2>2. Flow'  BY Split, PTL
  <2> QED  BY <2>1, <2>2 DEF Flow, FlowTyped
<1>2. fate[t] = "waiting" <=> t \in waitingBar  BY DEF waitingBar
<1>3. fate[t] = "recording" => ~Fate!Known(t)
  BY <1>1 DEF Fate!Known, ToldConsistent
<1>4. CASE fate' = [fate EXCEPT ![t] = "dropped"] /\ UNCHANGED told
  <2>1. droppedBar' = droppedBar \cup {t}  BY <1>1, <1>4 DEF droppedBar
  <2>2. waitingBar' = waitingBar \ {t}  BY <1>1, <1>4 DEF waitingBar
  <2>3. toldBar' = toldBar  BY <1>4 DEF toldBar
  <2>4. CASE fate[t] = "waiting"
    <3>1. Fate!Drop(t)  BY <1>2, <2>1, <2>2, <2>3, <2>4 DEF Fate!Drop, waitingBar, droppedBar, toldBar
    <3> QED  BY <3>1 DEF Fate!FateNext
  <2>5. CASE fate[t] = "recording"
    <3>1. waitingBar' = waitingBar  BY <2>2, <2>5 DEF waitingBar
    <3>2. Fate!Refuse(t)  BY <1>3, <2>1, <2>3, <2>5, <3>1 DEF Fate!Refuse, waitingBar, droppedBar, toldBar
    <3> QED  BY <3>2 DEF Fate!FateNext
  <2> QED  BY <2>4, <2>5
<1>5. CASE fate' = [fate EXCEPT ![t] = "waiting"] /\ UNCHANGED told
  <2>1. droppedBar' = droppedBar  BY <1>1, <1>5 DEF droppedBar
  <2>2. waitingBar' = waitingBar \cup {t}  BY <1>1, <1>5 DEF waitingBar
  <2>3. toldBar' = toldBar  BY <1>5 DEF toldBar
  <2>4. CASE fate[t] = "waiting"
    <3>1. waitingBar' = waitingBar  BY <2>2, <2>4 DEF waitingBar
    <3> QED  BY <2>1, <2>3, <3>1
  <2>5. CASE fate[t] = "recording"
    <3>2. Fate!Give(t)  BY <1>3, <2>1, <2>2, <2>3, <2>5 DEF Fate!Give, waitingBar, droppedBar, toldBar
    <3> QED  BY <3>2 DEF Fate!FateNext
  <2> QED  BY <2>4, <2>5
<1>6. CASE /\ fate' = [fate EXCEPT ![t] = "reported"]
           /\ told' = Append(told, [tape |-> t, file |-> FileName(t)])
  <2> DEFINE r == [tape |-> t, file |-> FileName(t)]
  <2>1. droppedBar' = droppedBar  BY <1>1, <1>6 DEF droppedBar
  <2>2. waitingBar' = waitingBar \ {t}  BY <1>1, <1>6 DEF waitingBar
  <2>3. toldBar' = Append(toldBar, t)
    <3>1. r.tape = t  OBVIOUS
    <3> HIDE DEF r
    <3>2. told' = Append(told, r)  BY <1>6 DEF r
    <3>3. Len(told) \in Nat /\ DOMAIN told = 1..Len(told)  BY <1>1
    <3>4. DOMAIN told' = 1..(Len(told) + 1)  BY <1>1, <3>2, <3>3
    <3>5. \A i \in 1..Len(told) : told'[i] = told[i]  BY <1>1, <3>2, <3>3
    <3>6. told'[Len(told) + 1] = r  BY <1>1, <3>2, <3>3
    <3>7. \A i \in 1..Len(told) : told[i].tape \in Tape
      <4> SUFFICES ASSUME NEW i \in 1..Len(told) PROVE told[i].tape \in Tape
        OBVIOUS
      <4>1. told[i] \in ToldRecord
        <5> HIDE DEF ToldRecord
        <5> QED  BY <1>1, <3>3
      <4> QED  BY <4>1 DEF ToldRecord
    <3>8. toldBar = [i \in 1..Len(told) |-> told[i].tape]  BY <3>3 DEF toldBar
    <3>9. toldBar \in Seq(Tape) /\ Len(toldBar) = Len(told)
      BY <3>3, <3>7, <3>8
    <3>10. toldBar' = [i \in 1..(Len(told) + 1) |-> told'[i].tape]  BY <3>4 DEF toldBar
    <3>11. \A i \in 1..Len(told) : toldBar'[i] = toldBar[i]
      <4> SUFFICES ASSUME NEW i \in 1..Len(told) PROVE toldBar'[i] = toldBar[i]
        OBVIOUS
      <4>1. i \in 1..(Len(told) + 1)  BY <3>3
      <4> QED  BY <4>1, <3>5, <3>8, <3>10
    <3>12. toldBar'[Len(told) + 1] = t
      <4>1. Len(told) + 1 \in 1..(Len(told) + 1)  BY <3>3
      <4> QED  BY <4>1, <3>1, <3>6, <3>10
    <3>13. toldBar' \in Seq(Tape) /\ Len(toldBar') = Len(told) + 1
      <4>1. \A i \in 1..(Len(told) + 1) : told'[i].tape \in Tape
        BY <3>1, <3>3, <3>5, <3>6, <3>7
      <4> QED  BY <3>3, <3>10, <4>1
    <3> QED  BY <3>9, <3>11, <3>12, <3>13, AppendIsExtension
  <2>4. CASE fate[t] = "waiting"
    <3>1. Fate!Report(t)  BY <1>2, <2>1, <2>2, <2>3, <2>4 DEF Fate!Report, waitingBar, droppedBar, toldBar
    <3> QED  BY <3>1 DEF Fate!FateNext
  <2>5. CASE fate[t] = "recording"
    <3>1. waitingBar' = waitingBar  BY <2>2, <2>5 DEF waitingBar
    <3>2. Fate!Forward(t)  BY <1>3, <2>1, <2>3, <2>5, <3>1 DEF Fate!Forward, waitingBar, droppedBar, toldBar
    <3> QED  BY <3>2 DEF Fate!FateNext
  <2> QED  BY <2>4, <2>5
<1> QED  BY <1>4, <1>5, <1>6 DEF HandsOver, Enter, GiveUp

\* The processing chain keeps the promise of TapeFate: of a tape it was given,
\* one ready message is sent, or it is given up, and never both.
THEOREM ChainRefinement == Spec => ImplementsFate
<1>1. Init => Fate!FateInit
  BY DEF Init, Fate!FateInit
<1>2. IInv /\ IInv' /\ [Next]_vars => [Fate!FateNext]_<<waitingBar, droppedBar, toldBar>>
  <2> SUFFICES ASSUME IInv, IInv', [Next]_vars
               PROVE  [Fate!FateNext]_<<waitingBar, droppedBar, toldBar>>
    OBVIOUS
  <2>1. fate \in [Tape -> FateName]
    BY Split DEF Flow, FlowTyped
  <2>2. CASE \E t \in Tape, p \in Processor : HandsOver(p, t) /\ fate[t] \in {"waiting", "recording"}
    BY <2>2, HandingMaps
  <2>3. CASE UNCHANGED <<fate, told>>
    BY <2>3 DEF waitingBar, droppedBar, toldBar
  <2>4. CASE \E t \in Tape : /\ fate[t] = "new" /\ fate' = [fate EXCEPT ![t] = "recording"]
                           /\ UNCHANGED told
    <3>1. waitingBar' = waitingBar /\ droppedBar' = droppedBar  BY <2>1, <2>4 DEF waitingBar, droppedBar
    <3>2. toldBar' = toldBar  BY <2>4 DEF toldBar
    <3> QED  BY <3>1, <3>2
  <2> QED  BY <2>2, <2>3, <2>4, FlowStep
<1>3. QED
  BY <1>1, <1>2, ChainInvariant, PTL
  DEF Spec, ImplementsFate, Fate!FateSpec, waitingBar, droppedBar, toldBar

-----------------------------------------------------------------------------
(* The audio.                                                                *)

\* The settings under which no recording loses its audio: no two recordings of a port begin
\* in one second, failed capture files are kept, transcoding comes first, sides are not
\* selected, final names cannot be taken for capture names, and audio is not both named
\* anew and set aside by a command, or replaced by its output.
Careful ==
  /\ DistinctNames /\ ~DeleteFailedCaptureFile
  /\ Chain[1] = "BatchProcessing" /\ \A i \in DOMAIN Chain : Chain[i] # "DirectionSelector"
  /\ Base \cap FinalBase = {}
  /\ Command # "in" /\ (NamingScheme => Command = "none")

\* The files of a tape are of two identifiers: the one of its second and port, with its
\* uid or without, and the one it has now.
BaseOf(t) == tape[t].file.id.base
BaseFile(b) == Path("mcf", [base |-> b, uid |-> NoTape], ".mcf")
Mine(t) == {f \in File : f.id.base = BaseOf(t) \/ f.id = tape[t].id}
Wav(t) == Path("out", tape[t].id, ".wav")
Aside(t) == Path("out", tape[t].id, ".wav.tmp")
Unnamed(t) == tape[t].id.base = BaseOf(t)

\* No two tapes have an identifier in common.
NamesInv ==
  /\ \A t \in Tape : tape[t].ext = ".wav"
  /\ \A t \in Tape : fate[t] # "new" =>
       /\ BaseOf(t) \in Base /\ tape[t].file = BaseFile(BaseOf(t))
       /\ tape[t].id.uid \in {NoTape, t}
       /\ Unnamed(t) \/ (NamingScheme /\ tape[t].id.base \in FinalBase)
  /\ \A t \in Tape : fate[t] = "recording" => Unnamed(t)
  /\ \A t, u \in Tape : fate[t] # "new" /\ fate[u] # "new" /\ t # u =>
       BaseOf(t) # BaseOf(u) /\ tape[t].id # tape[u].id

\* The audio of a tape is in its capture file, or in what was made of it.
Captured(t) == disk[tape[t].file] = Whole(t) /\ Unnamed(t)
HasAside(t) == Command = "plain" /\ disk[Aside(t)] = Whole(t) /\ disk[Wav(t)] = Absent
Beyond(t) == tape[t].dir = "out" /\ (disk[Wav(t)] = Whole(t) \/ HasAside(t))

\* A tape that is ready for a processor; it is named once.
Fit(p, t) ==
  \/ p = "BatchProcessing" /\ Captured(t)
  \/ p = "TapeFileNaming" /\ Beyond(t) /\ Unnamed(t)
  \/ /\ p = "CommandProcessing" /\ Beyond(t)
     /\ "TapeFileNaming" \in NextProcessor(p) => Unnamed(t)

\* Where the audio of a tape is that a thread has transcoded, is renaming or has set aside.
Transcoded(w, t) ==
  /\ w[1] = "BatchProcessing" /\ worker[w].pc = "done" /\ Unnamed(t) /\ tape[t].dir = "out"
  /\ IF worker[w].got = "audio" THEN disk[Wav(t)] = Whole(t) ELSE disk[tape[t].file] = Whole(t)
Renaming(w, t) ==
  /\ w[1] = "TapeFileNaming" /\ worker[w].pc = "rename" /\ tape[t].dir = "out"
  /\ \/ worker[w].from = Wav(t) /\ Beyond(t)
     \/ /\ worker[w].from.id.base = BaseOf(t) /\ disk[worker[w].from] = Whole(t)
        /\ tape[t].id.base \in FinalBase
Setting(w, t) ==
  w[1] = "CommandProcessing" /\ worker[w].pc \in {"run", "ran"} /\ tape[t].dir = "out" /\ HasAside(t)
InHand(w, t) ==
  \/ worker[w].pc = "work" /\ Fit(w[1], t)
  \/ Transcoded(w, t) \/ Renaming(w, t) \/ Setting(w, t)

\* Wherever a tape is, its audio is where it is looked for: in the queues, with the
\* threads, and when the chain is finished with it.
QueuesFit == \A p \in Queued : \A i \in DOMAIN queue[p] : Fit(p, queue[p][i])
HandsFit == \A w \in Worker : worker[w].pc # "idle" => InHand(w, worker[w].tape)
EndsFit ==
  /\ \A t \in Tape : fate[t] = "reported" => Beyond(t)
  /\ \A t \in Tape : fate[t] = "dropped" => Beyond(t) \/ Captured(t)
ToldFit == \A i \in DOMAIN told : told[i].file = Wav(told[i].tape)
AudioInv == QueuesFit /\ HandsFit /\ EndsFit /\ ToldFit

\* Files of identifiers a tape has, and the audio of tapes.
LEMMA TapeFiles ==
  ASSUME FilesTyped, NEW t \in Tape
  PROVE  /\ tape[t].file \in Mine(t) /\ Wav(t) \in Mine(t) /\ Aside(t) \in Mine(t)
         /\ Wav(t) # Aside(t) /\ Mine(t) \subseteq File
         /\ Whole(t) # Absent /\ \A u \in Tape : Whole(t) = Whole(u) => t = u
         /\ OutFile(t) = Wav(t)
         /\ tape[t].dir = "out" => SideFile(t, ".wav") = Wav(t) /\ SideFile(t, ".wav.tmp") = Aside(t)
<1> USE ChainAssumption
<1>1. tape[t].id \in Ident /\ tape[t].file \in File /\ tape[t].file.id.base = BaseOf(t)
  BY TapeParts DEF BaseOf
<1>2. Wav(t) \in File /\ Wav(t).id = tape[t].id /\ Aside(t) \in File /\ Aside(t).id = tape[t].id
  BY <1>1 DEF Wav, Aside, Path, File, Dir, Ext
<1>3. Wav(t).ext = ".wav" /\ Aside(t).ext = ".wav.tmp"
  BY DEF Wav, Aside, Path
<1>4. Whole(t) # Absent /\ \A u \in Tape : Whole(t) = Whole(u) => t = u
  <2>1. Whole(t).of = t /\ \A u \in Tape : Whole(u).of = u
    BY DEF Whole
  <2>2. Absent.of = NoTape
    BY DEF Absent
  <2> QED
    BY <2>1, <2>2
<1>5. OutFile(t) = Wav(t)
  BY DEF OutFile, Wav
<1>6. tape[t].dir = "out" => SideFile(t, ".wav") = Wav(t) /\ SideFile(t, ".wav.tmp") = Aside(t)
  BY DEF SideFile, Wav, Aside
<1> QED
  BY <1>1, <1>2, <1>3, <1>4, <1>5, <1>6 DEF Mine

\* The capture file is none of the files made of it.
LEMMA CaptureFile ==
  ASSUME FilesTyped, NamesInv, NEW t \in Tape, fate[t] # "new"
  PROVE  tape[t].file # Wav(t) /\ tape[t].file # Aside(t)
<1>1. tape[t].file.ext = ".mcf"
  <2>1. tape[t].file = BaseFile(BaseOf(t))
    BY DEF NamesInv
  <2>2. \A b : BaseFile(b).ext = ".mcf"
    BY DEF BaseFile, Path
  <2> QED
    BY <2>1, <2>2
<1>2. Wav(t).ext = ".wav" /\ Aside(t).ext = ".wav.tmp"
  BY DEF Wav, Aside, Path
<1> QED
  BY <1>1, <1>2

\* No file is two tapes'.
LEMMA Disjoint ==
  ASSUME Careful, NamesInv, NEW t \in Tape, NEW u \in Tape, t # u, fate[t] # "new", fate[u] # "new"
  PROVE  Mine(t) \cap Mine(u) = {}
<1>1. /\ BaseOf(t) \in Base /\ BaseOf(u) \in Base /\ BaseOf(t) # BaseOf(u) /\ tape[t].id # tape[u].id
      /\ tape[t].id.base = BaseOf(t) \/ tape[t].id.base \in FinalBase
      /\ tape[u].id.base = BaseOf(u) \/ tape[u].id.base \in FinalBase
  BY DEF NamesInv, Unnamed
<1>2. Base \cap FinalBase = {}
  BY DEF Careful
<1> SUFFICES ASSUME NEW f \in Mine(t), f \in Mine(u) PROVE FALSE
  OBVIOUS
<1>3. (f.id.base = BaseOf(t) \/ f.id = tape[t].id) /\ (f.id.base = BaseOf(u) \/ f.id = tape[u].id)
  BY DEF Mine
<1> QED
  BY <1>1, <1>2, <1>3

\* A step that leaves a tape and all its files alone.
Undisturbed(t) == tape'[t] = tape[t] /\ \A f \in Mine(t) : disk'[f] = disk[f]

LEMMA StaysThere ==
  ASSUME FilesTyped, NEW t \in Tape, Undisturbed(t)
  PROVE  /\ Captured(t) => Captured(t)'
         /\ HasAside(t) => HasAside(t)'
         /\ Beyond(t) => Beyond(t)'
         /\ \A p : Fit(p, t) => Fit(p, t)'
         /\ Unnamed(t)' = Unnamed(t) /\ Wav(t)' = Wav(t) /\ BaseOf(t)' = BaseOf(t)
<1>1. /\ tape'[t] = tape[t]
      /\ disk'[tape[t].file] = disk[tape[t].file]
      /\ disk'[Wav(t)] = disk[Wav(t)] /\ disk'[Aside(t)] = disk[Aside(t)]
  BY TapeFiles DEF Undisturbed
<1>2. Wav(t)' = Wav(t) /\ Aside(t)' = Aside(t) /\ Unnamed(t)' = Unnamed(t) /\ BaseOf(t)' = BaseOf(t)
  BY <1>1 DEF Wav, Aside, Unnamed, BaseOf
<1>3. disk'[Wav(t)'] = disk[Wav(t)] /\ disk'[Aside(t)'] = disk[Aside(t)]
  BY <1>1, <1>2
<1>4. Captured(t) => Captured(t)'
  BY <1>1, <1>2 DEF Captured
<1>5. HasAside(t) => HasAside(t)'
  BY <1>3 DEF HasAside
<1>6. Beyond(t) => Beyond(t)'
  BY <1>1, <1>3, <1>5 DEF Beyond
<1>7. \A p : Fit(p, t) => Fit(p, t)'
  BY <1>2, <1>4, <1>6 DEF Fit, NextProcessor
<1> QED
  BY <1>2, <1>4, <1>5, <1>6, <1>7

LEMMA StaysInHand ==
  ASSUME FilesTyped, NEW t \in Tape, Undisturbed(t), NEW v \in Worker, worker'[v] = worker[v],
         worker[v].from \in File, InHand(v, t)
  PROVE  InHand(v, t)'
<1>1. /\ Captured(t) => Captured(t)'
      /\ HasAside(t) => HasAside(t)'
      /\ Beyond(t) => Beyond(t)'
      /\ \A p : Fit(p, t) => Fit(p, t)'
      /\ Unnamed(t)' = Unnamed(t) /\ Wav(t)' = Wav(t) /\ BaseOf(t)' = BaseOf(t)
  BY StaysThere
<1>2. /\ tape'[t] = tape[t] /\ tape[t].file \in Mine(t) /\ Wav(t) \in Mine(t)
      /\ \A f \in Mine(t) : disk'[f] = disk[f]
  BY TapeFiles DEF Undisturbed
<1>3. CASE worker[v].pc = "work" /\ Fit(v[1], t)
  BY <1>1, <1>3 DEF InHand
<1>4. CASE Transcoded(v, t)
  <2>1. disk'[Wav(t)'] = disk[Wav(t)] /\ disk'[tape'[t].file] = disk[tape[t].file]
    BY <1>1, <1>2
  <2>2. Transcoded(v, t)'
    BY <1>1, <1>2, <1>4, <2>1 DEF Transcoded
  <2> QED
    BY <2>2 DEF InHand
<1>5. CASE Renaming(v, t)
  <2>1. worker[v].from.id.base = BaseOf(t) => worker[v].from \in Mine(t)
    BY DEF Mine
  <2>2. worker[v].from.id.base = BaseOf(t) => disk'[worker'[v].from] = disk[worker[v].from]
    BY <1>2, <2>1
  <2>3. Renaming(v, t)'
    BY <1>1, <1>2, <1>5, <2>2 DEF Renaming
  <2> QED
    BY <2>3 DEF InHand
<1>6. CASE Setting(v, t)
  <2>1. Setting(v, t)'
    BY <1>1, <1>2, <1>6 DEF Setting
  <2> QED
    BY <2>1 DEF InHand
<1> QED
  BY <1>3, <1>4, <1>5, <1>6 DEF InHand

\* A step that changes one tape's record and files of this tape only disturbs no other.
LEMMA OthersUndisturbed ==
  ASSUME Careful, FilesTyped, NamesInv, NEW u \in Tape, fate[u] # "new",
         \A t \in Tape \ {u} : tape'[t] = tape[t],
         \A f \in File \ Mine(u) : disk'[f] = disk[f]
  PROVE  \A t \in Tape \ {u} : fate[t] # "new" => Undisturbed(t)
<1> SUFFICES ASSUME NEW t \in Tape \ {u}, fate[t] # "new" PROVE Undisturbed(t)
  OBVIOUS
<1>1. Mine(t) \cap Mine(u) = {}
  BY Disjoint
<1>2. Mine(t) \subseteq File
  BY DEF Mine
<1> QED
  BY <1>1, <1>2 DEF Undisturbed

\* A step that keeps names and files of all tapes, and starts no tape, keeps NamesInv.
LEMMA NamesKept ==
  ASSUME NamesInv,
         \A t \in Tape : /\ tape'[t].ext = tape[t].ext /\ tape'[t].file = tape[t].file
                         /\ tape'[t].id = tape[t].id,
         \A t \in Tape : fate'[t] # "new" => fate[t] # "new",
         \A t \in Tape : fate'[t] = "recording" => fate[t] = "recording"
  PROVE  NamesInv'
<1>1. \A t \in Tape : BaseOf(t)' = BaseOf(t) /\ Unnamed(t)' = Unnamed(t)
  BY DEF BaseOf, Unnamed
<1>2. \A b : BaseFile(b)' = BaseFile(b)
  BY DEF BaseFile, Path
<1> QED
  BY <1>1, <1>2 DEF NamesInv

\* The tapes in queues, with threads and in messages are not new, and whose they are.
LEMMA Placed ==
  ASSUME IInv
  PROVE  /\ \A p \in Queued : \A i \in DOMAIN queue[p] :
              queue[p][i] \in Tape /\ fate[queue[p][i]] = "waiting"
         /\ \A w \in Worker : worker[w].pc # "idle" =>
              /\ worker[w].tape \in Tape /\ fate[worker[w].tape] = "waiting" /\ worker[w].from \in File
              /\ \A p \in Queued : \A i \in DOMAIN queue[p] : queue[p][i] # worker[w].tape
              /\ \A v \in Worker \ {w} : worker[v].tape # worker[w].tape
         /\ \A i \in DOMAIN told : told[i].tape \in Tape /\ fate[told[i].tape] = "reported"
<1>1. Flow
  BY Split
<1>2. \A p \in Queued : \A i \in DOMAIN queue[p] : queue[p][i] \in Tape
  BY <1>1 DEF Flow, FlowTyped
<1>3. \A p \in Queued : \A i \in DOMAIN queue[p] : fate[queue[p][i]] = "waiting"
  <2> SUFFICES ASSUME NEW p \in Queued, NEW i \in DOMAIN queue[p] PROVE fate[queue[p][i]] = "waiting"
    OBVIOUS
  <2>1. PICK t \in Tape : t = queue[p][i]
    BY <1>2
  <2>2. InPlace(t)
    BY <2>1 DEF InPlace
  <2> QED
    BY <1>1, <2>1, <2>2 DEF Flow, OnePlace
<1>4. ASSUME NEW w \in Worker, worker[w].pc # "idle"
      PROVE  /\ worker[w].tape \in Tape /\ fate[worker[w].tape] = "waiting" /\ worker[w].from \in File
             /\ \A p \in Queued : \A i \in DOMAIN queue[p] : queue[p][i] # worker[w].tape
             /\ \A v \in Worker \ {w} : worker[v].tape # worker[w].tape
  <2>1. worker[w].tape \in Tape /\ worker[w].from \in File
    BY <1>1, <1>4, ThreadRecord
  <2>2. PICK t \in Tape : t = worker[w].tape
    BY <2>1
  <2>3. t # NoTape
    BY ChainAssumption
  <2>4. InPlace(t)
    BY <2>2 DEF InPlace
  <2> QED
    BY <1>1, <2>1, <2>2, <2>3, <2>4 DEF Flow, OnePlace, NotInBoth, ThreadsDisjoint
<1>5. \A i \in DOMAIN told : told[i].tape \in Tape /\ fate[told[i].tape] = "reported"
  <2>1. told \in Seq(ToldRecord) /\ ToldConsistent
    BY <1>1 DEF Flow, FlowTyped
  <2>2. \A i \in DOMAIN told : told[i] \in ToldRecord
    <3> HIDE DEF ToldRecord
    <3> QED
      BY <2>1
  <2> QED
    BY <2>1, <2>2 DEF ToldRecord, ToldConsistent
<1> QED
  BY <1>2, <1>3, <1>4, <1>5

\* A thread that goes on with its tape.
LEMMA GoesOnAudio ==
  ASSUME IInv, AudioInv, NEW w \in Worker, worker[w].pc # "idle",
         NEW u \in Tape, u = worker[w].tape, u = worker'[w].tape, InHand(w, u)',
         \A t \in Tape \ {u} : fate[t] # "new" => Undisturbed(t),
         \A v \in Worker \ {w} : worker'[v] = worker[v], UNCHANGED <<fate, queue, told>>
  PROVE  AudioInv'
<1>1. FilesTyped
  BY Split
<1>2. /\ fate[u] = "waiting"
      /\ \A q \in Queued : \A i \in DOMAIN queue[q] : queue[q][i] # u
      /\ \A v \in Worker \ {w} : worker[v].tape # u
  <2>1. /\ fate[worker[w].tape] = "waiting"
        /\ \A q \in Queued : \A i \in DOMAIN queue[q] : queue[q][i] # worker[w].tape
        /\ \A v \in Worker \ {w} : worker[v].tape # worker[w].tape
    BY Placed
  <2> QED
    BY <2>1
<1>3. QueuesFit'
  <2> SUFFICES ASSUME NEW p \in Queued, NEW i \in DOMAIN queue[p] PROVE Fit(p, queue[p][i])'
    BY DEF QueuesFit
  <2>1. PICK t \in Tape : t = queue[p][i]
    BY Placed
  <2>2. t # u /\ fate[t] # "new"
    BY <1>2, <2>1, Placed
  <2>3. Fit(p, t)
    BY <2>1 DEF AudioInv, QueuesFit
  <2>4. Fit(p, t)'
    BY <1>1, <2>2, <2>3, StaysThere
  <2> QED
    BY <2>1, <2>4
<1>4. HandsFit'
  <2> SUFFICES ASSUME NEW v \in Worker, worker'[v].pc # "idle" PROVE InHand(v, worker[v].tape)'
    BY DEF HandsFit
  <2>1. CASE v = w
    <3>1. PICK x \in Tape : x = u
      OBVIOUS
    <3>2. InHand(w, x)' /\ worker'[w].tape = x
      BY <3>1
    <3> QED
      BY <2>1, <3>2
  <2>2. CASE v # w
    <3>1. worker'[v] = worker[v] /\ worker[v].pc # "idle"
      BY <2>2
    <3>2. PICK t \in Tape : t = worker[v].tape
      BY <3>1, Placed
    <3>3. t # u /\ fate[t] # "new" /\ worker[v].from \in File
      BY <1>2, <2>2, <3>1, <3>2, Placed
    <3>4. InHand(v, t)
      BY <3>1, <3>2 DEF AudioInv, HandsFit
    <3>5. InHand(v, t)'
      BY <1>1, <3>1, <3>3, <3>4, StaysInHand
    <3> QED
      BY <3>1, <3>2, <3>5
  <2> QED
    BY <2>1, <2>2
<1>5. EndsFit'
  <2> SUFFICES ASSUME NEW t \in Tape
               PROVE  /\ fate[t] = "reported" => Beyond(t)'
                      /\ fate[t] = "dropped" => Beyond(t)' \/ Captured(t)'
    BY DEF EndsFit
  <2>1. CASE fate[t] \in {"reported", "dropped"}
    <3>1. t # u /\ fate[t] # "new"
      BY <1>2, <2>1
    <3> QED
      BY <1>1, <3>1, StaysThere DEF AudioInv, EndsFit
  <2> QED
    BY <2>1
<1>6. ToldFit'
  <2> SUFFICES ASSUME NEW i \in DOMAIN told PROVE told[i].file = Wav(told[i].tape)'
    BY DEF ToldFit
  <2>1. PICK t \in Tape : t = told[i].tape
    BY Placed
  <2>2. t # u /\ fate[t] # "new"
    BY <1>2, <2>1, Placed
  <2>3. told[i].file = Wav(t)
    BY <2>1 DEF AudioInv, ToldFit
  <2>4. Wav(t)' = Wav(t)
    BY <1>1, <2>2, StaysThere
  <2> QED
    BY <2>1, <2>3, <2>4
<1> QED
  BY <1>3, <1>4, <1>5, <1>6 DEF AudioInv

\* A tape that comes to a processor, is reported or given up; threads aside.
LEMMA Landing ==
  ASSUME IInv, IInv', AudioInv, NamesInv', NEW u \in Tape, NEW p \in Processor,
         fate[u] \in {"waiting", "recording"},
         \A q \in Queued : \A i \in DOMAIN queue[q] : queue[q][i] # u,
         \/ Enter(p, u) /\ (IF p = "Reporting" THEN Beyond(u)' ELSE Fit(p, u)')
         \/ GiveUp(u) /\ (Beyond(u)' \/ Captured(u)'),
         \A t \in Tape \ {u} : fate[t] # "new" => Undisturbed(t)
  PROVE  QueuesFit' /\ EndsFit' /\ ToldFit'
<1>1. FilesTyped /\ Flow
  BY Split
<1>0. tape' \in [Tape -> TapeRecord]
  <2>1. FilesTyped'
    BY Split, PTL
  <2> QED
    BY <2>1 DEF FilesTyped
<1>2. HandsOver(p, u)
  BY DEF HandsOver
<1>3. /\ \A t \in Tape \ {u} : fate'[t] = fate[t]
      /\ \A q \in Queued : \A i \in DOMAIN queue'[q] :
           queue'[q][i] = u \/ (i \in DOMAIN queue[q] /\ queue'[q][i] = queue[q][i])
  BY <1>0, <1>1, <1>2, Entering DEF Flow, OnePlace
<1>4. p # "Reporting" => (Fit(p, u)' => Beyond(u)' \/ Captured(u)')
  BY DEF Fit
<1>5. QueuesFit'
  <2> SUFFICES ASSUME NEW q \in Queued, NEW i \in DOMAIN queue'[q] PROVE Fit(q, queue[q][i])'
    BY DEF QueuesFit
  <2>1. CASE i \in DOMAIN queue[q] /\ queue'[q][i] = queue[q][i]
    <3>1. PICK t \in Tape : t = queue[q][i]
      BY <2>1, Placed
    <3>2. t # u /\ fate[t] # "new"
      BY <2>1, <3>1, Placed
    <3>3. Fit(q, t)
      BY <2>1, <3>1 DEF AudioInv, QueuesFit
    <3>4. Fit(q, t)'
      BY <1>1, <3>2, <3>3, StaysThere
    <3> QED
      BY <2>1, <3>1, <3>4
  <2>2. CASE ~(i \in DOMAIN queue[q] /\ queue'[q][i] = queue[q][i])
    <3>1. queue'[q][i] = u
      BY <1>3, <2>2
    <3>2. queue' # queue
      BY <2>2
    <3>3. p \in Queued /\ queue' = [queue EXCEPT ![p] = Append(@, u)] /\ Fit(p, u)'
      BY <3>2 DEF Enter, GiveUp, Queued
    <3>4. q = p
      BY <1>1, <2>2, <3>3 DEF Flow, FlowTyped
    <3>5. PICK t \in Tape : t = u
      OBVIOUS
    <3>6. Fit(q, t)' /\ queue'[q][i] = t
      BY <3>1, <3>3, <3>4, <3>5
    <3> QED
      BY <3>6
  <2> QED
    BY <2>1, <2>2
<1>6. EndsFit'
  <2> SUFFICES ASSUME NEW t \in Tape
               PROVE  /\ fate'[t] = "reported" => Beyond(t)'
                      /\ fate'[t] = "dropped" => Beyond(t)' \/ Captured(t)'
    BY DEF EndsFit
  <2>1. CASE t = u
    <3>1. fate \in [Tape -> FateName]
      BY <1>1 DEF Flow, FlowTyped
    <3>2. fate'[u] = "reported" => p = "Reporting" /\ Beyond(u)'
      BY <3>1 DEF Enter, GiveUp
    <3>3. fate'[u] = "dropped" => Beyond(u)' \/ Captured(u)'
      BY <1>4, <3>1 DEF Enter, GiveUp, Queued
    <3> QED
      BY <2>1, <3>2, <3>3
  <2>2. CASE t # u /\ fate'[t] \in {"reported", "dropped"}
    <3>1. fate'[t] = fate[t] /\ fate[t] # "new"
      BY <1>3, <2>2
    <3> QED
      BY <1>1, <2>2, <3>1, StaysThere DEF AudioInv, EndsFit
  <2> QED
    BY <2>1, <2>2
<1>7. ToldFit'
  <2> SUFFICES ASSUME NEW i \in DOMAIN told' PROVE told'[i].file = Wav(told[i].tape)'
    BY DEF ToldFit
  <2>0. told \in Seq(ToldRecord)
    BY <1>1 DEF Flow, FlowTyped
  <2>1. CASE i \in DOMAIN told /\ told'[i] = told[i]
    <3>1. PICK t \in Tape : t = told[i].tape
      BY <2>1, Placed
    <3>2. t # u /\ fate[t] # "new"
      BY <2>1, <3>1, Placed
    <3>3. told[i].file = Wav(t)
      BY <2>1, <3>1 DEF AudioInv, ToldFit
    <3>4. Wav(t)' = Wav(t)
      BY <1>1, <3>2, StaysThere
    <3> QED
      BY <2>1, <3>1, <3>3, <3>4
  <2>2. CASE ~(i \in DOMAIN told /\ told'[i] = told[i])
    <3>1. told' # told
      BY <2>2
    <3>2. told' = Append(told, [tape |-> u, file |-> FileName(u)])
      BY <3>1 DEF Enter, GiveUp
    <3>3. PICK r : r = [tape |-> u, file |-> FileName(u)]
      OBVIOUS
    <3>4. told'[i] = r
      <4>1. DOMAIN told' = 1 .. Len(told) + 1 /\ DOMAIN told = 1 .. Len(told) /\ Len(told) \in Nat
        BY <2>0, <3>2
      <4>2. \A j \in 1 .. Len(told) : told'[j] = told[j]
        BY <2>0, <3>2
      <4>3. told'[Len(told) + 1] = r
        BY <2>0, <3>2, <3>3
      <4> QED
        BY <2>2, <4>1, <4>2, <4>3
    <3>5. r.tape = u /\ r.file = FileName(u)
      BY <3>3
    <3>6. FileName(u) = Wav(u)'
      <4>1. tape'[u].ext = ".wav"
        BY DEF NamesInv
      <4> QED
        BY <4>1 DEF FileName, Wav, Path
    <3>7. PICK t \in Tape : t = u
      OBVIOUS
    <3>8. told'[i].tape = t /\ told'[i].file = Wav(t)'
      BY <3>4, <3>5, <3>6, <3>7
    <3> QED
      BY <3>8
  <2> QED
    BY <2>1, <2>2
<1> QED
  BY <1>5, <1>6, <1>7

\* A thread that is done with its tape.
LEMMA LetsGoAudio ==
  ASSUME IInv, IInv', AudioInv, NamesInv', NEW w \in Worker, worker[w].pc # "idle", Rest(w),
         NEW u \in Tape, u = worker[w].tape, NEW p \in Processor,
         \/ Enter(p, u) /\ (IF p = "Reporting" THEN Beyond(u)' ELSE Fit(p, u)')
         \/ GiveUp(u) /\ (Beyond(u)' \/ Captured(u)'),
         \A t \in Tape \ {u} : fate[t] # "new" => Undisturbed(t)
  PROVE  AudioInv'
<1>1. FilesTyped /\ Flow
  BY Split
<1>2. /\ fate[u] = "waiting"
      /\ \A q \in Queued : \A i \in DOMAIN queue[q] : queue[q][i] # u
      /\ \A v \in Worker \ {w} : worker[v].tape # u
  <2>1. /\ fate[worker[w].tape] = "waiting"
        /\ \A q \in Queued : \A i \in DOMAIN queue[q] : queue[q][i] # worker[w].tape
        /\ \A v \in Worker \ {w} : worker[v].tape # worker[w].tape
    BY Placed
  <2> QED
    BY <2>1
<1>3. QueuesFit' /\ EndsFit' /\ ToldFit'
  BY <1>2, Landing
<1>4. worker'[w].pc = "idle" /\ \A v \in Worker \ {w} : worker'[v] = worker[v]
  BY <1>1 DEF Rest, Idle, Flow, FlowTyped
<1>5. HandsFit'
  <2> SUFFICES ASSUME NEW v \in Worker, worker'[v].pc # "idle" PROVE InHand(v, worker[v].tape)'
    BY DEF HandsFit
  <2>1. v # w /\ worker'[v] = worker[v] /\ worker[v].pc # "idle"
    BY <1>4
  <2>2. PICK t \in Tape : t = worker[v].tape
    BY <2>1, Placed
  <2>3. t # u /\ fate[t] # "new" /\ worker[v].from \in File
    BY <1>2, <2>1, <2>2, Placed
  <2>4. InHand(v, t)
    BY <2>1, <2>2 DEF AudioInv, HandsFit
  <2>5. InHand(v, t)'
    BY <1>1, <2>1, <2>3, <2>4, StaysInHand
  <2> QED
    BY <2>1, <2>2, <2>5
<1> QED
  BY <1>3, <1>5 DEF AudioInv

\* Handing a tape over changes no name.
LEMMA NamesHandedOver ==
  ASSUME FilesTyped, Flow, NamesInv, tape' = tape, NEW u \in Tape, fate[u] \in {"waiting", "recording"},
         \E p \in Processor : HandsOver(p, u)
  PROVE  NamesInv'
<1>1. fate \in [Tape -> FateName]
  BY DEF Flow, FlowTyped
<1>2. /\ fate'[u] \in {"waiting", "dropped", "reported"}
      /\ \A t \in Tape \ {u} : fate'[t] = fate[t]
  BY <1>1 DEF HandsOver, Enter, GiveUp
<1> QED
  BY <1>2, NamesKept

\* A processor's successor is neither the first of the chain, nor before it, nor itself.
LEMMA Successors ==
  ASSUME Careful, NEW p \in Processor, NEW n \in NextProcessor(p)
  PROVE  /\ n \in Processor \ {"BatchProcessing", "DirectionSelector", p}
         /\ p \notin NextProcessor(n)
<1> USE ChainAssumption
<1>1. PICK i \in DOMAIN Chain : Chain[i] = p /\ i + 1 \in DOMAIN Chain /\ n = Chain[i + 1]
  BY DEF NextProcessor
<1>2. i \in Nat /\ i >= 1 /\ 1 \in DOMAIN Chain /\ Chain[i + 1] \in Processor
  BY <1>1
<1>3. n # "BatchProcessing" /\ n # p /\ n # "DirectionSelector"
  <2>1. Chain[1] = "BatchProcessing" /\ \A j \in DOMAIN Chain : Chain[j] # "DirectionSelector"
    BY DEF Careful
  <2>2. i + 1 # 1 /\ i + 1 # i
    BY <1>2
  <2> QED
    BY <1>1, <1>2, <2>1, <2>2
<1>4. p \notin NextProcessor(n)
  <2> SUFFICES ASSUME p \in NextProcessor(n) PROVE FALSE
    OBVIOUS
  <2>1. PICK j \in DOMAIN Chain : Chain[j] = n /\ j + 1 \in DOMAIN Chain /\ p = Chain[j + 1]
    BY DEF NextProcessor
  <2>2. j = i + 1 /\ j + 1 = i
    BY <1>1, <2>1
  <2>3. i \in Nat /\ j \in Nat
    BY <1>1, <2>1
  <2> QED
    BY <2>2, <2>3
<1> QED
  BY <1>1, <1>2, <1>3, <1>4

\* A processor that is done with a tape passes it on fit for the next one.
LEMMA PassedOn ==
  ASSUME Careful, IInv, IInv', AudioInv, NamesInv', NEW w \in Worker, worker[w].pc # "idle", Rest(w),
         NEW u \in Tape, u = worker[w].tape, NEW p \in Processor, PassOn(p, u), Beyond(u)',
         "TapeFileNaming" \in NextProcessor(p) => Unnamed(u)',
         \/ p = "TapeFileNaming"
         \/ "CommandProcessing" \in NextProcessor(p) => Unnamed(u)',
         \A t \in Tape \ {u} : fate[t] # "new" => Undisturbed(t)
  PROVE  AudioInv'
<1>1. CASE NextProcessor(p) = {}
  <2>1. GiveUp(u)
    BY <1>1 DEF PassOn
  <2>2. "Reporting" \in Processor
    BY DEF Processor
  <2> QED
    BY <2>1, <2>2, LetsGoAudio
<1>2. CASE NextProcessor(p) # {}
  <2>1. PICK n \in NextProcessor(p) : Enter(n, u)
    BY <1>2 DEF PassOn
  <2>2. n \in Processor \ {"BatchProcessing", "DirectionSelector", p} /\ p \notin NextProcessor(n)
    BY Successors
  <2>3. n # "Reporting" => Fit(n, u)'
    <3>1. CASE n = "TapeFileNaming"
      BY <2>1, <3>1 DEF Fit
    <3>2. CASE n = "CommandProcessing"
      BY <2>1, <2>2, <3>2 DEF Fit, NextProcessor
    <3> QED
      BY <2>2, <3>1, <3>2 DEF Processor, Queued
  <2> QED
    BY <2>1, <2>2, <2>3, LetsGoAudio
<1> QED
  BY <1>1, <1>2

-----------------------------------------------------------------------------
(* What every step does with the audio.                                      *)

\* Everything that is known before and after a step of a thread that has a tape.
LEMMA WithTape ==
  ASSUME IInv, NamesInv, AudioInv, NEW w \in Worker, worker[w].pc # "idle"
  PROVE  /\ FilesTyped /\ Flow
         /\ worker[w].tape \in Tape /\ fate[worker[w].tape] = "waiting" /\ worker[w].from \in File
         /\ InHand(w, worker[w].tape)
         /\ tape[worker[w].tape].ext = ".wav"
BY Split, Placed DEF AudioInv, HandsFit, NamesInv

\* A thread of BatchProcessing transcodes the capture file, or fails to, and keeps it.
LEMMA TranscodeAudio ==
  ASSUME Careful, IInv, IInv', NamesInv, AudioInv, NEW w \in Worker, BatchTranscode(w)
  PROVE  NamesInv' /\ AudioInv'
<1>1. PICK u \in Tape : u = worker[w].tape
  <2>1. worker[w].pc # "idle"
    BY DEF BatchTranscode
  <2> QED
    BY <2>1, WithTape
<1>2. /\ worker[w].pc = "work" /\ w[1] = "BatchProcessing"
      /\ tape' = [tape EXCEPT ![u].dir = "out"] /\ UNCHANGED <<fate, queue, told>>
  BY <1>1 DEF BatchTranscode
<1>3. FilesTyped /\ Flow /\ fate[u] = "waiting" /\ InHand(w, u)
  BY <1>1, <1>2, WithTape
<1>4. Captured(u)
  BY <1>2, <1>3 DEF InHand, Fit, Transcoded, Renaming, Setting
<1>5. /\ tape'[u].dir = "out" /\ tape'[u].id = tape[u].id /\ tape'[u].ext = tape[u].ext
      /\ tape'[u].file = tape[u].file /\ \A t \in Tape \ {u} : tape'[t] = tape[t]
  BY <1>2, <1>3, TapeParts DEF FilesTyped
<1>6. NamesInv'
  BY <1>2, <1>5, NamesKept
<1>7. PICK got \in {"audio", "silence", "nothing"} :
        /\ worker' = [worker EXCEPT ![w].pc = "done", ![w].got = got]
        /\ disk' = CASE got = "audio"   -> Written(OutFile(u), disk[tape[u].file])
                     [] got = "silence" -> Written(OutFile(u), Part(u))
                     [] got = "nothing" -> disk
  BY <1>1 DEF BatchTranscode
<1>8. /\ worker'[w].pc = "done" /\ worker'[w].got = got /\ worker'[w].tape = u
      /\ \A v \in Worker \ {w} : worker'[v] = worker[v]
  <2>1. worker \in [Worker -> WorkerRecord] /\ worker[w] \in WorkerRecord
    BY <1>3 DEF Flow, FlowTyped
  <2> QED
    BY <1>1, <1>7, <2>1 DEF WorkerRecord
<1>9. /\ OutFile(u) = Wav(u) /\ Wav(u) \in Mine(u) /\ Mine(u) \subseteq File
      /\ tape[u].file \in File /\ tape[u].file # Wav(u)
  BY <1>3, TapeFiles, CaptureFile
<1>10. /\ \A f \in File \ {Wav(u)} : disk'[f] = disk[f]
       /\ got = "audio" => disk'[Wav(u)] = disk[tape[u].file]
  <2>1. CASE got = "audio"
    BY <1>3, <1>7, <1>9, <2>1 DEF Written, FilesTyped
  <2>2. CASE got = "silence"
    BY <1>3, <1>7, <1>9, <2>2 DEF Written, FilesTyped
  <2>3. CASE got = "nothing"
    BY <1>7, <2>3
  <2> QED
    BY <2>1, <2>2, <2>3
<1>11. \A t \in Tape \ {u} : fate[t] # "new" => Undisturbed(t)
  <2>1. \A f \in File \ Mine(u) : disk'[f] = disk[f]
    BY <1>9, <1>10
  <2> QED
    BY <1>3, <1>5, <2>1, OthersUndisturbed
<1>12. Transcoded(w, u)'
  <2>1. Wav(u)' = Wav(u) /\ Unnamed(u)'
    BY <1>4, <1>5 DEF Wav, Unnamed, BaseOf, Captured
  <2>2. disk[tape[u].file] = Whole(u)
    BY <1>4 DEF Captured
  <2>3. disk'[tape'[u].file] = Whole(u) /\ (got = "audio" => disk'[Wav(u)'] = Whole(u))
    BY <1>5, <1>9, <1>10, <2>1, <2>2
  <2> QED
    BY <1>2, <1>5, <1>8, <2>1, <2>3 DEF Transcoded
<1>13. InHand(w, u)'
  BY <1>12 DEF InHand
<1>14. AudioInv'
  BY <1>1, <1>2, <1>8, <1>11, <1>13, GoesOnAudio
<1> QED
  BY <1>6, <1>14

LEMMA BatchFailAudio ==
  ASSUME Careful, IInv, IInv', NamesInv, AudioInv, NEW w \in Worker, BatchFail(w)
  PROVE  NamesInv' /\ AudioInv'
<1>1. PICK u \in Tape : u = worker[w].tape
  <2>1. worker[w].pc # "idle"
    BY DEF BatchFail
  <2> QED
    BY <2>1, WithTape
<1>2. /\ worker[w].pc = "work" /\ w[1] = "BatchProcessing"
      /\ tape' = [tape EXCEPT ![u].dir = "out"] /\ GiveUp(u) /\ Rest(w)
  BY <1>1 DEF BatchFail
<1>3. FilesTyped /\ Flow /\ fate[u] = "waiting" /\ InHand(w, u)
  BY <1>1, <1>2, WithTape
<1>4. Captured(u)
  BY <1>2, <1>3 DEF InHand, Fit, Transcoded, Renaming, Setting
<1>5. /\ tape'[u].dir = "out" /\ tape'[u].id = tape[u].id /\ tape'[u].ext = tape[u].ext
      /\ tape'[u].file = tape[u].file /\ \A t \in Tape \ {u} : tape'[t] = tape[t]
  BY <1>2, <1>3, TapeParts DEF FilesTyped
<1>6. NamesInv'
  <2>1. \A t \in Tape : fate'[t] = IF t = u THEN "dropped" ELSE fate[t]
    BY <1>2, <1>3 DEF GiveUp, Flow, FlowTyped
  <2> QED
    BY <1>3, <1>5, <2>1, NamesKept
<1>7. PICK opened \in BOOLEAN :
        disk' = [f \in File |-> IF f \in (IF opened THEN {OutFile(u)} ELSE {}) THEN Part(u) ELSE disk[f]]
  BY <1>1 DEF BatchFail, Careful
<1>8. /\ OutFile(u) = Wav(u) /\ Wav(u) \in Mine(u) /\ Mine(u) \subseteq File
      /\ tape[u].file \in File /\ tape[u].file # Wav(u)
  BY <1>3, TapeFiles, CaptureFile
<1>9. \A f \in File \ {Wav(u)} : disk'[f] = disk[f]
  BY <1>7, <1>8
<1>10. \A t \in Tape \ {u} : fate[t] # "new" => Undisturbed(t)
  <2>1. \A f \in File \ Mine(u) : disk'[f] = disk[f]
    BY <1>8, <1>9
  <2> QED
    BY <1>3, <1>5, <2>1, OthersUndisturbed
<1>11. Captured(u)'
  BY <1>4, <1>5, <1>8, <1>9 DEF Captured, Unnamed, BaseOf
<1>12. AudioInv'
  <2>1. "Reporting" \in Processor
    BY DEF Processor
  <2> QED
    BY <1>1, <1>2, <1>6, <1>10, <1>11, <2>1, LetsGoAudio
<1> QED
  BY <1>6, <1>12

LEMMA BatchFinishAudio ==
  ASSUME Careful, IInv, IInv', NamesInv, AudioInv, NEW w \in Worker, BatchFinish(w)
  PROVE  NamesInv' /\ AudioInv'
<1>1. PICK u \in Tape : u = worker[w].tape
  <2>1. worker[w].pc # "idle"
    BY DEF BatchFinish
  <2> QED
    BY <2>1, WithTape
<1>2. /\ worker[w].pc = "done" /\ w[1] = "BatchProcessing" /\ tape' = tape /\ Rest(w)
      /\ IF worker[w].got = "audio" THEN PassOn("BatchProcessing", u) ELSE GiveUp(u)
      /\ disk' = Removed(Deleted(w))
  BY <1>1 DEF BatchFinish
<1>3. FilesTyped /\ Flow /\ fate[u] = "waiting" /\ InHand(w, u)
  BY <1>1, <1>2, WithTape
<1>4. Transcoded(w, u)
  BY <1>2, <1>3 DEF InHand, Fit, Transcoded, Renaming, Setting
<1>5. "BatchProcessing" \in Processor /\ "Reporting" \in Processor
  BY DEF Processor, Queued
<1>6. NamesInv'
  <2>1. \E p \in Processor : HandsOver(p, u)
    <3>1. CASE worker[w].got = "audio"
      BY <1>2, <3>1, PassingOn
    <3>2. CASE worker[w].got # "audio"
      BY <1>2, <1>5, <3>2 DEF HandsOver
    <3> QED
      BY <3>1, <3>2
  <2> QED
    BY <1>2, <1>3, <2>1, NamesHandedOver
<1>7. /\ Wav(u) \in Mine(u) /\ Mine(u) \subseteq File
      /\ tape[u].file \in Mine(u) /\ tape[u].file # Wav(u)
  BY <1>3, TapeFiles, CaptureFile
<1>8. /\ worker[w].got = "audio" => Deleted(w) \subseteq {tape[u].file}
      /\ worker[w].got # "audio" => Deleted(w) = {}
  BY <1>1 DEF Deleted, Careful
<1>9. \A f \in File : f \notin Deleted(w) => disk'[f] = disk[f]
  BY <1>2 DEF Removed
<1>10. \A t \in Tape \ {u} : fate[t] # "new" => Undisturbed(t)
  <2>1. \A f \in File \ Mine(u) : disk'[f] = disk[f]
    BY <1>7, <1>8, <1>9
  <2> QED
    BY <1>2, <1>3, <2>1, OthersUndisturbed
<1>11. Unnamed(u)' /\ Wav(u)' = Wav(u) /\ tape'[u].dir = "out"
  BY <1>2, <1>4 DEF Transcoded, Unnamed, BaseOf, Wav
<1>12. CASE worker[w].got = "audio"
  <2>1. disk'[Wav(u)] = Whole(u)
    BY <1>4, <1>7, <1>8, <1>9, <1>12 DEF Transcoded
  <2>2. disk'[Wav(u)'] = Whole(u)
    BY <1>11, <2>1
  <2>3. Beyond(u)'
    BY <1>11, <2>2 DEF Beyond
  <2>4. PassOn("BatchProcessing", u)
    BY <1>2, <1>12
  <2>5. AudioInv'
    BY <1>1, <1>2, <1>5, <1>6, <1>10, <1>11, <2>3, <2>4, PassedOn
  <2> QED
    BY <1>6, <2>5
<1>13. CASE worker[w].got # "audio"
  <2>1. disk'[tape'[u].file] = Whole(u)
    BY <1>2, <1>4, <1>7, <1>8, <1>9, <1>13 DEF Transcoded
  <2>2. Captured(u)'
    BY <1>11, <2>1 DEF Captured
  <2>3. GiveUp(u)
    BY <1>2, <1>13
  <2>4. AudioInv'
    BY <1>1, <1>2, <1>5, <1>6, <1>10, <2>2, <2>3, LetsGoAudio
  <2> QED
    BY <1>6, <2>4
<1> QED
  BY <1>12, <1>13

\* DirectionSelector has no part in such a chain.
LEMMA SideIdle ==
  ASSUME IInv, NamesInv, AudioInv, NEW w \in Worker
  PROVE  ~SideRename(w) /\ ~SideCopy(w) /\ ~SideFail(w)
<1> SUFFICES ASSUME w[1] = "DirectionSelector", worker[w].pc \in {"work", "copy"} PROVE FALSE
  BY DEF SideRename, SideCopy, SideFail
<1>1. InHand(w, worker[w].tape)
  BY WithTape
<1> QED
  BY <1>1 DEF InHand, Fit, Transcoded, Renaming, Setting

\* A final name is checked against the disk, so that it is no other tape's.
LEMMA NameIsNew ==
  ASSUME Careful, IInv, NamesInv, AudioInv, NamingScheme, NEW w \in Worker,
         w[1] = "TapeFileNaming", worker[w].pc = "work", NEW u \in Tape, u = worker[w].tape,
         NEW b \in FinalBase
  PROVE  \A t \in Tape \ {u} : fate[t] # "new" => tape[t].id # NotTaken("out", b, ".wav", u)
<1> USE ChainAssumption
<1> SUFFICES ASSUME NEW t \in Tape \ {u}, fate[t] # "new",
                    tape[t].id = NotTaken("out", b, ".wav", u)
             PROVE  FALSE
  OBVIOUS
<1>1. tape[t].id.base = b /\ tape[t].id.uid \in {NoTape, u}
  BY DEF NotTaken
<1>2. ~Unnamed(t) /\ tape[t].id.uid \in {NoTape, t} /\ fate[t] # "recording"
  <2>1. Base \cap FinalBase = {}
    BY DEF Careful
  <2> QED
    BY <1>1, <2>1 DEF NamesInv, Unnamed
<1>3. tape[t].id.uid = NoTape
  BY <1>1, <1>2
<1>4. disk[Wav(t)] = Absent
  <2>1. tape[t].id = [base |-> b, uid |-> NoTape] /\ ~Exists(Path("out", [base |-> b, uid |-> NoTape], ".wav"))
    BY <1>1, <1>3 DEF NotTaken
  <2> QED
    BY <2>1 DEF Wav, Exists
<1>5. FilesTyped /\ Flow
  BY Split
<1>6. ~Beyond(t) /\ ~Captured(t) /\ ~HasAside(t)
  <2>1. Whole(t) # Absent
    BY <1>5, TapeFiles
  <2>2. Command # "plain"
    BY DEF Careful
  <2> QED
    BY <1>2, <1>4, <2>1, <2>2 DEF Beyond, Captured, HasAside
<1>7. fate[t] = "waiting"
  <2>1. fate[t] \in FateName
    BY <1>5 DEF Flow, FlowTyped
  <2> QED
    BY <1>2, <1>6, <2>1 DEF FateName, AudioInv, EndsFit
<1>8. InPlace(t)
  BY <1>5, <1>7 DEF Flow, OnePlace
<1>9. CASE \E p \in Queued : \E i \in DOMAIN queue[p] : queue[p][i] = t
  BY <1>6, <1>9 DEF AudioInv, QueuesFit, Fit
<1>10. CASE \E v \in Worker : worker[v].tape = t
  <2>1. PICK v \in Worker : worker[v].tape = t
    BY <1>10
  <2>2. v # w /\ worker[v].pc # "idle"
    BY <1>5, <2>1 DEF Flow, ThreadsConsistent
  <2>3. InHand(v, t)
    BY <2>1, <2>2, WithTape
  <2>4. v[1] = "TapeFileNaming"
    BY <1>2, <1>6, <2>3 DEF InHand, Fit, Transcoded, Renaming, Setting
  <2>5. v = <<"TapeFileNaming", 1>> /\ w = <<"TapeFileNaming", 1>>
    BY <2>4 DEF Worker, Queued
  <2> QED
    BY <2>2, <2>5
<1> QED
  BY <1>8, <1>9, <1>10 DEF InPlace

LEMMA NameChooseAudio ==
  ASSUME Careful, IInv, IInv', NamesInv, AudioInv, NEW w \in Worker, NameChoose(w)
  PROVE  NamesInv' /\ AudioInv'
<1> USE ChainAssumption
<1>1. PICK u \in Tape : u = worker[w].tape
  <2>1. worker[w].pc # "idle"
    BY DEF NameChoose
  <2> QED
    BY <2>1, WithTape
<1>2. /\ worker[w].pc = "work" /\ w[1] = "TapeFileNaming" /\ UNCHANGED <<disk, fate, queue, told>>
      /\ worker' = [worker EXCEPT ![w].pc = "rename", ![w].from = SideFile(u, tape[u].ext)]
      /\ IF NamingScheme
         THEN \E b \in FinalBase : tape' = [tape EXCEPT ![u].id = NotTaken("out", b, tape[u].ext, u)]
         ELSE UNCHANGED tape
  BY <1>1 DEF NameChoose
<1>3. FilesTyped /\ Flow /\ fate[u] = "waiting" /\ InHand(w, u) /\ tape[u].ext = ".wav"
  BY <1>1, <1>2, WithTape
<1>4. Beyond(u) /\ Unnamed(u)
  BY <1>2, <1>3 DEF InHand, Fit, Transcoded, Renaming, Setting
<1>5. SideFile(u, tape[u].ext) = Wav(u) /\ Wav(u) \in Mine(u) /\ Whole(u) # Absent
  BY <1>3, <1>4, TapeFiles DEF Beyond
<1>6. /\ worker'[w].pc = "rename" /\ worker'[w].from = Wav(u) /\ worker'[w].tape = u
      /\ \A v \in Worker \ {w} : worker'[v] = worker[v]
  <2>1. worker \in [Worker -> WorkerRecord] /\ worker[w] \in WorkerRecord
    BY <1>3 DEF Flow, FlowTyped
  <2> QED
    BY <1>1, <1>2, <1>5, <2>1 DEF WorkerRecord
<1>7. \A t \in Tape \ {u} : tape'[t] = tape[t]
  BY <1>2, <1>3 DEF FilesTyped
<1>8. \A t \in Tape \ {u} : fate[t] # "new" => Undisturbed(t)
  BY <1>2, <1>7 DEF Undisturbed
<1>9. CASE ~NamingScheme
  <2>1. tape' = tape
    BY <1>2, <1>9
  <2>2. NamesInv'
    BY <1>2, <2>1, NamesKept
  <2>3. Undisturbed(u)
    BY <1>2, <2>1 DEF Undisturbed
  <2>4. Beyond(u)' /\ Wav(u)' = Wav(u)
    BY <1>3, <1>4, <2>3, StaysThere
  <2>5. Renaming(w, u)'
    BY <1>2, <1>4, <1>6, <2>1, <2>4 DEF Renaming, Beyond
  <2>6. InHand(w, u)'
    BY <2>5 DEF InHand
  <2> QED
    BY <1>1, <1>2, <1>6, <1>8, <2>2, <2>6, GoesOnAudio
<1>10. CASE NamingScheme
  <2>1. PICK b \in FinalBase : tape' = [tape EXCEPT ![u].id = NotTaken("out", b, ".wav", u)]
    BY <1>2, <1>3, <1>10
  <2>2. PICK i \in Ident : i = NotTaken("out", b, ".wav", u)
    BY <1>3, NameTypes DEF Dir, Ext
  <2>3. i.base \in FinalBase /\ i.uid \in {NoTape, u}
    BY <2>2 DEF NotTaken
  <2>4. /\ tape'[u].id = i /\ tape'[u].dir = tape[u].dir /\ tape'[u].ext = tape[u].ext
        /\ tape'[u].file = tape[u].file
    BY <1>3, <2>1, <2>2, TapeParts DEF FilesTyped
  <2>5. \A t \in Tape \ {u} : fate[t] # "new" => tape[t].id # i
    BY <1>1, <1>2, <1>10, <2>2, NameIsNew
  <2>6. \A t \in Tape : BaseOf(t)' = BaseOf(t)
    BY <1>7, <2>4 DEF BaseOf
  <2>7. NamesInv'
    <3>1. \A c : BaseFile(c)' = BaseFile(c)
      BY DEF BaseFile, Path
    <3>2. \A t \in Tape \ {u} : Unnamed(t)' = Unnamed(t)
      BY <1>7, <2>6 DEF Unnamed
    <3>3. \A t \in Tape : tape'[t].ext = ".wav"
      BY <1>3, <1>7, <2>4 DEF NamesInv
    <3>4. \A t \in Tape : fate[t] # "new" =>
            /\ BaseOf(t)' \in Base /\ tape'[t].file = BaseFile(BaseOf(t))'
            /\ tape'[t].id.uid \in {NoTape, t}
            /\ Unnamed(t)' \/ (NamingScheme /\ tape'[t].id.base \in FinalBase)
      BY <1>7, <1>10, <2>3, <2>4, <2>6, <3>1, <3>2 DEF NamesInv
    <3>5. \A t \in Tape : fate[t] = "recording" => Unnamed(t)'
      BY <1>3, <3>2 DEF NamesInv
    <3>6. \A t, x \in Tape : fate[t] # "new" /\ fate[x] # "new" /\ t # x =>
            BaseOf(t)' # BaseOf(x)' /\ tape'[t].id # tape'[x].id
      BY <1>3, <1>7, <2>4, <2>5, <2>6 DEF NamesInv
    <3> QED
      BY <1>2, <3>3, <3>4, <3>5, <3>6 DEF NamesInv
  <2>8. disk[Wav(u)] = Whole(u)
    BY <1>4, <1>10 DEF Beyond, HasAside, Careful
  <2>9. Wav(u).id.base = BaseOf(u)
    BY <1>4 DEF Wav, Path, Unnamed
  <2>10. Renaming(w, u)'
    <3>1. worker'[w].from.id.base = BaseOf(u)' /\ disk'[worker'[w].from] = Whole(u)
      BY <1>2, <1>6, <2>6, <2>8, <2>9
    <3>2. tape'[u].dir = "out" /\ tape'[u].id.base \in FinalBase
      BY <1>4, <2>3, <2>4 DEF Beyond
    <3> QED
      BY <1>2, <1>6, <3>1, <3>2 DEF Renaming
  <2>11. InHand(w, u)'
    BY <2>10 DEF InHand
  <2> QED
    BY <1>1, <1>2, <1>6, <1>8, <2>7, <2>11, GoesOnAudio
<1> QED
  BY <1>9, <1>10

LEMMA NameRenameAudio ==
  ASSUME Careful, IInv, IInv', NamesInv, AudioInv, NEW w \in Worker, NameRename(w)
  PROVE  NamesInv' /\ AudioInv'
<1>1. PICK u \in Tape : u = worker[w].tape
  <2>1. worker[w].pc # "idle"
    BY DEF NameRename
  <2> QED
    BY <2>1, WithTape
<1>2. /\ worker[w].pc = "rename" /\ w[1] = "TapeFileNaming" /\ tape' = tape /\ Rest(w)
      /\ PassOn("TapeFileNaming", u)
  BY <1>1 DEF NameRename
<1>3. /\ FilesTyped /\ Flow /\ fate[u] = "waiting" /\ InHand(w, u) /\ tape[u].ext = ".wav"
      /\ worker[w].from \in File
  BY <1>1, <1>2, WithTape
<1>4. Renaming(w, u)
  BY <1>2, <1>3 DEF InHand, Fit, Transcoded, Renaming, Setting
<1>5. /\ SideFile(u, ".wav") = Wav(u) /\ Wav(u) \in Mine(u) /\ Mine(u) \subseteq File /\ Whole(u) # Absent
  BY <1>3, <1>4, TapeFiles DEF Renaming
<1>6. disk' = IF worker[w].from # Wav(u) /\ Exists(worker[w].from) THEN Moved(worker[w].from, Wav(u)) ELSE disk
  BY <1>1, <1>3, <1>5 DEF NameRename
<1>7. "TapeFileNaming" \in Processor
  BY DEF Processor, Queued
<1>8. NamesInv'
  BY <1>2, <1>3, <1>7, PassingOn, NamesHandedOver
<1>9. Wav(u)' = Wav(u) /\ tape'[u].dir = "out"
  BY <1>2, <1>4 DEF Wav, Renaming
<1>10. Beyond(u)' /\ \A f \in File \ Mine(u) : disk'[f] = disk[f]
  <2>1. CASE worker[w].from = Wav(u) /\ Beyond(u)
    <3>1. disk' = disk
      BY <1>6, <2>1
    <3>2. Undisturbed(u)
      BY <1>2, <3>1 DEF Undisturbed
    <3>3. Beyond(u)'
      BY <1>3, <2>1, <3>2, StaysThere
    <3> QED
      BY <3>1, <3>3
  <2>2. CASE /\ worker[w].from.id.base = BaseOf(u) /\ disk[worker[w].from] = Whole(u)
             /\ tape[u].id.base \in FinalBase
    <3>1. worker[w].from # Wav(u)
      <4>1. Wav(u).id.base \in FinalBase
        BY <2>2 DEF Wav, Path
      <4>2. BaseOf(u) \notin FinalBase
        BY <1>3 DEF Careful, NamesInv
      <4> QED
        BY <2>2, <4>1, <4>2
    <3>2. disk' = Moved(worker[w].from, Wav(u)) /\ worker[w].from \in Mine(u)
      BY <1>3, <1>5, <1>6, <2>2, <3>1 DEF Exists, Mine
    <3>3. /\ disk'[Wav(u)] = Whole(u)
          /\ \A f \in File \ Mine(u) : disk'[f] = disk[f]
      BY <1>3, <1>5, <2>2, <3>1, <3>2 DEF Moved, FilesTyped
    <3>4. disk'[Wav(u)'] = Whole(u)
      BY <1>9, <3>3
    <3> QED
      BY <1>9, <3>3, <3>4 DEF Beyond
  <2> QED
    BY <1>4, <2>1, <2>2 DEF Renaming
<1>11. \A t \in Tape \ {u} : fate[t] # "new" => Undisturbed(t)
  BY <1>2, <1>3, <1>10, OthersUndisturbed
<1>12. "TapeFileNaming" \notin NextProcessor("TapeFileNaming")
  BY <1>7, Successors
<1> QED
  BY <1>1, <1>2, <1>7, <1>8, <1>10, <1>11, <1>12, PassedOn

LEMMA CommandNoneAudio ==
  ASSUME Careful, IInv, IInv', NamesInv, AudioInv, NEW w \in Worker, CommandNone(w)
  PROVE  NamesInv' /\ AudioInv'
<1>1. PICK u \in Tape : u = worker[w].tape
  <2>1. worker[w].pc # "idle"
    BY DEF CommandNone
  <2> QED
    BY <2>1, WithTape
<1>2. /\ worker[w].pc = "work" /\ w[1] = "CommandProcessing" /\ UNCHANGED <<disk, tape>> /\ Rest(w)
      /\ PassOn("CommandProcessing", u)
  BY <1>1 DEF CommandNone
<1>3. FilesTyped /\ Flow /\ fate[u] = "waiting" /\ InHand(w, u)
  BY <1>1, <1>2, WithTape
<1>4. Fit("CommandProcessing", u)
  BY <1>2, <1>3 DEF InHand, Transcoded, Renaming, Setting
<1>5. "CommandProcessing" \in Processor
  BY DEF Processor, Queued
<1>6. NamesInv'
  BY <1>2, <1>3, <1>5, PassingOn, NamesHandedOver
<1>7. \A t \in Tape : Undisturbed(t)
  BY <1>2 DEF Undisturbed
<1>8. Fit("CommandProcessing", u)' /\ Beyond(u)'
  BY <1>3, <1>4, <1>7, StaysThere DEF Fit
<1>9. "TapeFileNaming" \in NextProcessor("CommandProcessing") => Unnamed(u)'
  <2>1. Unnamed(u)' = Unnamed(u)
    BY <1>3, <1>7, StaysThere
  <2> QED
    BY <1>4, <2>1 DEF Fit
<1>10. "CommandProcessing" \notin NextProcessor("CommandProcessing")
  BY <1>5, Successors
<1> QED
  BY <1>1, <1>2, <1>5, <1>6, <1>7, <1>8, <1>9, <1>10, PassedOn

LEMMA CommandMoveAudio ==
  ASSUME Careful, IInv, IInv', NamesInv, AudioInv, NEW w \in Worker, CommandMove(w)
  PROVE  NamesInv' /\ AudioInv'
<1>1. PICK u \in Tape : u = worker[w].tape
  <2>1. worker[w].pc # "idle"
    BY DEF CommandMove
  <2> QED
    BY <2>1, WithTape
<1>2. /\ worker[w].pc = "work" /\ w[1] = "CommandProcessing" /\ tape' = tape /\ Command # "none"
      /\ IF Exists(SideFile(u, ".wav"))
         THEN /\ disk' = Moved(SideFile(u, ".wav"), SideFile(u, ".wav.tmp"))
              /\ worker' = [worker EXCEPT ![w].pc = "run"]
              /\ UNCHANGED <<fate, queue, told>>
         ELSE disk' = disk /\ GiveUp(u) /\ Rest(w)
  BY <1>1 DEF CommandMove
<1>3. FilesTyped /\ Flow /\ fate[u] = "waiting" /\ InHand(w, u)
  BY <1>1, <1>2, WithTape
<1>4. Beyond(u)
  BY <1>2, <1>3 DEF InHand, Fit, Transcoded, Renaming, Setting
<1>5. /\ SideFile(u, ".wav") = Wav(u) /\ SideFile(u, ".wav.tmp") = Aside(u) /\ Wav(u) # Aside(u)
      /\ Wav(u) \in Mine(u) /\ Aside(u) \in Mine(u) /\ Mine(u) \subseteq File
  BY <1>3, <1>4, TapeFiles DEF Beyond
<1>6. Wav(u)' = Wav(u) /\ Aside(u)' = Aside(u) /\ tape'[u].dir = "out"
  BY <1>2, <1>4 DEF Wav, Aside, Beyond
<1>7. CASE Exists(SideFile(u, ".wav"))
  <2>1. /\ disk' = Moved(Wav(u), Aside(u)) /\ UNCHANGED <<fate, queue, told>>
        /\ worker' = [worker EXCEPT ![w].pc = "run"]
    BY <1>2, <1>5, <1>7
  <2>2. disk[Wav(u)] = Whole(u)
    BY <1>4, <1>5, <1>7 DEF Beyond, HasAside, Exists
  <2>3. /\ disk'[Aside(u)] = Whole(u) /\ disk'[Wav(u)] = Absent
        /\ \A f \in File \ Mine(u) : disk'[f] = disk[f]
    BY <1>3, <1>5, <2>1, <2>2 DEF Moved, FilesTyped
  <2>4. disk'[Aside(u)'] = Whole(u) /\ disk'[Wav(u)'] = Absent
    BY <1>6, <2>3
  <2>5. /\ worker'[w].pc = "run" /\ worker'[w].tape = u
        /\ \A v \in Worker \ {w} : worker'[v] = worker[v]
    <3>1. worker \in [Worker -> WorkerRecord] /\ worker[w] \in WorkerRecord
      BY <1>3 DEF Flow, FlowTyped
    <3> QED
      BY <1>1, <2>1, <3>1 DEF WorkerRecord
  <2>6. Command = "plain"
    BY <1>2, ChainAssumption DEF Careful
  <2>7. InHand(w, u)'
    <3>1. HasAside(u)'
      BY <2>4, <2>6 DEF HasAside
    <3>2. Setting(w, u)'
      BY <1>2, <1>6, <2>5, <3>1 DEF Setting
    <3> QED
      BY <3>2 DEF InHand
  <2>8. \A t \in Tape \ {u} : fate[t] # "new" => Undisturbed(t)
    BY <1>2, <1>3, <2>3, OthersUndisturbed
  <2>9. NamesInv'
    BY <1>2, <2>1, NamesKept
  <2> QED
    BY <1>1, <1>2, <2>1, <2>5, <2>7, <2>8, <2>9, GoesOnAudio
<1>8. CASE ~Exists(SideFile(u, ".wav"))
  <2>1. disk' = disk /\ GiveUp(u) /\ Rest(w)
    BY <1>2, <1>8
  <2>2. \A t \in Tape : Undisturbed(t)
    BY <1>2, <2>1 DEF Undisturbed
  <2>3. Beyond(u)'
    BY <1>3, <1>4, <2>2, StaysThere
  <2>4. "Reporting" \in Processor
    BY DEF Processor
  <2>5. NamesInv'
    BY <1>2, <1>3, <2>1, <2>4, NamesHandedOver DEF HandsOver
  <2> QED
    BY <1>1, <1>2, <2>1, <2>2, <2>3, <2>4, <2>5, LetsGoAudio
<1> QED
  BY <1>7, <1>8

LEMMA CommandRunAudio ==
  ASSUME Careful, IInv, IInv', NamesInv, AudioInv, NEW w \in Worker, CommandRun(w)
  PROVE  NamesInv' /\ AudioInv'
<1>1. PICK u \in Tape : u = worker[w].tape
  <2>1. worker[w].pc # "idle"
    BY DEF CommandRun
  <2> QED
    BY <2>1, WithTape
<1>2. /\ worker[w].pc = "run" /\ w[1] = "CommandProcessing" /\ UNCHANGED <<tape, fate, queue, told>>
      /\ worker' = [worker EXCEPT ![w].pc = "ran"]
      /\ Command = "plain" => UNCHANGED disk
  BY DEF CommandRun
<1>3. FilesTyped /\ Flow /\ InHand(w, u)
  BY <1>1, <1>2, WithTape
<1>4. tape[u].dir = "out" /\ HasAside(u)
  BY <1>2, <1>3 DEF InHand, Fit, Transcoded, Renaming, Setting
<1>5. disk' = disk
  BY <1>2, <1>4 DEF HasAside
<1>6. \A t \in Tape : Undisturbed(t)
  BY <1>2, <1>5 DEF Undisturbed
<1>7. /\ worker'[w].pc = "ran" /\ worker'[w].tape = u
      /\ \A v \in Worker \ {w} : worker'[v] = worker[v]
  <2>1. worker \in [Worker -> WorkerRecord] /\ worker[w] \in WorkerRecord
    BY <1>3 DEF Flow, FlowTyped
  <2> QED
    BY <1>1, <1>2, <2>1 DEF WorkerRecord
<1>8. InHand(w, u)'
  <2>1. HasAside(u)'
    BY <1>3, <1>4, <1>6, StaysThere
  <2>2. Setting(w, u)'
    BY <1>2, <1>4, <1>7, <2>1 DEF Setting
  <2> QED
    BY <2>2 DEF InHand
<1>9. NamesInv'
  BY <1>2, NamesKept
<1> QED
  BY <1>1, <1>2, <1>6, <1>7, <1>8, <1>9, GoesOnAudio

LEMMA CommandFinishAudio ==
  ASSUME Careful, IInv, IInv', NamesInv, AudioInv, NEW w \in Worker, CommandFinish(w)
  PROVE  NamesInv' /\ AudioInv'
<1>1. PICK u \in Tape : u = worker[w].tape
  <2>1. worker[w].pc # "idle"
    BY DEF CommandFinish
  <2> QED
    BY <2>1, WithTape
<1>2. worker[w].pc = "ran" /\ w[1] = "CommandProcessing" /\ Rest(w)
  BY DEF CommandFinish
<1>3. FilesTyped /\ Flow /\ fate[u] = "waiting" /\ InHand(w, u)
  BY <1>1, <1>2, WithTape
<1>4. tape[u].dir = "out" /\ HasAside(u)
  BY <1>2, <1>3 DEF InHand, Fit, Transcoded, Renaming, Setting
<1>5. UNCHANGED <<disk, tape>> /\ PassOn("CommandProcessing", u)
  BY <1>1, <1>4 DEF CommandFinish, HasAside
<1>6. "CommandProcessing" \in Processor
  BY DEF Processor, Queued
<1>7. NamesInv'
  BY <1>3, <1>5, <1>6, PassingOn, NamesHandedOver
<1>8. \A t \in Tape : Undisturbed(t)
  BY <1>5 DEF Undisturbed
<1>9. Beyond(u)'
  BY <1>3, <1>4, <1>8, StaysThere DEF Beyond
<1>10. Unnamed(u)'
  <2>1. ~NamingScheme
    BY <1>4 DEF HasAside, Careful
  <2>2. Unnamed(u)
    BY <1>3, <2>1 DEF NamesInv
  <2> QED
    BY <1>3, <1>8, <2>2, StaysThere
<1> QED
  BY <1>1, <1>2, <1>5, <1>6, <1>7, <1>8, <1>9, <1>10, PassedOn

\* A thread takes the tape at the head of its queue, which is fit for its processor.
LEMMA TakeAudio ==
  ASSUME IInv, NamesInv, AudioInv, NEW w \in Worker, Take(w)
  PROVE  NamesInv' /\ AudioInv'
<1>1. FilesTyped /\ Flow
  BY Split
<1>2. PICK p \in Queued : p = w[1]
  BY DEF Worker, Queued
<1>3. /\ worker[w].pc = "idle" /\ queue[p] # <<>> /\ UNCHANGED <<disk, tape, fate, told>>
      /\ worker' = [worker EXCEPT ![w] = [Idle EXCEPT !.pc = "work", !.tape = Head(queue[p])]]
      /\ queue' = [queue EXCEPT ![p] = Tail(queue[p])]
  BY <1>2 DEF Take
<1>4. queue \in [Queued -> Seq(Tape)]
  BY <1>1 DEF Flow, FlowTyped
<1>5. PICK u \in Tape : u = queue[p][1] /\ u = Head(queue[p]) /\ 1 \in DOMAIN queue[p]
  BY <1>3, <1>4
<1>6. \A t \in Tape : Undisturbed(t)
  BY <1>3 DEF Undisturbed
<1>7. /\ worker'[w].pc = "work" /\ worker'[w].tape = u
      /\ \A v \in Worker \ {w} : worker'[v] = worker[v]
  BY <1>1, <1>3, <1>5 DEF Flow, FlowTyped, Idle
<1>8. NamesInv'
  BY <1>3, NamesKept
<1>9. QueuesFit'
  <2> SUFFICES ASSUME NEW q \in Queued, NEW i \in DOMAIN queue'[q] PROVE Fit(q, queue[q][i])'
    BY DEF QueuesFit
  <2>1. \E j \in DOMAIN queue[q] : queue[q][j] = queue'[q][i]
    <3>1. CASE q = p
      <4>1. queue'[q] = Tail(queue[q]) /\ queue[q] \in Seq(Tape) /\ queue[q] # <<>>
        BY <1>3, <1>4, <3>1
      <4>2. i + 1 \in DOMAIN queue[q] /\ queue'[q][i] = queue[q][i + 1]
        BY <4>1
      <4> QED
        BY <4>2
    <3>2. CASE q # p
      BY <1>3, <1>4, <3>2
    <3> QED
      BY <3>1, <3>2
  <2>2. PICK t \in Tape : t = queue'[q][i] /\ Fit(q, t)
    BY <2>1, Placed DEF AudioInv, QueuesFit
  <2>3. Fit(q, t)'
    BY <1>1, <1>6, <2>2, StaysThere
  <2> QED
    BY <2>2, <2>3
<1>10. HandsFit'
  <2> SUFFICES ASSUME NEW v \in Worker, worker'[v].pc # "idle" PROVE InHand(v, worker[v].tape)'
    BY DEF HandsFit
  <2>1. CASE v = w
    <3>1. Fit(p, u)
      BY <1>5 DEF AudioInv, QueuesFit
    <3>2. Fit(p, u)'
      BY <1>1, <1>6, <3>1, StaysThere
    <3>3. PICK t \in Tape : t = u
      OBVIOUS
    <3>4. Fit(w[1], t)' /\ worker'[w].tape = t
      BY <1>2, <1>7, <3>2, <3>3
    <3> QED
      BY <1>7, <2>1, <3>4 DEF InHand
  <2>2. CASE v # w
    <3>1. worker'[v] = worker[v] /\ worker[v].pc # "idle"
      BY <1>7, <2>2
    <3>2. PICK t \in Tape : t = worker[v].tape
      BY <3>1, Placed
    <3>3. worker[v].from \in File /\ InHand(v, t)
      BY <3>1, <3>2, Placed DEF AudioInv, HandsFit
    <3>4. InHand(v, t)'
      BY <1>1, <1>6, <3>1, <3>3, StaysInHand
    <3> QED
      BY <3>1, <3>2, <3>4
  <2> QED
    BY <2>1, <2>2
<1>11. EndsFit'
  <2>1. \A t \in Tape : /\ Beyond(t) => Beyond(t)'
                        /\ Captured(t) => Captured(t)'
    BY <1>1, <1>6, StaysThere
  <2> QED
    BY <1>3, <2>1 DEF AudioInv, EndsFit
<1>12. ToldFit'
  <2> SUFFICES ASSUME NEW i \in DOMAIN told PROVE told[i].file = Wav(told[i].tape)'
    BY <1>3 DEF ToldFit
  <2>1. PICK t \in Tape : t = told[i].tape
    BY Placed
  <2>2. told[i].file = Wav(t) /\ Wav(t)' = Wav(t)
    BY <1>1, <1>6, <2>1, StaysThere DEF AudioInv, ToldFit
  <2> QED
    BY <1>3, <2>1, <2>2
<1> QED
  BY <1>8, <1>9, <1>10, <1>11, <1>12 DEF AudioInv

\* A step that leaves every tape and its files alone, and changes neither queues nor
\* threads nor messages; a tape may begin.
LEMMA AudioUndisturbed ==
  ASSUME IInv, AudioInv, \A t \in Tape : fate[t] # "new" => Undisturbed(t),
         \A t \in Tape : fate'[t] \in {"reported", "dropped"} => fate'[t] = fate[t],
         UNCHANGED <<queue, worker, told>>
  PROVE  AudioInv'
<1>1. FilesTyped
  BY Split
<1>2. QueuesFit'
  <2> SUFFICES ASSUME NEW p \in Queued, NEW i \in DOMAIN queue[p] PROVE Fit(p, queue[p][i])'
    BY DEF QueuesFit
  <2>1. PICK t \in Tape : t = queue[p][i]
    BY Placed
  <2>2. fate[t] # "new" /\ Fit(p, t)
    BY <2>1, Placed DEF AudioInv, QueuesFit
  <2>3. Fit(p, t)'
    BY <1>1, <2>2, StaysThere
  <2> QED
    BY <2>1, <2>3
<1>3. HandsFit'
  <2> SUFFICES ASSUME NEW v \in Worker, worker[v].pc # "idle" PROVE InHand(v, worker[v].tape)'
    BY DEF HandsFit
  <2>1. PICK t \in Tape : t = worker[v].tape
    BY Placed
  <2>2. fate[t] # "new" /\ worker[v].from \in File /\ InHand(v, t)
    BY <2>1, Placed DEF AudioInv, HandsFit
  <2>3. InHand(v, t)'
    BY <1>1, <2>2, StaysInHand
  <2> QED
    BY <2>1, <2>3
<1>4. EndsFit'
  <2> SUFFICES ASSUME NEW t \in Tape
               PROVE  /\ fate'[t] = "reported" => Beyond(t)'
                      /\ fate'[t] = "dropped" => Beyond(t)' \/ Captured(t)'
    BY DEF EndsFit
  <2>1. CASE fate'[t] \in {"reported", "dropped"}
    <3>1. fate'[t] = fate[t] /\ fate[t] # "new"
      BY <2>1
    <3> QED
      BY <1>1, <2>1, <3>1, StaysThere DEF AudioInv, EndsFit
  <2> QED
    BY <2>1
<1>5. ToldFit'
  <2> SUFFICES ASSUME NEW i \in DOMAIN told PROVE told[i].file = Wav(told[i].tape)'
    BY DEF ToldFit
  <2>1. PICK t \in Tape : t = told[i].tape
    BY Placed
  <2>2. fate[t] # "new" /\ told[i].file = Wav(t)
    BY <2>1, Placed DEF AudioInv, ToldFit
  <2>3. Wav(t)' = Wav(t)
    BY <1>1, <2>2, StaysThere
  <2> QED
    BY <2>1, <2>2, <2>3
<1> QED
  BY <1>2, <1>3, <1>4, <1>5 DEF AudioInv

\* A recording that begins has a second and port of its own, and thereby its files.
LEMMA OpenAudio ==
  ASSUME Careful, IInv, NamesInv, AudioInv, NEW u \in Tape, NEW b \in Base, Open(u, b)
  PROVE  NamesInv' /\ AudioInv'
<1>1. FilesTyped /\ Flow /\ fate \in [Tape -> FateName]
  BY Split DEF Flow, FlowTyped
<1>2. PICK i \in Ident : i = NotTaken("out", b, ".mcf", u)
  BY <1>1, NameTypes DEF Dir, Ext
<1>3. i.base = b /\ i.uid \in {NoTape, u}
  BY <1>2 DEF NotTaken
<1>4. /\ fate[u] = "new" /\ fate' = [fate EXCEPT ![u] = "recording"]
      /\ \A t \in Tape : tape[t].file = BaseFile(b) => fate[t] = "new"
      /\ tape' = [tape EXCEPT ![u].id = i, ![u].file = BaseFile(b)]
      /\ disk' = Written(BaseFile(b), Part(u))
      /\ UNCHANGED <<queue, worker, told>>
  BY <1>2 DEF Open, BaseFile, Careful
<1>5. BaseFile(b).id.base = b
  BY DEF BaseFile, Path
<1>6. /\ tape'[u].id = i /\ tape'[u].ext = tape[u].ext /\ tape'[u].file = BaseFile(b)
      /\ \A t \in Tape \ {u} : tape'[t] = tape[t]
  BY <1>1, <1>4, TapeParts DEF FilesTyped
<1>7. /\ fate'[u] = "recording" /\ \A t \in Tape \ {u} : fate'[t] = fate[t]
  BY <1>1, <1>4
<1>8. \A t \in Tape : fate[t] # "new" => t # u /\ BaseOf(t) # b /\ tape[t].id.base # b
  <2> SUFFICES ASSUME NEW t \in Tape, fate[t] # "new" PROVE t # u /\ BaseOf(t) # b /\ tape[t].id.base # b
    OBVIOUS
  <2>1. BaseOf(t) # b
    BY <1>4 DEF NamesInv
  <2>2. tape[t].id.base # b
    BY <2>1 DEF NamesInv, Unnamed, Careful
  <2> QED
    BY <1>4, <2>1, <2>2
<1>9. \A t \in Tape : fate[t] # "new" => Undisturbed(t)
  <2> SUFFICES ASSUME NEW t \in Tape, fate[t] # "new" PROVE Undisturbed(t)
    OBVIOUS
  <2>1. BaseFile(b) \notin Mine(t)
    BY <1>5, <1>8 DEF Mine
  <2>2. \A f \in Mine(t) : disk'[f] = disk[f]
    BY <1>1, <1>4, <2>1 DEF Written, Mine, FilesTyped
  <2> QED
    BY <1>6, <1>8, <2>2 DEF Undisturbed
<1>10. NamesInv'
  <2>1. BaseOf(u)' = b /\ \A t \in Tape \ {u} : BaseOf(t)' = BaseOf(t) /\ Unnamed(t)' = Unnamed(t)
    BY <1>5, <1>6 DEF BaseOf, Unnamed
  <2>2. \A c : BaseFile(c)' = BaseFile(c)
    BY DEF BaseFile, Path
  <2>3. Unnamed(u)'
    BY <1>3, <1>6, <2>1 DEF Unnamed
  <2>4. \A t \in Tape : tape'[t].ext = ".wav"
    BY <1>6 DEF NamesInv
  <2>5. \A t \in Tape : fate'[t] # "new" =>
          /\ BaseOf(t)' \in Base /\ tape'[t].file = BaseFile(BaseOf(t))'
          /\ tape'[t].id.uid \in {NoTape, t}
          /\ Unnamed(t)' \/ (NamingScheme /\ tape'[t].id.base \in FinalBase)
    <3> SUFFICES ASSUME NEW t \in Tape, fate'[t] # "new"
                 PROVE  /\ BaseOf(t)' \in Base /\ tape'[t].file = BaseFile(BaseOf(t))'
                        /\ tape'[t].id.uid \in {NoTape, t}
                        /\ Unnamed(t)' \/ (NamingScheme /\ tape'[t].id.base \in FinalBase)
      OBVIOUS
    <3>1. CASE t = u
      <4>1. tape'[u].file = BaseFile(BaseOf(u))'
        BY <1>6, <2>1, <2>2
      <4> QED
        BY <1>3, <1>6, <2>1, <2>3, <3>1, <4>1
    <3>2. CASE t # u
      <4>1. tape'[t].file = BaseFile(BaseOf(t))'
        BY <1>6, <1>7, <2>1, <2>2, <3>2 DEF NamesInv
      <4> QED
        BY <1>6, <1>7, <2>1, <3>2, <4>1 DEF NamesInv
    <3> QED
      BY <3>1, <3>2
  <2>6. \A t \in Tape : fate'[t] = "recording" => Unnamed(t)'
    BY <1>7, <2>1, <2>3 DEF NamesInv
  <2>7. \A t, x \in Tape : fate'[t] # "new" /\ fate'[x] # "new" /\ t # x =>
          BaseOf(t)' # BaseOf(x)' /\ tape'[t].id # tape'[x].id
    <3> SUFFICES ASSUME NEW t \in Tape, NEW x \in Tape, fate'[t] # "new", fate'[x] # "new", t # x
                 PROVE  BaseOf(t)' # BaseOf(x)' /\ tape'[t].id # tape'[x].id
      OBVIOUS
    <3>1. CASE t # u /\ x # u
      BY <1>6, <1>7, <2>1, <3>1 DEF NamesInv
    <3>2. CASE t = u
      <4>1. fate[x] # "new" /\ tape'[x] = tape[x] /\ BaseOf(x)' = BaseOf(x)
        BY <1>6, <1>7, <2>1, <3>2
      <4> QED
        BY <1>3, <1>6, <1>8, <2>1, <3>2, <4>1
    <3>3. CASE x = u
      <4>1. fate[t] # "new" /\ tape'[t] = tape[t] /\ BaseOf(t)' = BaseOf(t)
        BY <1>6, <1>7, <2>1, <3>3
      <4> QED
        BY <1>3, <1>6, <1>8, <2>1, <3>3, <4>1
    <3> QED
      BY <3>1, <3>2, <3>3
  <2> QED
    BY <2>4, <2>5, <2>6, <2>7 DEF NamesInv
<1>11. AudioInv'
  <2>1. \A t \in Tape : fate'[t] \in {"reported", "dropped"} => fate'[t] = fate[t]
    BY <1>7
  <2> QED
    BY <1>4, <1>9, <2>1, AudioUndisturbed
<1> QED
  BY <1>10, <1>11

\* A recording that is closed has its audio, whole, in its capture file.
LEMMA CloseAudio ==
  ASSUME Careful, IInv, IInv', NamesInv, AudioInv, NEW u \in Tape, Close(u)
  PROVE  NamesInv' /\ AudioInv'
<1>1. FilesTyped /\ Flow
  BY Split
<1>2. /\ fate[u] = "recording" /\ disk' = Written(tape[u].file, Whole(u))
      /\ UNCHANGED <<tape, worker>> /\ Enter("BatchProcessing", u)
  BY DEF Close, Careful
<1>3. "BatchProcessing" \in Processor
  BY DEF Processor, Queued
<1>4. NamesInv'
  BY <1>1, <1>2, <1>3, NamesHandedOver DEF HandsOver
<1>5. tape[u].file \in Mine(u) /\ Mine(u) \subseteq File
  BY <1>1, TapeFiles
<1>6. disk'[tape[u].file] = Whole(u) /\ \A f \in File \ Mine(u) : disk'[f] = disk[f]
  BY <1>1, <1>2, <1>5 DEF Written, FilesTyped
<1>7. \A t \in Tape \ {u} : fate[t] # "new" => Undisturbed(t)
  BY <1>1, <1>2, <1>6, OthersUndisturbed
<1>8. Captured(u)'
  <2>1. Unnamed(u)'
    BY <1>2 DEF NamesInv, Unnamed, BaseOf
  <2> QED
    BY <1>2, <1>6, <2>1 DEF Captured
<1>9. Fit("BatchProcessing", u)'
  BY <1>8 DEF Fit
<1>10. /\ \A q \in Queued : \A i \in DOMAIN queue[q] : queue[q][i] # u
       /\ \A w \in Worker : worker[w].pc # "idle" => worker[w].tape # u
  BY <1>2, Placed
<1>11. QueuesFit' /\ EndsFit' /\ ToldFit'
  BY <1>2, <1>3, <1>4, <1>7, <1>9, <1>10, Landing
<1>12. HandsFit'
  <2> SUFFICES ASSUME NEW v \in Worker, worker[v].pc # "idle" PROVE InHand(v, worker[v].tape)'
    BY <1>2 DEF HandsFit
  <2>1. PICK t \in Tape : t = worker[v].tape
    BY Placed
  <2>2. t # u /\ fate[t] # "new" /\ worker[v].from \in File /\ InHand(v, t)
    BY <1>10, <2>1, Placed DEF AudioInv, HandsFit
  <2>3. InHand(v, t)'
    BY <1>1, <1>2, <1>7, <2>2, StaysInHand
  <2> QED
    BY <1>2, <2>1, <2>3
<1> QED
  BY <1>4, <1>11, <1>12 DEF AudioInv

LEMMA InitAudio == Init => NamesInv /\ AudioInv
<1> SUFFICES ASSUME Init PROVE NamesInv /\ AudioInv
  OBVIOUS
<1>1. \A t \in Tape : fate[t] = "new" /\ tape[t].ext = ".wav"
  BY DEF Init, NewTape
<1>2. \A p \in Queued : DOMAIN queue[p] = {}
  BY DEF Init
<1>3. \A w \in Worker : worker[w].pc = "idle"
  BY DEF Init, Idle
<1>4. DOMAIN told = {}
  BY DEF Init
<1> QED
  BY <1>1, <1>2, <1>3, <1>4 DEF NamesInv, AudioInv, QueuesFit, HandsFit, EndsFit, ToldFit

LEMMA NextAudio ==
  ASSUME Careful, IInv, IInv', NamesInv, AudioInv, [Next]_vars
  PROVE  NamesInv' /\ AudioInv'
<1>1. CASE \E t \in Tape, b \in Base : Open(t, b)
  BY <1>1, OpenAudio
<1>2. CASE \E t \in Tape : Close(t)
  BY <1>2, CloseAudio
<1>3. ASSUME NEW w \in Worker, Take(w) PROVE NamesInv' /\ AudioInv'
  BY <1>3, TakeAudio
<1>4. ASSUME NEW w \in Worker, Process(w) PROVE NamesInv' /\ AudioInv'
  <2>1. CASE BatchTranscode(w)
    BY <2>1, TranscodeAudio
  <2>2. CASE BatchFinish(w)
    BY <2>2, BatchFinishAudio
  <2>3. CASE BatchFail(w)
    BY <2>3, BatchFailAudio
  <2>4. CASE SideRename(w) \/ SideCopy(w) \/ SideFail(w)
    BY <2>4, SideIdle
  <2>5. CASE NameChoose(w)
    BY <2>5, NameChooseAudio
  <2>6. CASE NameRename(w)
    BY <2>6, NameRenameAudio
  <2>7. CASE CommandNone(w)
    BY <2>7, CommandNoneAudio
  <2>8. CASE CommandMove(w)
    BY <2>8, CommandMoveAudio
  <2>9. CASE CommandRun(w)
    BY <2>9, CommandRunAudio
  <2>10. CASE CommandFinish(w)
    BY <2>10, CommandFinishAudio
  <2> QED
    BY <1>4, <2>1, <2>2, <2>3, <2>4, <2>5, <2>6, <2>7, <2>8, <2>9, <2>10 DEF Process
<1>5. CASE UNCHANGED vars
  <2>1. UNCHANGED <<disk, tape, fate, queue, worker, told>>
    BY <1>5 DEF vars
  <2>2. NamesInv'
    BY <2>1, NamesKept
  <2>3. \A t \in Tape : Undisturbed(t)
    BY <2>1 DEF Undisturbed
  <2> QED
    BY <2>1, <2>2, <2>3, AudioUndisturbed
<1> QED
  BY <1>1, <1>2, <1>3, <1>4, <1>5 DEF Next, ThreadStep

LEMMA AudioInvariant == ASSUME Careful PROVE Spec => [](IInv /\ NamesInv /\ AudioInv)
<1>1. Init => IInv /\ NamesInv /\ AudioInv
  BY InitIInv, InitAudio
<1>2. IInv /\ NamesInv /\ AudioInv /\ [Next]_vars => (IInv /\ NamesInv /\ AudioInv)'
  <2>1. IInv /\ [Next]_vars => IInv'
    BY NextIInv
  <2> QED
    BY <2>1, NextAudio
<1> QED
  BY <1>1, <1>2, PTL DEF Spec

\* From its closing on the audio of a recording is whole in some file: in its capture
\* file until it is transcoded, and after that in the file made of it.
THEOREM AudioStays == ASSUME Careful PROVE Spec => []AudioKept
<1>1. IInv /\ NamesInv /\ AudioInv => AudioKept
  <2> SUFFICES ASSUME IInv, NamesInv, AudioInv, NEW t \in Tape, fate[t] \in {"waiting", "dropped", "reported"}
               PROVE  \E f \in File : disk[f] = Whole(t)
    BY DEF AudioKept
  <2>1. FilesTyped /\ Flow
    BY Split
  <2>2. tape[t].file \in File /\ Wav(t) \in File /\ Aside(t) \in File
    BY <2>1, TapeFiles
  <2>3. Beyond(t) \/ Captured(t) => \E f \in File : disk[f] = Whole(t)
    BY <2>2 DEF Beyond, Captured, HasAside
  <2>4. \A p : Fit(p, t) => Beyond(t) \/ Captured(t)
    BY DEF Fit
  <2>5. CASE fate[t] \in {"dropped", "reported"}
    BY <2>3, <2>5 DEF AudioInv, EndsFit
  <2>6. CASE fate[t] = "waiting"
    <3>1. InPlace(t)
      BY <2>1, <2>6 DEF Flow, OnePlace
    <3>2. CASE \E p \in Queued : \E i \in DOMAIN queue[p] : queue[p][i] = t
      BY <2>3, <2>4, <3>2 DEF AudioInv, QueuesFit
    <3>3. CASE \E w \in Worker : worker[w].tape = t
      <4>1. PICK w \in Worker : worker[w].tape = t
        BY <3>3
      <4>2. worker[w].pc # "idle"
        BY <2>1, <4>1, ChainAssumption DEF Flow, ThreadsConsistent
      <4>3. InHand(w, t) /\ worker[w].from \in File
        BY <4>1, <4>2, WithTape
      <4> QED
        BY <2>2, <2>3, <2>4, <4>3 DEF InHand, Transcoded, Renaming, Setting, HasAside
    <3> QED
      BY <3>1, <3>2, <3>3 DEF InPlace
  <2> QED
    BY <2>5, <2>6
<1> QED
  BY <1>1, AudioInvariant, PTL

\* Without a command to take it away again, the file that a ready message names holds the
\* audio of its recording, whatever the other recordings' processors do after it is sent.
THEOREM ReportsTrue == ASSUME Careful, Command = "none" PROVE Spec => []AsReported
<1>1. IInv /\ NamesInv /\ AudioInv => AsReported
  <2> SUFFICES ASSUME IInv, AudioInv, NEW i \in DOMAIN told
               PROVE  disk[told[i].file] = Whole(told[i].tape)
    BY DEF AsReported
  <2>1. PICK t \in Tape : t = told[i].tape /\ fate[t] = "reported"
    BY Placed
  <2>2. Beyond(t) /\ told[i].file = Wav(t)
    BY <2>1 DEF AudioInv, EndsFit, ToldFit
  <2> QED
    BY <2>1, <2>2 DEF Beyond, HasAside
<1> QED
  BY <1>1, AudioInvariant, PTL

=============================================================================
