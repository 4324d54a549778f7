----------------------------- MODULE Ext2Proofs -----------------------------
(***************************************************************************)
(* The ext2 engine below its calls.  First the commit protocol             *)
(* (Ext2Commit), for every set of sectors and any number of operations,    *)
(* crashes and errors.  Then what the operators of Ext2Tree do to a        *)
(* volume, for every geometry and every contents: the bitmaps, the free    *)
(* counts, the block pointers, the records of directories and the room for *)
(* an overwrite.  Ext2TreeProofs builds on them.                           *)
(***************************************************************************)
EXTENDS Ext2Commit, Ext2Tree, LeastNumber, SequenceTheorems, FiniteSetTheorems, TLAPS

-----------------------------------------------------------------------------
(* The inductive invariant *)

Images == [Sectors -> 0..ops]

(* Types, and no image holds the number of an operation yet to come. *)
ImagesOK ==
  /\ durable \in Images /\ latest \in Images /\ mem \in Images
  /\ before \in Images /\ content \in Images /\ target \in Images
  /\ ops \in 0..MAX_OPS
  /\ durable_state \in {1, 2} /\ latest_state \in {1, 2}
  /\ lagging \subseteq Sectors /\ todo \subseteq Sectors \ {Super}
  /\ mounted \in BOOLEAN /\ chained \in BOOLEAN /\ acked \in BOOLEAN
  /\ phase \in Phases

(* What is not in the device's cache is on the medium. *)
LagOK ==
  /\ \A s \in Sectors \ lagging : durable[s] = latest[s]
  /\ Super \notin lagging => durable_state = latest_state

(* While either copy of the state word is clean, at most the superblock is  *)
(* in flight, and a clean mark in flight replaces an unclean one.           *)
StateOK ==
  /\ (durable_state = 1 \/ latest_state = 1) => lagging \subseteq {Super}
  /\ (latest_state = 1 /\ Super \in lagging) => durable_state = 2
  /\ (durable_state = 1 /\ latest_state = 2) => durable = content
  /\ latest_state = 1 => latest \in {content, target}

(* How far the operation in progress has brought the disk. *)
PhaseOK ==
  /\ phase # "idle" => mem = target
  /\ phase = "mark" =>
       /\ latest_state = 1 => latest = content
       /\ \A s \in Sectors \ (todo \cup {Super}) : latest[s] = target[s]
  /\ phase \in {"mark_flush", "data", "clean"} =>
       /\ latest_state = 2
       /\ \A s \in Sectors \ todo : latest[s] = target[s]
  /\ phase \in {"data", "clean"} => durable_state = 2
  /\ phase \in {"clean", "clean_flush"} => todo = {}
  /\ phase = "clean" => lagging = {}
  /\ phase = "clean_flush" => latest_state = 1 /\ latest = target

AckOK ==
  acked => phase = "idle" /\ lagging = {} /\ latest_state = 1 /\ latest = content

CommitInv ==
  ImagesOK /\ LagOK /\ StateOK /\ PhaseOK /\ AckOK /\ MetadataFresh /\ ChainedFresh

-----------------------------------------------------------------------------
(* A medium that is clean and whose reads are clean is what is read. *)
LEMMA CleanAgrees ==
  ASSUME ImagesOK, LagOK, StateOK, durable_state = 1, latest_state = 1
  PROVE  durable = latest
  <1>1. Super \notin lagging BY DEF StateOK
  <1>2. lagging = {} BY <1>1 DEF StateOK, ImagesOK
  <1>3. \A s \in Sectors : durable[s] = latest[s] BY <1>2 DEF LagOK
  <1> QED BY <1>3 DEF ImagesOK, Images

(* The invariant gives the two crash properties. *)
LEMMA InvGivesCrashSafety ==
  ASSUME CommitInv
  PROVE  CleanIsWhole /\ AckedIsDurable
  <1> USE DEF CommitInv
  <1>1. CleanIsWhole
    <2>1. CASE latest_state = 1
      BY <2>1, CleanAgrees DEF CleanIsWhole, StateOK
    <2>2. CASE latest_state = 2
      BY <2>2 DEF CleanIsWhole, StateOK
    <2> QED BY <2>1, <2>2 DEF ImagesOK
  <1>2. AckedIsDurable
    <2>1. acked => durable_state = latest_state
      BY DEF AckOK, LagOK
    <2> QED BY <2>1, CleanAgrees DEF AckedIsDurable, AckOK
  <1> QED BY <1>1, <1>2

(* A blank disk, nothing mounted. *)
LEMMA InitCommitInv == Init => CommitInv
  <1> SUFFICES ASSUME Init PROVE CommitInv OBVIOUS
  <1> USE DEF Init
  <1>1. Blank \in Images BY DEF Blank, Images
  <1>2. 0 \in 0..MAX_OPS BY CommitAssumption
  <1>3. mounted \in BOOLEAN /\ chained \in BOOLEAN /\ acked \in BOOLEAN OBVIOUS
  <1>4. todo \subseteq Sectors \ {Super} /\ lagging \subseteq Sectors OBVIOUS
  <1>5. ImagesOK BY <1>1, <1>2, <1>3, <1>4 DEF ImagesOK, Phases
  <1>6. LagOK /\ StateOK BY DEF LagOK, StateOK
  <1>7. PhaseOK /\ AckOK /\ MetadataFresh /\ ChainedFresh
    BY DEF PhaseOK, AckOK, MetadataFresh, ChainedFresh
  <1> QED BY <1>5, <1>6, <1>7 DEF CommitInv

(* The superblock is one of the metadata sectors. *)
LEMMA SuperIsSector == Super \in Sectors /\ Super \in Metadata
  BY DEF Sectors, Metadata

-----------------------------------------------------------------------------
(* Steps of the device *)

(* The drive writes back a sector of its cache. *)
LEMMA DestageInv ==
  ASSUME CommitInv, NEW s \in Sectors, Destage(s)
  PROVE  CommitInv'
  <1> USE DEF CommitInv, Destage
  <1>1. ImagesOK' BY DEF ImagesOK, Images
  <1>2. LagOK' BY DEF LagOK, ImagesOK, Images
  <1>3. StateOK'
    <2>1. (durable_state' = 1 \/ latest_state' = 1) => lagging' \subseteq {Super}
      BY DEF StateOK
    <2>2. (latest_state' = 1 /\ Super \in lagging') => durable_state' = 2
      BY DEF StateOK
    <2>3. (durable_state' = 1 /\ latest_state' = 2) => durable' = content'
      BY DEF StateOK, ImagesOK, Images
    <2> QED BY <2>1, <2>2, <2>3 DEF StateOK
  <1>4. PhaseOK'
    BY DEF PhaseOK, StateOK, ImagesOK
  <1>5. AckOK' BY DEF AckOK
  <1>6. MetadataFresh' /\ ChainedFresh' BY DEF MetadataFresh, ChainedFresh
  <1> QED BY <1>1, <1>2, <1>3, <1>4, <1>5, <1>6

(* Power goes: what lagged is lost, and the machine starts again. *)
LEMMA CrashInv ==
  ASSUME CommitInv, Crash
  PROVE  CommitInv'
  <1> USE DEF CommitInv, Crash
  <1>1. ImagesOK' BY DEF ImagesOK, Images, Phases
  <1>2. LagOK' BY DEF LagOK
  <1>3. StateOK'
    <2>1. durable_state = 1 => durable \in {content, target}
      BY InvGivesCrashSafety DEF CleanIsWhole
    <2> QED BY <2>1 DEF StateOK
  <1>4. PhaseOK' /\ AckOK' /\ MetadataFresh' /\ ChainedFresh'
    BY DEF PhaseOK, AckOK, MetadataFresh, ChainedFresh
  <1> QED BY <1>1, <1>2, <1>3, <1>4

-----------------------------------------------------------------------------
(* Steps between operations *)

(* engine_init() accepts a clean volume, or refuses one. *)
LEMMA MountInv ==
  ASSUME CommitInv, Mount \/ MountFails
  PROVE  CommitInv'
  <1> USE DEF CommitInv, Mount, MountFails, diskVars
  <1>1. ImagesOK' BY DEF ImagesOK, Images
  <1>2. LagOK' /\ StateOK' BY DEF LagOK, StateOK
  <1>3. PhaseOK' /\ AckOK' BY DEF PhaseOK, AckOK
  <1>4. MetadataFresh' /\ ChainedFresh' BY DEF MetadataFresh, ChainedFresh
  <1> QED BY <1>1, <1>2, <1>3, <1>4

(* An operation that fails puts the saved copies back. *)
LEMMA RollbackInv ==
  ASSUME CommitInv, NEW reset \in BOOLEAN, NEW cache_error \in BOOLEAN,
         Rollback(reset, cache_error)
  PROVE  CommitInv'
  <1> USE DEF CommitInv, Rollback, diskVars
  <1>1. Saved(reset) \in Images
    BY DEF ImagesOK, Images, Saved
  <1>2. ops' \in 0..MAX_OPS /\ 0..ops \subseteq 0..ops'
    BY CommitAssumption DEF ImagesOK
  <1>3. ImagesOK'
    BY <1>1, <1>2 DEF ImagesOK, Images
  <1>4. LagOK' /\ StateOK' /\ PhaseOK' /\ AckOK' /\ ChainedFresh'
    BY DEF LagOK, StateOK, PhaseOK, AckOK, ChainedFresh
  <1>5. MetadataFresh'
    BY DEF MetadataFresh, Saved, Sectors
  <1> QED BY <1>3, <1>4, <1>5

(* What an operation starts from is what the disk holds. *)
LEMMA LoadedIsLatest ==
  ASSUME CommitInv, NEW reset \in BOOLEAN, phase = "idle", mounted, reset \/ chained
  PROVE  /\ Loaded(reset) = latest
         /\ Saved(reset) \in Images
         /\ latest_state = 1
         /\ \A s \in Sectors : s \in Metadata \/ reset => Saved(reset)[s] = latest[s]
  BY DEF CommitInv, MetadataFresh, ChainedFresh, Loaded, Saved, ImagesOK, Images, Sectors

(* An operation changes the cached blocks. *)
LEMMA OperateInv ==
  ASSUME CommitInv, NEW D \in SUBSET Sectors, NEW reset \in BOOLEAN, Operate(D, reset)
  PROVE  CommitInv'
  <1> USE DEF CommitInv, diskVars
  <1> DEFINE image == Update(Loaded(reset), D)
             old == Saved(reset)
  <1>1. /\ phase = "idle" /\ mounted /\ (reset \/ chained)
        /\ ops' = ops + 1 /\ ops < MAX_OPS
        /\ before' = old /\ mem' = image /\ chained' = reset
        /\ UNCHANGED <<diskVars, mounted>>
    BY DEF Operate
  <1>2. /\ Loaded(reset) = latest /\ old \in Images /\ latest_state = 1
        /\ \A s \in Sectors : s \in Metadata \/ reset => old[s] = latest[s]
    BY <1>1, LoadedIsLatest
  <1>3. ops' \in 0..MAX_OPS /\ ops \in Nat /\ 0..ops \subseteq 0..ops' /\ ops + 1 \in 0..ops'
    BY <1>1, CommitAssumption DEF ImagesOK
  <1>4. image \in [Sectors -> 0..ops']
    BY <1>2, <1>3 DEF ImagesOK, Images, Update
  <1>5. \A s \in Sectors : image[s] = (IF s \in D THEN ops + 1 ELSE latest[s])
    BY <1>2 DEF Update
  <1>6. \A s \in Sectors : old[s] # ops + 1
    BY <1>2, <1>3 DEF Images
  <1>7. \A s \in Sectors : image[s] = old[s] => image[s] = latest[s]
    BY <1>5, <1>6
  <1>8. LagOK' BY <1>1 DEF LagOK
  <1>9. CASE Changed(image, old) = {}
    <2>1. image = old /\ image = latest
      BY <1>2, <1>4, <1>7, <1>9 DEF Changed, Images, ImagesOK
    <2>2. UNCHANGED <<phase, todo, acked, content, target>>
      BY <1>9 DEF Operate
    <2>3. ImagesOK' BY <1>1, <1>2, <1>3, <1>4, <2>2 DEF ImagesOK, Images
    <2>4. StateOK' /\ PhaseOK' /\ AckOK'
      BY <1>1, <2>2 DEF StateOK, PhaseOK, AckOK
    <2>5. MetadataFresh' /\ ChainedFresh'
      BY <1>1, <1>2, <2>1, <2>2 DEF MetadataFresh, ChainedFresh, Sectors
    <2> QED BY <1>8, <2>3, <2>4, <2>5
  <1>10. CASE Changed(image, old) # {}
    <2>1. /\ phase' = "mark" /\ todo' = Changed(image, old) \ {Super}
          /\ content' = latest /\ target' = image /\ acked' = FALSE
      BY <1>10 DEF Operate
    <2>2. ImagesOK'
      BY <1>1, <1>2, <1>3, <1>4, <2>1 DEF ImagesOK, Images, Changed, Phases
    <2>3. StateOK' BY <1>1, <1>2, <2>1 DEF StateOK
    <2>4. \A s \in Sectors \ (todo' \cup {Super}) : latest[s] = image[s]
      BY <1>7, <2>1 DEF Changed
    <2>5. PhaseOK' BY <1>1, <2>1, <2>4 DEF PhaseOK
    <2>6. AckOK' /\ MetadataFresh' /\ ChainedFresh'
      BY <2>1 DEF AckOK, MetadataFresh, ChainedFresh
    <2> QED BY <1>8, <2>2, <2>3, <2>5, <2>6
  <1> QED BY <1>9, <1>10

(* fs_format_selected() begins to write a new image. *)
LEMMA FormatInv ==
  ASSUME CommitInv, Format
  PROVE  CommitInv'
  <1> USE DEF CommitInv, Format, diskVars
  <1>1. ops' \in 0..MAX_OPS /\ 0..ops \subseteq 0..ops' /\ ops + 1 \in 0..ops'
    BY CommitAssumption DEF ImagesOK
  <1>2. mem' \in [Sectors -> 0..ops'] BY <1>1
  <1>3. ImagesOK' BY <1>1, <1>2 DEF ImagesOK, Images, Phases
  <1>4. LagOK' BY DEF LagOK
  <1>5. StateOK' BY DEF StateOK, ImagesOK
  <1>6. PhaseOK' BY DEF PhaseOK
  <1>7. AckOK' /\ MetadataFresh' /\ ChainedFresh'
    BY DEF AckOK, MetadataFresh, ChainedFresh
  <1> QED BY <1>3, <1>4, <1>5, <1>6, <1>7

-----------------------------------------------------------------------------
(* Steps of finish *)

(* The volume is marked unclean before anything else is written. *)
LEMMA MarkInv ==
  ASSUME CommitInv, MarkUnclean \/ FlushMark
  PROVE  CommitInv'
  <1> USE SuperIsSector DEF CommitInv
  <1>1. CASE MarkUnclean
    <2> USE <1>1 DEF MarkUnclean, Store
    <2>1. ImagesOK' BY DEF ImagesOK, Images, Phases
    <2>2. LagOK' BY DEF LagOK, ImagesOK, Images
    <2>3. durable_state = 1 => durable = content
      BY CleanAgrees DEF StateOK, PhaseOK, ImagesOK
    <2>4. StateOK' BY <2>3 DEF StateOK
    <2>5. PhaseOK' BY DEF PhaseOK, ImagesOK, Images
    <2>6. AckOK' /\ MetadataFresh' /\ ChainedFresh'
      BY DEF AckOK, MetadataFresh, ChainedFresh
    <2> QED BY <2>1, <2>2, <2>4, <2>5, <2>6
  <1>2. CASE FlushMark
    <2> USE <1>2 DEF FlushMark, Flush
    <2>1. ImagesOK' BY DEF ImagesOK, Images, Phases
    <2>2. LagOK' /\ StateOK' BY DEF LagOK, StateOK, PhaseOK
    <2>3. PhaseOK' BY DEF PhaseOK
    <2>4. AckOK' /\ MetadataFresh' /\ ChainedFresh'
      BY DEF AckOK, MetadataFresh, ChainedFresh
    <2> QED BY <2>1, <2>2, <2>3, <2>4
  <1> QED BY <1>1, <1>2

(* A sector stored while both state words are unclean *)
LEMMA StoreDataInv ==
  ASSUME CommitInv, phase = "data", NEW s \in todo, Store(s, 0),
         UNCHANGED <<mem, before, content, target, ops>>,
         mounted' \in BOOLEAN, chained' \in BOOLEAN, acked' \in BOOLEAN
  PROVE  /\ latest' \in Images /\ lagging' \subseteq Sectors
         /\ LagOK' /\ StateOK'
         /\ latest_state' = 2 /\ durable_state' = 2
         /\ \A t \in Sectors \ (todo \ {s}) : latest'[t] = target[t]
  <1> USE DEF CommitInv, Store
  <1>1. s \in Sectors /\ s # Super BY DEF ImagesOK
  <1>2. latest' \in Images /\ lagging' \subseteq Sectors BY <1>1 DEF ImagesOK, Images
  <1>3. latest_state' = 2 /\ durable_state' = 2 BY <1>1 DEF PhaseOK
  <1>4. LagOK' /\ StateOK' BY <1>1, <1>3 DEF LagOK, StateOK, ImagesOK, Images
  <1>5. \A t \in Sectors \ (todo \ {s}) : latest'[t] = target[t]
    BY <1>1 DEF PhaseOK, ImagesOK, Images
  <1> QED BY <1>2, <1>3, <1>4, <1>5

(* A changed sector goes to the drive. *)
LEMMA WriteSectorInv ==
  ASSUME CommitInv, NEW s \in Sectors, WriteSector(s)
  PROVE  CommitInv'
  <1> USE DEF CommitInv, WriteSector
  <1>1. /\ latest' \in Images /\ lagging' \subseteq Sectors
        /\ LagOK' /\ StateOK'
        /\ latest_state' = 2 /\ durable_state' = 2
        /\ \A t \in Sectors \ (todo \ {s}) : latest'[t] = target[t]
    BY StoreDataInv DEF ImagesOK
  <1>2. ImagesOK' BY <1>1 DEF ImagesOK, Images, Store
  <1>3. PhaseOK' BY <1>1 DEF PhaseOK
  <1>4. AckOK' /\ MetadataFresh' /\ ChainedFresh'
    BY DEF AckOK, MetadataFresh, ChainedFresh
  <1> QED BY <1>1, <1>2, <1>3, <1>4

(* The flush that separates the sectors from the clean mark. *)
LEMMA FlushDataInv ==
  ASSUME CommitInv, FlushData
  PROVE  CommitInv'
  <1> USE DEF CommitInv, FlushData, Flush
  <1>1. ImagesOK' BY DEF ImagesOK, Images, Phases
  <1>2. LagOK' /\ StateOK' BY DEF LagOK, StateOK, PhaseOK
  <1>3. PhaseOK' BY DEF PhaseOK
  <1>4. AckOK' /\ MetadataFresh' /\ ChainedFresh'
    BY DEF AckOK, MetadataFresh, ChainedFresh
  <1> QED BY <1>1, <1>2, <1>3, <1>4

(* Storing the clean mark: the disk is then the target. *)
LEMMA StoreCleanInv ==
  ASSUME CommitInv, phase = "clean", Store(Super, 1),
         UNCHANGED <<mem, content, target, ops>>
  PROVE  /\ latest' \in Images /\ lagging' = {Super} /\ latest_state' = 1
         /\ latest' = target
         /\ LagOK' /\ StateOK'
  <1> USE SuperIsSector DEF CommitInv, Store
  <1>1. latest' \in Images BY DEF ImagesOK, Images
  <1>2. lagging' = {Super} /\ latest_state' = 1 /\ durable_state' = 2
    BY DEF PhaseOK
  <1>3. \A t \in Sectors : latest'[t] = target[t]
    BY DEF PhaseOK, ImagesOK, Images
  <1>4. latest' = target BY <1>1, <1>3 DEF ImagesOK, Images
  <1>5. LagOK' /\ StateOK'
    BY <1>2, <1>4 DEF LagOK, StateOK, ImagesOK, Images
  <1> QED BY <1>1, <1>2, <1>4, <1>5

(* The clean mark is written, and flushed, last. *)
LEMMA CleanInv ==
  ASSUME CommitInv, MarkClean \/ FlushClean
  PROVE  CommitInv'
  <1> USE SuperIsSector DEF CommitInv
  <1>1. CASE MarkClean
    <2>1. /\ latest' \in Images /\ lagging' = {Super} /\ latest_state' = 1
          /\ latest' = target
          /\ LagOK' /\ StateOK'
      BY <1>1, StoreCleanInv DEF MarkClean
    <2> USE <1>1 DEF MarkClean
    <2>2. ImagesOK' BY <2>1 DEF ImagesOK, Images, Phases, Store
    <2>3. PhaseOK' BY <2>1 DEF PhaseOK
    <2>4. AckOK' /\ MetadataFresh' /\ ChainedFresh'
      BY DEF AckOK, MetadataFresh, ChainedFresh
    <2> QED BY <2>1, <2>2, <2>3, <2>4
  <1>2. CASE FlushClean
    <2> USE <1>2 DEF FlushClean, Flush
    <2>1. ImagesOK' BY DEF ImagesOK, Images, Phases
    <2>2. LagOK' /\ StateOK' BY DEF LagOK, StateOK, PhaseOK
    <2>3. PhaseOK' BY DEF PhaseOK
    <2>4. AckOK' BY DEF AckOK, PhaseOK
    <2>5. MetadataFresh' /\ ChainedFresh'
      BY DEF MetadataFresh, ChainedFresh, PhaseOK
    <2> QED BY <2>1, <2>2, <2>3, <2>4, <2>5
  <1> QED BY <1>1, <1>2

(* A write or a flush fails, wherever the commit stands. *)
LEMMA IoErrorInv ==
  ASSUME CommitInv, IoError
  PROVE  CommitInv'
  <1> USE SuperIsSector DEF CommitInv
  <1>1. PhaseOK' /\ AckOK' /\ MetadataFresh' /\ ChainedFresh'
    BY DEF IoError, PhaseOK, AckOK, MetadataFresh, ChainedFresh
  <1>2. CASE UNCHANGED diskVars
    <2>1. ImagesOK' BY <1>2 DEF IoError, diskVars, ImagesOK, Images, Phases
    <2>2. LagOK' /\ StateOK' BY <1>2 DEF IoError, diskVars, LagOK, StateOK
    <2> QED BY <1>1, <2>1, <2>2
  <1>3. CASE phase = "mark" /\ Store(Super, 2)
    <2> USE <1>3 DEF IoError, Store
    <2>1. ImagesOK' BY DEF ImagesOK, Images, Phases
    <2>2. LagOK' BY DEF LagOK, ImagesOK, Images
    <2>3. durable_state = 1 => durable = content
      BY CleanAgrees DEF StateOK, PhaseOK, ImagesOK
    <2>4. StateOK' BY <2>3 DEF StateOK
    <2> QED BY <1>1, <2>1, <2>2, <2>4
  <1>4. CASE phase = "clean" /\ Store(Super, 1)
    <2>1. latest' \in Images /\ LagOK' /\ StateOK'
      BY <1>4, StoreCleanInv DEF IoError
    <2>2. ImagesOK' BY <1>4, <2>1 DEF IoError, Store, ImagesOK, Images, Phases
    <2> QED BY <1>1, <2>1, <2>2
  <1>5. CASE phase = "data" /\ \E s \in todo : Store(s, 0)
    <2>1. PICK s \in todo : Store(s, 0) BY <1>5
    <2>2. latest' \in Images /\ LagOK' /\ StateOK' /\ lagging' \subseteq Sectors
      BY <1>5, <2>1, StoreDataInv DEF IoError, ImagesOK
    <2>3. ImagesOK'
      BY <2>1, <2>2, <1>5 DEF IoError, Store, ImagesOK, Images, Phases
    <2> QED BY <1>1, <2>2, <2>3
  <1> QED BY <1>2, <1>3, <1>4, <1>5 DEF IoError

-----------------------------------------------------------------------------
(* Every step keeps the invariant. *)
LEMMA StepCommitInv == CommitInv /\ [Next]_vars => CommitInv'
  <1> SUFFICES ASSUME CommitInv, [Next]_vars PROVE CommitInv' OBVIOUS
  <1>1. CASE UNCHANGED vars
    BY <1>1 DEF vars, diskVars, CommitInv, ImagesOK, Images, LagOK, StateOK,
                PhaseOK, AckOK, MetadataFresh, ChainedFresh
  <1>2. CASE Mount \/ MountFails BY <1>2, MountInv
  <1>3. CASE \E D \in SUBSET Sectors, reset \in BOOLEAN : Operate(D, reset)
    BY <1>3, OperateInv
  <1>4. CASE \E reset, cache_error \in BOOLEAN : Rollback(reset, cache_error)
    BY <1>4, RollbackInv
  <1>5. CASE Format BY <1>5, FormatInv
  <1>6. CASE Finish
    BY <1>6, MarkInv, WriteSectorInv, FlushDataInv, CleanInv, IoErrorInv DEF Finish
  <1>7. CASE \E s \in Sectors : Destage(s) BY <1>7, DestageInv
  <1>8. CASE Crash BY <1>8, CrashInv
  <1> QED BY <1>1, <1>2, <1>3, <1>4, <1>5, <1>6, <1>7, <1>8 DEF Next

(* The invariant of the commit protocol holds always. *)
LEMMA CommitInvariant == Spec => []CommitInv
  BY InitCommitInv, StepCommitInv, PTL DEF Spec

(* Crash safety of finish and fs_format_selected: on every volume, after any *)
(* history of operations, I/O errors and power losses, a medium whose state  *)
(* word says clean carries one whole image.                                  *)
THEOREM CleanIsWholeAlways == Spec => []CleanIsWhole
  <1>1. CommitInv => CleanIsWhole BY InvGivesCrashSafety
  <1> QED BY <1>1, CommitInvariant, PTL

(* Durability: what finish reported as done is on the medium. *)
THEOREM AckedIsDurableAlways == Spec => []AckedIsDurable
  <1>1. CommitInv => AckedIsDurable BY InvGivesCrashSafety
  <1> QED BY <1>1, CommitInvariant, PTL

(* Rollback is complete: the copies of superblock and descriptors that the   *)
(* next operation starts from, and a cache that is used twice, are what the  *)
(* disk holds.                                                               *)
THEOREM MemoryFreshAlways == Spec => []MemoryFresh
  <1>1. CommitInv => MemoryFresh BY DEF CommitInv, MemoryFresh
  <1> QED BY <1>1, CommitInvariant, PTL

-----------------------------------------------------------------------------
(* Numbers *)

(* Division with remainder, for groups and for blocks of a file. *)
LEMMA DivFact ==
  ASSUME NEW a \in Nat, NEW b \in Nat \ {0}
  PROVE  a \div b \in Nat /\ a % b \in 0 .. b - 1 /\ a = (a \div b) * b + (a % b)
<1>1. a \div b \in Nat /\ a % b \in 0 .. b - 1
  OBVIOUS
<1>2. a = (a \div b) * b + (a % b)
  <2>1. a \in Int /\ b \in Int /\ b > 0
    OBVIOUS
  <2> QED BY <2>1
<1> QED BY <1>1, <1>2

(* The quotient is the only number whose multiple lies that near. *)
LEMMA DivUnique ==
  ASSUME NEW a \in Nat, NEW b \in Nat \ {0}, NEW q \in Nat, q * b <= a, a < q * b + b
  PROVE  a \div b = q
<1> DEFINE p == a \div b
           m == a % b
<1>1. p \in Nat /\ m \in 0 .. b - 1 /\ a = p * b + m
  BY DivFact
<1> HIDE DEF p, m
<1>2. CASE p < q
  <2>1. PICK r \in Nat : q = p + 1 + r
    <3>1. q - p - 1 \in Nat /\ q = p + 1 + (q - p - 1)
      BY <1>1, <1>2
    <3> QED BY <3>1
  <2>2. q * b = p * b + b + r * b /\ r * b >= 0
    BY <1>1, <2>1
  <2> QED BY <1>1, <2>2
<1>3. CASE q < p
  <2>1. PICK r \in Nat : p = q + 1 + r
    <3>1. p - q - 1 \in Nat /\ p = q + 1 + (p - q - 1)
      BY <1>1, <1>3
    <3> QED BY <3>1
  <2>2. p * b = q * b + b + r * b /\ r * b >= 0
    BY <1>1, <2>1
  <2> QED BY <1>1, <2>2
<1> QED BY <1>1, <1>2, <1>3 DEF p

(* Multiples are ordered as their factors. *)
LEMMA Multiples ==
  ASSUME NEW a \in Nat, NEW b \in Nat, NEW c \in Nat
  PROVE  a * c \in Nat /\ (a <= b => a * c <= b * c) /\ (a < b => a * c + c <= b * c)
<1>1. \A x \in Nat : x * c \in Nat
  OBVIOUS
<1>2. ASSUME a <= b PROVE a * c <= b * c
  <2>1. PICK r \in Nat : b = a + r
    <3>1. b - a \in Nat /\ b = a + (b - a)
      BY <1>2
    <3> QED BY <3>1
  <2>2. b * c = a * c + r * c /\ r * c \in Nat
    BY <1>1, <2>1
  <2> QED BY <1>1, <2>2
<1>3. ASSUME a < b PROVE a * c + c <= b * c
  <2>1. PICK r \in Nat : b = a + 1 + r
    <3>1. b - a - 1 \in Nat /\ b = a + 1 + (b - a - 1)
      BY <1>3
    <3> QED BY <3>1
  <2>2. b * c = a * c + c + r * c /\ r * c \in Nat
    BY <1>1, <2>1
  <2> QED BY <1>1, <2>2
<1> QED BY <1>1, <1>2, <1>3

-----------------------------------------------------------------------------
(* Groups *)

(* There is a group, and every group has a block. *)
LEMMA GroupsAre ==
  /\ GROUPS \in Nat \ {0}
  /\ \A g \in Groups : g \in Nat /\ g < GROUPS /\ g * BLOCKS_PER_GROUP \in Nat
                       /\ g * BLOCKS_PER_GROUP <= BLOCKS - 2
  /\ BLOCKS - 2 < GROUPS * BLOCKS_PER_GROUP
<1> DEFINE B == BLOCKS_PER_GROUP
           q == (BLOCKS - 2) \div B
           m == (BLOCKS - 2) % B
<1>1. BLOCKS - 2 \in Nat /\ B \in Nat \ {0}
  BY TreeAssumption
<1>2. q \in Nat /\ m \in 0 .. B - 1 /\ BLOCKS - 2 = q * B + m
  BY <1>1, DivFact
<1>3. GROUPS = q + 1
  BY DEF GROUPS
<1> HIDE DEF q, m, B
<1>4. ASSUME NEW g \in Groups PROVE g \in Nat /\ g < GROUPS /\ g * B \in Nat /\ g * B <= BLOCKS - 2
  <2>1. g \in Nat /\ g <= q
    BY <1>2, <1>3, <1>4 DEF Groups
  <2>2. g * B \in Nat /\ g * B <= q * B /\ q * B \in Nat
    BY <1>1, <1>2, <2>1, Multiples
  <2> QED BY <1>1, <1>2, <1>3, <2>1, <2>2
<1>5. GROUPS * B = q * B + B /\ q * B \in Nat
  BY <1>1, <1>2, <1>3, Multiples
<1> QED BY <1>1, <1>2, <1>3, <1>4, <1>5 DEF B

(* A block is a candidate of the group that release finds for it. *)
LEMMA BlockGroup ==
  ASSUME NEW b \in Blocks
  PROVE  GroupOf("block", b) \in Groups /\ b \in Candidates("block", GroupOf("block", b))
<1> DEFINE B == BLOCKS_PER_GROUP
           g == (b - 1) \div B
<1>1. b \in Nat /\ b >= 1 /\ b <= BLOCKS - 1 /\ b - 1 \in Nat /\ B \in Nat \ {0} /\ BLOCKS \in Nat
  BY TreeAssumption DEF Blocks
<1>2. GroupOf("block", b) = g
  BY DEF GroupOf
<1>3. g \in Nat /\ \E m \in 0 .. B - 1 : b - 1 = g * B + m
  BY <1>1, DivFact
<1> HIDE DEF g, B
<1>4. g * B \in Nat /\ g * B <= b - 1 /\ b - 1 < g * B + B
  BY <1>1, <1>3, Multiples
<1>5. g < GROUPS
  <2>1. GROUPS \in Nat /\ BLOCKS - 2 < GROUPS * B
    BY GroupsAre DEF B
  <2>2. GROUPS <= g => GROUPS * B <= g * B /\ GROUPS * B \in Nat
    BY <1>1, <1>3, <2>1, Multiples
  <2> QED BY <1>1, <1>3, <1>4, <2>1, <2>2
<1>6. g \in Groups
  BY <1>3, <1>5, GroupsAre DEF Groups
<1>7. Candidates("block", g) = 1 + g * B .. 1 + g * B + GroupSize(g) - 1
  BY DEF Candidates, GroupStart, B
<1>8. GroupSize(g) = IF BLOCKS - (1 + g * B) < B THEN BLOCKS - (1 + g * B) ELSE B
  BY DEF GroupSize, GroupStart, B
<1>9. b \in Candidates("block", g)
  BY <1>1, <1>4, <1>7, <1>8
<1> QED BY <1>2, <1>6, <1>9

(* And of no other group. *)
LEMMA BlockOfGroup ==
  ASSUME NEW g \in Groups, NEW b \in Candidates("block", g)
  PROVE  b \in Blocks /\ GroupOf("block", b) = g
<1> DEFINE B == BLOCKS_PER_GROUP
           a == g * B
<1>1. B \in Nat \ {0} /\ BLOCKS \in Nat /\ g \in Nat /\ a \in Nat /\ a <= BLOCKS - 2
  BY TreeAssumption, GroupsAre
<1>2. Candidates("block", g) = 1 + a .. 1 + a + GroupSize(g) - 1
  BY DEF Candidates, GroupStart
<1>3. GroupSize(g) = IF BLOCKS - (1 + a) < B THEN BLOCKS - (1 + a) ELSE B
  BY DEF GroupSize, GroupStart
<1>4. GroupOf("block", b) = (b - 1) \div B
  BY DEF GroupOf
<1> HIDE DEF a
<1>5. b \in Nat /\ b - 1 \in Nat /\ a <= b - 1 /\ b - 1 < a + B /\ b <= BLOCKS - 1
  BY <1>1, <1>2, <1>3
<1>6. (b - 1) \div B = g
  BY <1>1, <1>5, DivUnique DEF a
<1> QED BY <1>1, <1>4, <1>5, <1>6 DEF Blocks

(* An inode that is not reserved is a candidate of its group. *)
LEMMA InodeGroup ==
  ASSUME NEW n \in Inodes
  PROVE  /\ GroupOf("inode", n) \in Groups
         /\ n >= FIRST_INODE => n \in Candidates("inode", GroupOf("inode", n))
<1> DEFINE I == INODES_PER_GROUP
           g == (n - 1) \div I
<1>1. n \in Nat /\ n >= 1 /\ n <= GROUPS * I /\ n - 1 \in Nat /\ I \in Nat \ {0} /\ GROUPS \in Nat
      /\ GROUPS * I \in Nat
  BY TreeAssumption, GroupsAre, Multiples DEF Inodes
<1>2. GroupOf("inode", n) = g
  BY DEF GroupOf
<1>3. g \in Nat /\ \E m \in 0 .. I - 1 : n - 1 = g * I + m
  BY <1>1, DivFact
<1>4. Candidates("inode", g) = g * I + (IF g = 0 THEN FIRST_INODE ELSE 1) .. (g + 1) * I
  BY DEF Candidates
<1> HIDE DEF g, I
<1>5. g * I \in Nat /\ g * I <= n - 1 /\ n - 1 < g * I + I /\ (g + 1) * I = g * I + I
  BY <1>1, <1>3, Multiples
<1>6. g < GROUPS
  <2>1. GROUPS <= g => GROUPS * I <= g * I
    BY <1>1, <1>3, Multiples
  <2> QED BY <1>1, <1>3, <1>5, <2>1
<1>7. g \in Groups
  BY <1>1, <1>3, <1>6 DEF Groups
<1>8. ASSUME n >= FIRST_INODE PROVE n \in Candidates("inode", g)
  <2>1. FIRST_INODE \in Nat /\ (g = 0 => g * I = 0)
    BY TreeAssumption, <1>1
  <2> QED BY <1>1, <1>3, <1>4, <1>5, <1>8, <2>1
<1> QED BY <1>2, <1>7, <1>8

(* And of no other group. *)
LEMMA InodeOfGroup ==
  ASSUME NEW g \in Groups, NEW n \in Candidates("inode", g)
  PROVE  n \in Inodes /\ n >= FIRST_INODE /\ GroupOf("inode", n) = g
<1> DEFINE I == INODES_PER_GROUP
           a == g * I
<1>1. I \in Nat \ {0} /\ g \in Nat /\ a \in Nat /\ GROUPS \in Nat /\ g < GROUPS
      /\ FIRST_INODE \in 3 .. I + 1
  BY TreeAssumption, GroupsAre, Multiples
<1>2. (g + 1) * I = a + I /\ a + I <= GROUPS * I /\ GROUPS * I \in Nat
  <2>1. a + I <= GROUPS * I /\ GROUPS * I \in Nat
    BY <1>1, Multiples
  <2> QED BY <1>1, <2>1
<1>3. Candidates("inode", g) = a + (IF g = 0 THEN FIRST_INODE ELSE 1) .. (g + 1) * I
  BY DEF Candidates
<1>4. GroupOf("inode", n) = (n - 1) \div I
  BY DEF GroupOf
<1>5. g = 0 => a = 0
  BY <1>1
<1>6. g # 0 => a >= I
  <2>1. 0 < g => 0 * I + I <= g * I
    BY <1>1, Multiples
  <2> QED BY <1>1, <2>1
<1> HIDE DEF a
<1>7. n \in Nat /\ n - 1 \in Nat /\ a <= n - 1 /\ n - 1 < a + I /\ n >= 1 /\ n <= GROUPS * I
  BY <1>1, <1>2, <1>3
<1>8. n >= FIRST_INODE
  BY <1>1, <1>2, <1>3, <1>5, <1>6, <1>7
<1>9. (n - 1) \div I = g
  BY <1>1, <1>7, DivUnique DEF a
<1> QED BY <1>1, <1>4, <1>7, <1>8, <1>9 DEF Inodes

-----------------------------------------------------------------------------
(* Sums *)

(* Running sums of tables that agree are the same as far as both go. *)
LEMMA SumsAgree ==
  ASSUME NEW n \in Nat, NEW m \in Nat, NEW s, NEW t, NEW f, NEW h, n <= m,
         Sums(f, s, n), Sums(h, t, m), \A j \in 1 .. n : s[j] = t[j]
  PROVE  \A j \in 0 .. n : f[j] = h[j]
<1> DEFINE Bad == {j \in 0 .. n : f[j] # h[j]}
<1>1. SUFFICES ASSUME Bad # {} PROVE FALSE
  OBVIOUS
<1>2. PICK j \in Bad : \A i \in Bad : j <= i
  <2>1. Bad \in SUBSET Nat
    OBVIOUS
  <2> QED BY <1>1, <2>1, LeastNat
<1>3. j \in Nat /\ j \in 0 .. n /\ j \in 0 .. m
  OBVIOUS
<1> DEFINE P(x, y) == x + y
<1>4. f[j] = IF j = 0 THEN 0 ELSE P(f[j - 1], s[j])
  BY <1>3 DEF Sums
<1>5. h[j] = IF j = 0 THEN 0 ELSE P(h[j - 1], t[j])
  BY <1>3 DEF Sums
<1> HIDE DEF P
<1>6. j # 0
  BY <1>2, <1>4, <1>5
<1>7. f[j - 1] = h[j - 1] /\ s[j] = t[j]
  <2>1. j - 1 \in 0 .. n /\ ~(j <= j - 1) /\ j \in 1 .. n
    BY <1>3, <1>6
  <2>2. j - 1 \notin Bad
    BY <1>2, <2>1
  <2> QED BY <2>1, <2>2
<1> QED BY <1>2, <1>4, <1>5, <1>6, <1>7

(* A sum of nothing is 0, and each number adds itself. *)
LEMMA SumNext ==
  ASSUME NEW s
  PROVE  SumTo(s, 0) = 0 /\ \A n \in Nat : SumTo(s, n + 1) = SumTo(s, n) + s[n + 1]
<1> DEFINE F(n) == CHOOSE f : Sums(f, s, n)
<1>1. \A n \in Nat : Sums(F(n), s, n)
  BY SumsExist
<1>2. \A n : SumTo(s, n) = F(n)[n]
  BY DEF SumTo, Sums
<1> HIDE DEF F
<1>3. SumTo(s, 0) = 0
  BY <1>1, <1>2 DEF Sums
<1>4. ASSUME NEW n \in Nat PROVE SumTo(s, n + 1) = SumTo(s, n) + s[n + 1]
  <2>1. n + 1 \in Nat /\ n <= n + 1 /\ n + 1 \in 0 .. n + 1 /\ n \in 0 .. n /\ (n + 1) - 1 = n /\ n + 1 # 0
    OBVIOUS
  <2>2. F(n)[n] = F(n + 1)[n]
    BY <1>1, <2>1, SumsAgree
  <2>3. F(n + 1)[n + 1] = F(n + 1)[n] + s[n + 1]
    BY <1>1, <2>1 DEF Sums
  <2> QED BY <1>2, <2>1, <2>2, <2>3
<1> QED BY <1>3, <1>4

(* The sum of numbers is a number. *)
LEMMA SumType ==
  ASSUME NEW n \in Nat, NEW s, \A j \in 1 .. n : s[j] \in Int
  PROVE  SumTo(s, n) \in Int
<1> DEFINE Bad == {j \in 0 .. n : SumTo(s, j) \notin Int}
<1>1. SUFFICES ASSUME Bad # {} PROVE FALSE
  OBVIOUS
<1>2. PICK j \in Bad : \A i \in Bad : j <= i
  <2>1. Bad \in SUBSET Nat
    OBVIOUS
  <2> QED BY <1>1, <2>1, LeastNat
<1>3. j # 0
  BY <1>2, SumNext
<1>4. j \in 1 .. n /\ j - 1 \in 0 .. n /\ j - 1 \in Nat /\ ~(j <= j - 1) /\ (j - 1) + 1 = j
  BY <1>3
<1>5. SumTo(s, j - 1) \in Int /\ s[j] \in Int
  BY <1>2, <1>4
<1>6. SumTo(s, j) = SumTo(s, j - 1) + s[j]
  BY <1>4, SumNext
<1> QED BY <1>2, <1>5, <1>6

(* A number that changes changes the sum by as much. *)
LEMMA SumChange ==
  ASSUME NEW n \in Nat, NEW s, NEW t, NEW i \in 1 .. n, t[i] \in Int,
         \A j \in 1 .. n : s[j] \in Int, \A j \in 1 .. n : j # i => t[j] = s[j]
  PROVE  SumTo(t, n) = SumTo(s, n) + (t[i] - s[i])
<1> DEFINE d == t[i] - s[i]
<1>0. d \in Int /\ t[i] = s[i] + d /\ s[i] \in Int
  OBVIOUS
<1> HIDE DEF d
<1>a. SUFFICES SumTo(t, n) = SumTo(s, n) + d
  BY DEF d
<1> DEFINE Bad == {j \in 0 .. n : SumTo(t, j) # SumTo(s, j) + (IF j < i THEN 0 ELSE d)}
<1>1. SUFFICES ASSUME Bad # {} PROVE FALSE
  <2>1. n \in 0 .. n /\ ~(n < i)
    OBVIOUS
  <2> QED BY <1>0, <2>1
<1>2. PICK j \in Bad : \A k \in Bad : j <= k
  <2>1. Bad \in SUBSET Nat
    OBVIOUS
  <2> QED BY <1>1, <2>1, LeastNat
<1>3. j # 0
  BY <1>2, SumNext
<1>4. j \in 1 .. n /\ j - 1 \in 0 .. n /\ j - 1 \in Nat /\ ~(j <= j - 1) /\ (j - 1) + 1 = j
  BY <1>3
<1>5. SumTo(t, j - 1) = SumTo(s, j - 1) + (IF j - 1 < i THEN 0 ELSE d)
  BY <1>2, <1>4
<1>6. SumTo(s, j) = SumTo(s, j - 1) + s[j] /\ SumTo(t, j) = SumTo(t, j - 1) + t[j]
  BY <1>4, SumNext
<1>7. SumTo(s, j - 1) \in Int
  <2>1. \A k \in 1 .. j - 1 : s[k] \in Int
    BY <1>4
  <2> QED BY <1>4, <2>1, SumType
<1>8. s[j] \in Int /\ t[j] = IF j = i THEN s[j] + d ELSE s[j]
  BY <1>0, <1>4
<1> QED BY <1>0, <1>2, <1>4, <1>5, <1>6, <1>7, <1>8

(* Equal numbers have equal sums. *)
LEMMA SumSame ==
  ASSUME NEW n \in Nat, NEW s, NEW t, \A j \in 1 .. n : s[j] = t[j]
  PROVE  SumTo(s, n) = SumTo(t, n)
<1> DEFINE F(x) == CHOOSE f : Sums(f, x, n)
<1>1. \A x : Sums(F(x), x, n)
  BY SumsExist
<1>2. \A x : SumTo(x, n) = F(x)[n]
  BY DEF SumTo, Sums
<1> HIDE DEF F
<1>3. n \in 0 .. n /\ n <= n
  OBVIOUS
<1>4. F(s)[n] = F(t)[n]
  BY <1>1, <1>3, SumsAgree
<1> QED BY <1>2, <1>4

-----------------------------------------------------------------------------
(* Volumes *)

Kinds == {"block", "inode"}
NodeSet == [mode : {"none", "file", "dir"}, links : Int, size : Nat, blocks : Int,
            direct : [0 .. DIRECT - 1 -> 0 .. BLOCKS - 1], indirect : 0 .. BLOCKS - 1]

VolumeOK(V) ==
  /\ V \in [ok : BOOLEAN, ret : Int, hint : [Kinds -> Groups], used : [Kinds -> SUBSET Int],
            sb : [Kinds -> Int], gd : [Groups -> [Kinds \cup {"dirs"} -> Int]],
            node : [Inodes -> NodeSet], data : {V.data}]
  /\ V.data = [b \in Blocks |-> V.data[b]]

(* What a failed step leaves is a volume. *)
LEMMA FailedOK ==
  ASSUME NEW V, VolumeOK(V)
  PROVE  /\ VolumeOK(Failed(V)) /\ ~Failed(V).ok /\ Failed(V).hint = V.hint
  BY DEF VolumeOK, Failed

(* What allocate changes when it takes n: the fields of the new volume *)
Took(V, W, k, g, n) ==
  /\ W.ok = V.ok /\ W.ret = n /\ W.hint = [V.hint EXCEPT ![k] = g]
  /\ W.used = [V.used EXCEPT ![k] = @ \cup {n}]
  /\ W.sb = [V.sb EXCEPT ![k] = @ - 1]
  /\ W.gd = [V.gd EXCEPT ![g][k] = @ - 1]
  /\ W.node = IF k = "inode" THEN [V.node EXCEPT ![n] = ZeroNode] ELSE V.node
  /\ W.data = IF k = "block" THEN [V.data EXCEPT ![n] = ZeroBlock] ELSE V.data

LEMMA TakeFields ==
  ASSUME NEW V, VolumeOK(V), NEW k \in Kinds, NEW g \in Groups, NEW n \in Int,
         k = "inode" => n \in Inodes
  PROVE  \/ Take(V, k, g, n) = Failed(V)
         \/ /\ k = "block" => DataBlock(n)
            /\ VolumeOK(Take(V, k, g, n)) /\ Took(V, Take(V, k, g, n), k, g, n)
<1> DEFINE W == Take(V, k, g, n)
<1> SUFFICES ASSUME W # Failed(V)
             PROVE  (k = "block" => DataBlock(n)) /\ VolumeOK(W) /\ Took(V, W, k, g, n)
  OBVIOUS
<1> DEFINE N == IF k = "inode" THEN [V.node EXCEPT ![n] = ZeroNode] ELSE V.node
           D == IF k = "block" THEN [V.data EXCEPT ![n] = ZeroBlock] ELSE V.data
           U == [V.used EXCEPT ![k] = @ \cup {n}]
           S == [V.sb EXCEPT ![k] = @ - 1]
           G == [V.gd EXCEPT ![g][k] = @ - 1]
           H == [V.hint EXCEPT ![k] = g]
<1>1. W = [V EXCEPT !.used = U, !.sb = S, !.gd = G, !.hint = H, !.ret = n, !.node = N, !.data = D]
  BY DEF Take
<1>2. k = "block" => DataBlock(n)
  BY DEF Take
<1>3. ZeroNode \in NodeSet
  BY TreeAssumption DEF ZeroNode, NodeSet
<1>4. N \in [Inodes -> NodeSet] /\ U \in [Kinds -> SUBSET Int] /\ H \in [Kinds -> Groups]
  BY <1>3 DEF VolumeOK
<1>5. S \in [Kinds -> Int]
  BY DEF VolumeOK
<1>6. G \in [Groups -> [Kinds \cup {"dirs"} -> Int]]
  BY DEF VolumeOK, Kinds
<1>7. D = [b \in Blocks |-> D[b]]
  BY DEF VolumeOK
<1> HIDE DEF N, D, U, S, G, H
<1>8. VolumeOK(W)
  BY <1>1, <1>4, <1>5, <1>6, <1>7 DEF VolumeOK
<1>9. W.ok = V.ok /\ W.ret = n /\ W.hint = H /\ W.used = U /\ W.sb = S /\ W.gd = G /\ W.node = N
      /\ W.data = D
  BY <1>1 DEF VolumeOK
<1> QED BY <1>2, <1>8, <1>9 DEF Took, N, D, U, S, G, H

(* The numbers of a kind in a group are finitely many, and in that group only. *)
LEMMA CandidatesAre ==
  ASSUME NEW k \in Kinds, NEW g \in Groups
  PROVE  /\ IsFiniteSet(Candidates(k, g)) /\ Candidates(k, g) \subseteq Int
         /\ \A n \in Candidates(k, g) : GroupOf(k, n) = g
<1>1. CASE k = "inode"
  <2>1. Candidates(k, g) = g * INODES_PER_GROUP + (IF g = 0 THEN FIRST_INODE ELSE 1)
                           .. (g + 1) * INODES_PER_GROUP
    BY <1>1 DEF Candidates
  <2>2. g \in Nat /\ INODES_PER_GROUP \in Nat /\ FIRST_INODE \in Nat
    BY GroupsAre, TreeAssumption
  <2>3. /\ g * INODES_PER_GROUP + (IF g = 0 THEN FIRST_INODE ELSE 1) \in Int
        /\ (g + 1) * INODES_PER_GROUP \in Int
    BY <2>2
  <2>4. IsFiniteSet(Candidates(k, g)) /\ Candidates(k, g) \subseteq Int
    BY <2>1, <2>3, FS_Interval
  <2> QED BY <1>1, <2>4, InodeOfGroup
<1>2. CASE k = "block"
  <2>1. Candidates(k, g) = GroupStart(g) .. GroupStart(g) + GroupSize(g) - 1
    BY <1>2 DEF Candidates
  <2>2. g \in Nat /\ BLOCKS_PER_GROUP \in Nat /\ BLOCKS \in Nat
    BY GroupsAre, TreeAssumption
  <2>3. GroupStart(g) \in Int /\ GroupSize(g) \in Int
    BY <2>2 DEF GroupStart, GroupSize
  <2>4. IsFiniteSet(Candidates(k, g)) /\ Candidates(k, g) \subseteq Int
    BY <2>1, <2>3, FS_Interval
  <2> QED BY <1>2, <2>4, BlockOfGroup
<1> QED BY <1>1, <1>2 DEF Kinds

(* What release changes: the fields of the new volume *)
Released(V, W, k, n) ==
  /\ W.ok = V.ok /\ W.ret = V.ret /\ W.hint = V.hint
  /\ W.used = [V.used EXCEPT ![k] = @ \ {n}]
  /\ W.sb = [V.sb EXCEPT ![k] = @ + 1]
  /\ W.gd = [V.gd EXCEPT ![GroupOf(k, n)][k] = @ + 1]
  /\ W.node = V.node
  /\ W.data = IF k = "block" THEN [V.data EXCEPT ![n] = Junk] ELSE V.data

LEMMA ReleaseFields ==
  ASSUME NEW V, VolumeOK(V), NEW k \in Kinds, NEW n \in Int, GroupOf(k, n) \in Groups
  PROVE  VolumeOK(Release(V, k, n)) /\ Released(V, Release(V, k, n), k, n)
<1> DEFINE W == Release(V, k, n)
           g == GroupOf(k, n)
           D == IF k = "block" THEN [V.data EXCEPT ![n] = Junk] ELSE V.data
           U == [V.used EXCEPT ![k] = @ \ {n}]
           S == [V.sb EXCEPT ![k] = @ + 1]
           G == [V.gd EXCEPT ![g][k] = @ + 1]
<1>1. W = [V EXCEPT !.used = U, !.sb = S, !.gd = G, !.data = D]
  BY DEF Release
<1>2. U \in [Kinds -> SUBSET Int]
  BY DEF VolumeOK
<1>3. S \in [Kinds -> Int]
  BY DEF VolumeOK
<1> HIDE DEF g
<1>4. g \in Groups
  BY DEF g
<1>5. G \in [Groups -> [Kinds \cup {"dirs"} -> Int]]
  BY <1>4 DEF VolumeOK, Kinds
<1>6. D = [b \in Blocks |-> D[b]]
  BY DEF VolumeOK
<1> HIDE DEF D, U, S, G
<1>7. VolumeOK(W)
  BY <1>1, <1>2, <1>3, <1>5, <1>6 DEF VolumeOK
<1>8. W.ok = V.ok /\ W.ret = V.ret /\ W.hint = V.hint /\ W.used = U /\ W.sb = S /\ W.gd = G
      /\ W.node = V.node /\ W.data = D
  BY <1>1 DEF VolumeOK
<1> QED BY <1>7, <1>8 DEF Released, D, U, S, G, g

-----------------------------------------------------------------------------
(* Counts *)

Counted(V) ==
  /\ \A g \in Groups, k \in Kinds : V.gd[g][k] = Cardinality(Candidates(k, g) \ V.used[k])
  /\ \A k \in Kinds : V.sb[k] = SumTo([g \in 1 .. GROUPS |-> V.gd[g - 1][k]], GROUPS)

(* A number n of group g changes sides, and d is added to its counts. *)
Moved(V, W, k, g, n, d) ==
  /\ d = -1 => n \notin V.used[k] /\ W.used = [V.used EXCEPT ![k] = @ \cup {n}]
  /\ d = 1 => n \in V.used[k] /\ W.used = [V.used EXCEPT ![k] = @ \ {n}]
  /\ W.sb = [V.sb EXCEPT ![k] = @ + d]
  /\ W.gd = [V.gd EXCEPT ![g][k] = @ + d]

(* The counts stay true. *)
LEMMA CountsFollow ==
  ASSUME NEW V, VolumeOK(V), Counted(V), NEW W, NEW k \in Kinds, NEW g \in Groups,
         NEW n \in Candidates(k, g), NEW d \in {-1, 1}, Moved(V, W, k, g, n, d)
  PROVE  Counted(W)
<1> USE DEF Moved
<1>1. /\ V.gd \in [Groups -> [Kinds \cup {"dirs"} -> Int]] /\ V.sb \in [Kinds -> Int]
      /\ V.used \in [Kinds -> SUBSET Int]
  BY DEF VolumeOK
<1>2. \A h \in Groups, j \in Kinds :
        /\ W.gd[h][j] = IF h = g /\ j = k THEN V.gd[h][j] + d ELSE V.gd[h][j]
        /\ V.gd[h][j] \in Int
  BY <1>1 DEF Kinds
<1>3. ASSUME NEW h \in Groups, NEW j \in Kinds
      PROVE  W.gd[h][j] = Cardinality(Candidates(j, h) \ W.used[j])
  <2> DEFINE S == Candidates(j, h) \ V.used[j]
  <2>1. IsFiniteSet(S) /\ V.gd[h][j] = Cardinality(S)
    <3>1. IsFiniteSet(Candidates(j, h)) /\ S \in SUBSET Candidates(j, h)
      BY CandidatesAre
    <3> QED BY <3>1, FS_Subset DEF Counted
  <2>2. CASE j # k
    <3>1. W.used[j] = V.used[j]
      BY <1>1, <2>2
    <3> QED BY <1>2, <2>1, <2>2, <3>1
  <2>3. CASE j = k /\ h # g
    <3>1. n \notin Candidates(j, h)
      BY <2>3, CandidatesAre
    <3>2. Candidates(j, h) \ W.used[j] = S
      BY <1>1, <2>3, <3>1
    <3> QED BY <1>2, <2>1, <2>3, <3>2
  <2>4. CASE j = k /\ h = g /\ d = -1
    <3>1. Candidates(j, h) \ W.used[j] = S \ {n} /\ n \in S
      BY <1>1, <2>4
    <3>2. Cardinality(S \ {n}) = Cardinality(S) - 1 /\ Cardinality(S) \in Nat
      BY <2>1, <3>1, FS_RemoveElement, FS_CardinalityType
    <3> QED BY <1>2, <2>1, <2>4, <3>1, <3>2
  <2>5. CASE j = k /\ h = g /\ d = 1
    <3>1. Candidates(j, h) \ W.used[j] = S \cup {n} /\ n \notin S
      BY <1>1, <2>5
    <3>2. Cardinality(S \cup {n}) = Cardinality(S) + 1 /\ Cardinality(S) \in Nat
      BY <2>1, <3>1, FS_AddElement, FS_CardinalityType
    <3> QED BY <1>2, <2>1, <2>5, <3>1, <3>2
  <2> QED BY <2>2, <2>3, <2>4, <2>5
<1>4. ASSUME NEW j \in Kinds
      PROVE  W.sb[j] = SumTo([h \in 1 .. GROUPS |-> W.gd[h - 1][j]], GROUPS)
  <2> DEFINE s == [h \in 1 .. GROUPS |-> V.gd[h - 1][j]]
             t == [h \in 1 .. GROUPS |-> W.gd[h - 1][j]]
  <2>1. GROUPS \in Nat /\ g + 1 \in 1 .. GROUPS /\ \A h \in 1 .. GROUPS : h - 1 \in Groups
    BY GroupsAre DEF Groups
  <2>2. V.sb[j] = SumTo(s, GROUPS) /\ W.sb[j] = IF j = k THEN V.sb[j] + d ELSE V.sb[j]
    BY <1>1 DEF Counted
  <2>3. \A h \in 1 .. GROUPS : /\ s[h] \in Int
                               /\ t[h] = IF h = g + 1 /\ j = k THEN s[h] + d ELSE s[h]
    <3> TAKE h \in 1 .. GROUPS
    <3>1. h - 1 \in Groups /\ (h - 1 = g <=> h = g + 1)
      BY <2>1, GroupsAre
    <3> QED BY <1>2, <3>1
  <2> HIDE DEF s, t
  <2>4. ASSUME j = k PROVE W.sb[j] = SumTo(t, GROUPS)
    <3>0. PICK i \in 1 .. GROUPS : i = g + 1
      BY <2>1
    <3>1. /\ \A h \in 1 .. GROUPS : s[h] \in Int
          /\ \A h \in 1 .. GROUPS : h # i => t[h] = s[h]
          /\ t[i] = s[i] + d
      BY <2>3, <2>4, <3>0
    <3>2. d \in Int
      OBVIOUS
    <3>3. t[i] \in Int /\ s[i] \in Int
      BY <3>1, <3>2
    <3>4. SumTo(t, GROUPS) = SumTo(s, GROUPS) + (t[i] - s[i])
      BY <2>1, <3>1, <3>3, SumChange
    <3> QED BY <2>2, <2>4, <3>1, <3>2, <3>3, <3>4
  <2>5. ASSUME j # k PROVE W.sb[j] = SumTo(t, GROUPS)
    <3>1. \A h \in 1 .. GROUPS : s[h] = t[h]
      BY <2>3, <2>5
    <3>2. SumTo(s, GROUPS) = SumTo(t, GROUPS)
      BY <2>1, <3>1, SumSame
    <3> QED BY <2>2, <2>5, <3>2
  <2> QED BY <2>4, <2>5 DEF t
<1> QED BY <1>3, <1>4 DEF Counted

(* Counts do not change with what they do not count. *)
LEMMA CountsStay ==
  ASSUME NEW V, Counted(V), NEW W, W.used = V.used, W.sb = V.sb,
         \A g \in Groups, k \in Kinds : W.gd[g][k] = V.gd[g][k]
  PROVE  Counted(W)
<1>1. ASSUME NEW k \in Kinds
      PROVE  SumTo([g \in 1 .. GROUPS |-> W.gd[g - 1][k]], GROUPS)
             = SumTo([g \in 1 .. GROUPS |-> V.gd[g - 1][k]], GROUPS)
  <2> DEFINE s == [h \in 1 .. GROUPS |-> V.gd[h - 1][k]]
             t == [h \in 1 .. GROUPS |-> W.gd[h - 1][k]]
  <2>1. GROUPS \in Nat /\ \A h \in 1 .. GROUPS : h - 1 \in Groups
    BY GroupsAre DEF Groups
  <2>2. \A h \in 1 .. GROUPS : t[h] = s[h]
    BY <2>1
  <2> HIDE DEF s, t
  <2>3. SumTo(t, GROUPS) = SumTo(s, GROUPS)
    BY <2>1, <2>2, SumSame
  <2> QED BY <2>3 DEF s, t
<1> QED BY <1>1 DEF Counted

-----------------------------------------------------------------------------
(* allocate *)

LEMMA LeastIn == ASSUME NEW T \in SUBSET Nat, T # {} PROVE Min(T) \in T /\ \A x \in T : Min(T) <= x
  BY LeastNat, Zenon DEF Min

(* allocate fails, or takes a number that was free and leaves true counts. *)
LEMMA AllocateFacts ==
  ASSUME NEW V, VolumeOK(V), Counted(V), NEW k \in Kinds
  PROVE  \/ Allocate(V, k) = Failed(V)
         \/ \E g \in Groups : \E n \in Candidates(k, g) \ V.used[k] :
              /\ Took(V, Allocate(V, k), k, g, n) /\ VolumeOK(Allocate(V, k)) /\ Counted(Allocate(V, k))
              /\ k = "block" => DataBlock(n)
<1> DEFINE W == Allocate(V, k)
           rich == {s \in Groups : V.gd[(V.hint[k] + s) % GROUPS][k] # 0}
           g == (V.hint[k] + Min(rich)) % GROUPS
           spare == Candidates(k, g) \ V.used[k]
<1> SUFFICES ASSUME W # Failed(V)
             PROVE  \E h \in Groups : \E n \in Candidates(k, h) \ V.used[k] :
                      /\ Took(V, W, k, h, n) /\ VolumeOK(W) /\ Counted(W) /\ (k = "block" => DataBlock(n))
  OBVIOUS
<1>1. rich # {} /\ W = AllocateIn(V, k, g)
  BY DEF Allocate
<1>2. spare # {} /\ W = Take(V, k, g, Min(spare))
  BY <1>1 DEF AllocateIn, TakeFirst
<1>3. Groups \in SUBSET Nat /\ GROUPS \in Nat \ {0} /\ V.hint[k] \in Groups
  BY GroupsAre DEF VolumeOK, Groups
<1>4. Min(rich) \in Nat /\ V.hint[k] \in Nat
  <2>1. rich \in SUBSET Nat
    BY <1>3
  <2>2. Min(rich) \in rich
    BY <1>1, <2>1, LeastIn
  <2> QED BY <1>3, <2>1, <2>2
<1> HIDE DEF rich
<1>5. g \in Groups
  <2> DEFINE x == V.hint[k] + Min(rich)
  <2>1. x \in Nat
    BY <1>4
  <2> HIDE DEF x
  <2>2. x % GROUPS \in 0 .. GROUPS - 1
    BY <1>3, <2>1
  <2> QED BY <2>2 DEF Groups, x
<1> HIDE DEF g
<1>6. Candidates(k, g) \in SUBSET Nat /\ (k = "inode" => Candidates(k, g) \subseteq Inodes)
  BY <1>5, BlockOfGroup, InodeOfGroup DEF Kinds, Blocks, Inodes
<1> DEFINE n == Min(spare)
<1>7. n \in spare
  BY <1>2, <1>6, LeastIn
<1> HIDE DEF n
<1>8. n \in Int /\ n \in Candidates(k, g) /\ n \notin V.used[k]
  BY <1>6, <1>7
<1>9. W = Take(V, k, g, n)
  BY <1>2 DEF n
<1>10. /\ k = "block" => DataBlock(n)
       /\ VolumeOK(W) /\ Took(V, W, k, g, n)
  BY <1>5, <1>6, <1>8, <1>9, TakeFields
<1>11. Counted(W)
  <2>0. PICK d \in {-1, 1} : d = -1
    OBVIOUS
  <2>1. W.used = [V.used EXCEPT ![k] = @ \cup {n}] /\ W.sb = [V.sb EXCEPT ![k] = @ + d]
    BY <1>10, <2>0 DEF Took, VolumeOK
  <2>2. W.gd = [V.gd EXCEPT ![g][k] = @ + d]
    <3>1. V.gd[g][k] \in Int /\ W.gd = [V.gd EXCEPT ![g][k] = @ - 1]
      BY <1>5, <1>10 DEF Took, VolumeOK, Kinds
    <3>2. V.gd[g][k] - 1 = V.gd[g][k] + d
      BY <2>0, <3>1
    <3> QED BY <3>1, <3>2
  <2>3. (d = -1 => n \notin V.used[k] /\ W.used = [V.used EXCEPT ![k] = @ \cup {n}]) /\ d # 1
    BY <1>8, <2>0, <2>1
  <2>4. Moved(V, W, k, g, n, d)
    BY <2>1, <2>2, <2>3 DEF Moved
  <2> QED BY <1>5, <1>8, <2>4, CountsFollow
<1> QED BY <1>5, <1>7, <1>10, <1>11

(* A number that is given back leaves true counts. *)
LEMMA ReleaseCounted ==
  ASSUME NEW V, VolumeOK(V), Counted(V), NEW k \in Kinds, NEW n \in V.used[k],
         k = "block" => n \in Blocks, k = "inode" => n \in Inodes /\ n >= FIRST_INODE
  PROVE  /\ VolumeOK(Release(V, k, n)) /\ Counted(Release(V, k, n))
         /\ Released(V, Release(V, k, n), k, n)
<1> DEFINE W == Release(V, k, n)
           g == GroupOf(k, n)
<1>1. n \in Int /\ g \in Groups /\ n \in Candidates(k, g)
  BY BlockGroup, InodeGroup DEF VolumeOK, Kinds
<1>2. VolumeOK(W) /\ Released(V, W, k, n)
  BY <1>1, ReleaseFields
<1> HIDE DEF W
<1>3. PICK d \in {-1, 1} : d = 1
  OBVIOUS
<1>4. Moved(V, W, k, g, n, d)
  <2>1. d # -1 /\ W.used = [V.used EXCEPT ![k] = @ \ {n}]
    BY <1>2, <1>3 DEF Released
  <2>2. W.sb = [V.sb EXCEPT ![k] = @ + d] /\ W.gd = [V.gd EXCEPT ![g][k] = @ + d]
    BY <1>2, <1>3 DEF Released
  <2> QED BY <2>1, <2>2 DEF Moved
<1> HIDE DEF g
<1>5. Counted(W)
  BY <1>1, <1>4, CountsFollow
<1> QED BY <1>2, <1>5 DEF W

-----------------------------------------------------------------------------
(* Pointers.  The cells of an inode are its slots, direct and indirect, and  *)
(* behind them the pointer to the indirect block.                            *)

Cells == 0 .. DIRECT + WORDS
Ptr(V, n, i) == IF i = DIRECT + WORDS THEN V.node[n].indirect ELSE FileBlock(V, n, i)
Full(V, n) == {i \in Cells : Ptr(V, n, i) # 0}

IndirectOK(V) ==
  \A n \in Inodes : V.node[n].indirect # 0 =>
    V.data[V.node[n].indirect] \in [0 .. WORDS - 1 -> 0 .. BLOCKS - 1]

(* Every block in use is metadata or in exactly one cell. *)
Owned(V) ==
  /\ IndirectOK(V)
  /\ \A n \in Inodes, i \in Cells :
       Ptr(V, n, i) # 0 => DataBlock(Ptr(V, n, i)) /\ Ptr(V, n, i) \in V.used["block"]
  /\ \A m, n \in Inodes, i, j \in Cells :
       Ptr(V, m, i) = Ptr(V, n, j) /\ Ptr(V, m, i) # 0 => m = n /\ i = j
  /\ \A b \in V.used["block"] :
       b \in Blocks /\ (DataBlock(b) => \E n \in Inodes, i \in Cells : Ptr(V, n, i) = b)
  /\ \A b \in Blocks : ~DataBlock(b) => b \in V.used["block"]
  /\ \A n \in Inodes : V.node[n].blocks = Cardinality(Full(V, n))

(* Cell i of inode n becomes b, and d is added to i_blocks. *)
Repointed(V, W, n, i, b, d) ==
  /\ Ptr(W, n, i) = b
  /\ \A m \in Inodes, j \in Cells : m # n \/ j # i => Ptr(W, m, j) = Ptr(V, m, j)
  /\ W.node[n].blocks = V.node[n].blocks + d
  /\ \A m \in Inodes : m # n => W.node[m].blocks = V.node[m].blocks
  /\ IndirectOK(W)

(* The cells are finitely many. *)
LEMMA CellsFinite == IsFiniteSet(Cells) /\ \A V, n : IsFiniteSet(Full(V, n))
<1>1. IsFiniteSet(Cells)
  <2>1. 0 \in Int /\ DIRECT + WORDS \in Int
    BY TreeAssumption
  <2> QED BY <2>1, FS_Interval DEF Cells
<1>2. \A V, n : Full(V, n) \in SUBSET Cells
  BY DEF Full
<1> QED BY <1>1, <1>2, FS_Subset

(* A cell that was empty gets a block that was free. *)
LEMMA AttachOwned ==
  ASSUME NEW V, Owned(V), NEW W, NEW n \in Inodes, NEW i \in Cells, NEW b,
         Ptr(V, n, i) = 0, b \in Blocks, DataBlock(b), b \notin V.used["block"],
         W.used["block"] = V.used["block"] \cup {b}, Repointed(V, W, n, i, b, 1)
  PROVE  Owned(W)
<1>1. b # 0 /\ b \in Int
  BY TreeAssumption DEF Blocks
<1>2. ASSUME NEW m \in Inodes, NEW j \in Cells
      PROVE  Ptr(W, m, j) = IF m = n /\ j = i THEN b ELSE Ptr(V, m, j)
  BY DEF Repointed
<1>3. \A m \in Inodes, j \in Cells :
        Ptr(W, m, j) # 0 => DataBlock(Ptr(W, m, j)) /\ Ptr(W, m, j) \in W.used["block"]
  BY <1>2 DEF Owned
<1>4. \A m \in Inodes, j \in Cells : Ptr(V, m, j) # b
  BY <1>1 DEF Owned
<1>5. ASSUME NEW m \in Inodes, NEW p \in Inodes, NEW j \in Cells, NEW k \in Cells,
             Ptr(W, m, j) = Ptr(W, p, k), Ptr(W, m, j) # 0
      PROVE  m = p /\ j = k
  <2>1. /\ Ptr(W, m, j) = IF m = n /\ j = i THEN b ELSE Ptr(V, m, j)
        /\ Ptr(W, p, k) = IF p = n /\ k = i THEN b ELSE Ptr(V, p, k)
    BY <1>2
  <2>2. Ptr(V, m, j) = Ptr(V, p, k) /\ Ptr(V, m, j) # 0 => m = p /\ j = k
    BY DEF Owned
  <2> QED BY <1>4, <1>5, <2>1, <2>2
<1>6. ASSUME NEW c \in W.used["block"], DataBlock(c)
      PROVE  \E m \in Inodes, j \in Cells : Ptr(W, m, j) = c
  <2>1. CASE c = b
    BY <1>2, <2>1
  <2>2. CASE c # b
    <3>1. PICK m \in Inodes, j \in Cells : Ptr(V, m, j) = c
      BY <1>6, <2>2 DEF Owned
    <3>2. ~(m = n /\ j = i)
      BY <1>6, <3>1, TreeAssumption DEF DataBlock, Blocks
    <3>3. Ptr(W, m, j) = c
      BY <1>2, <3>1, <3>2
    <3> QED BY <3>3
  <2> QED BY <2>1, <2>2
<1>7. ASSUME NEW m \in Inodes PROVE W.node[m].blocks = Cardinality(Full(W, m))
  <2>1. CASE m = n
    <3>1. Full(W, n) = Full(V, n) \cup {i} /\ i \notin Full(V, n)
      BY <1>1, <1>2 DEF Full
    <3>2. Cardinality(Full(W, n)) = Cardinality(Full(V, n)) + 1
      BY <3>1, CellsFinite, FS_AddElement
    <3> QED BY <2>1, <3>2 DEF Repointed, Owned
  <2>2. CASE m # n
    <3>1. Full(W, m) = Full(V, m)
      BY <1>2, <2>2 DEF Full
    <3> QED BY <2>2, <3>1 DEF Repointed, Owned
  <2> QED BY <2>1, <2>2
<1>8. \A c \in W.used["block"] : c \in Blocks
  BY DEF Owned
<1>9. \A c \in Blocks : ~DataBlock(c) => c \in W.used["block"]
  BY DEF Owned
<1> QED BY <1>3, <1>5, <1>6, <1>7, <1>8, <1>9 DEF Owned, Repointed

(* A cell is emptied and its block given back. *)
LEMMA DetachOwned ==
  ASSUME NEW V, Owned(V), NEW W, NEW n \in Inodes, NEW i \in Cells, NEW b,
         Ptr(V, n, i) = b, b # 0,
         W.used["block"] = V.used["block"] \ {b}, Repointed(V, W, n, i, 0, -1)
  PROVE  Owned(W)
<1>2. ASSUME NEW m \in Inodes, NEW j \in Cells
      PROVE  Ptr(W, m, j) = IF m = n /\ j = i THEN 0 ELSE Ptr(V, m, j)
  BY DEF Repointed
<1>3. ASSUME NEW m \in Inodes, NEW j \in Cells, Ptr(W, m, j) # 0
      PROVE  DataBlock(Ptr(W, m, j)) /\ Ptr(W, m, j) \in W.used["block"]
  <2>1. ~(m = n /\ j = i) /\ Ptr(W, m, j) = Ptr(V, m, j)
    BY <1>2, <1>3
  <2>2. Ptr(V, m, j) # b
    BY <2>1 DEF Owned
  <2> QED BY <1>3, <2>1, <2>2 DEF Owned
<1>5. ASSUME NEW m \in Inodes, NEW p \in Inodes, NEW j \in Cells, NEW k \in Cells,
             Ptr(W, m, j) = Ptr(W, p, k), Ptr(W, m, j) # 0
      PROVE  m = p /\ j = k
  <2>1. /\ Ptr(W, m, j) = IF m = n /\ j = i THEN 0 ELSE Ptr(V, m, j)
        /\ Ptr(W, p, k) = IF p = n /\ k = i THEN 0 ELSE Ptr(V, p, k)
    BY <1>2
  <2>2. Ptr(V, m, j) = Ptr(V, p, k) /\ Ptr(V, m, j) # 0 => m = p /\ j = k
    BY DEF Owned
  <2> QED BY <1>5, <2>1, <2>2
<1>6. ASSUME NEW c \in W.used["block"], DataBlock(c)
      PROVE  \E m \in Inodes, j \in Cells : Ptr(W, m, j) = c
  <2>1. PICK m \in Inodes, j \in Cells : Ptr(V, m, j) = c
    BY <1>6 DEF Owned
  <2>2. ~(m = n /\ j = i)
    BY <1>6, <2>1
  <2>3. Ptr(W, m, j) = c
    BY <1>2, <2>1, <2>2
  <2> QED BY <2>3
<1>7. ASSUME NEW m \in Inodes PROVE W.node[m].blocks = Cardinality(Full(W, m))
  <2>1. CASE m = n
    <3>1. Full(W, n) = Full(V, n) \ {i} /\ i \in Full(V, n)
      BY <1>2 DEF Full
    <3>2. Cardinality(Full(W, n)) = Cardinality(Full(V, n)) - 1 /\ Cardinality(Full(V, n)) \in Nat
      BY <3>1, CellsFinite, FS_RemoveElement, FS_CardinalityType
    <3> QED BY <2>1, <3>2 DEF Repointed, Owned
  <2>2. CASE m # n
    <3>1. Full(W, m) = Full(V, m)
      BY <1>2, <2>2 DEF Full
    <3> QED BY <2>2, <3>1 DEF Repointed, Owned
  <2> QED BY <2>1, <2>2
<1>8. \A c \in W.used["block"] : c \in Blocks
  BY DEF Owned
<1>9. \A c \in Blocks : ~DataBlock(c) => c \in W.used["block"]
  BY DEF Owned
<1> QED BY <1>3, <1>5, <1>6, <1>7, <1>8, <1>9 DEF Owned, Repointed

(* No cell changes. *)
LEMMA SameOwned ==
  ASSUME NEW V, Owned(V), NEW W, W.used["block"] = V.used["block"], IndirectOK(W),
         \A m \in Inodes, j \in Cells : Ptr(W, m, j) = Ptr(V, m, j),
         \A m \in Inodes : W.node[m].blocks = V.node[m].blocks
  PROVE  Owned(W)
<1>1. \A m \in Inodes : Full(W, m) = Full(V, m)
  BY DEF Full
<1> QED BY <1>1 DEF Owned

-----------------------------------------------------------------------------
(* What is kept *)

InodesOK(V) == 1 .. FIRST_INODE - 1 \subseteq V.used["inode"] /\ V.used["inode"] \subseteq Inodes
Core(V) == VolumeOK(V) /\ Counted(V) /\ Owned(V) /\ InodesOK(V)

(* What work on the blocks of inode n leaves alone *)
Elsewhere(V, W, n) ==
  /\ W.used["inode"] = V.used["inode"]
  /\ \A g \in Groups : W.gd[g]["dirs"] = V.gd[g]["dirs"]
  /\ \A m \in Inodes : m # n =>
       /\ W.node[m] = V.node[m]
       /\ \A i \in Cells : Ptr(V, m, i) # 0 => W.data[Ptr(V, m, i)] = V.data[Ptr(V, m, i)]
  /\ W.node[n].mode = V.node[n].mode /\ W.node[n].links = V.node[n].links

(* An inode and the data change, nothing else. *)
With(V, n, N, D) == [V EXCEPT !.node = [V.node EXCEPT ![n] = N], !.data = D]

LEMMA WithOK ==
  ASSUME NEW V, VolumeOK(V), NEW n \in Inodes, NEW N \in NodeSet, NEW D, D = [b \in Blocks |-> D[b]]
  PROVE  /\ VolumeOK(With(V, n, N, D))
         /\ With(V, n, N, D).ok = V.ok /\ With(V, n, N, D).ret = V.ret
         /\ With(V, n, N, D).hint = V.hint /\ With(V, n, N, D).used = V.used
         /\ With(V, n, N, D).sb = V.sb /\ With(V, n, N, D).gd = V.gd
         /\ With(V, n, N, D).node = [V.node EXCEPT ![n] = N] /\ With(V, n, N, D).data = D
<1> DEFINE M == [V.node EXCEPT ![n] = N]
<1>1. M \in [Inodes -> NodeSet]
  BY DEF VolumeOK
<1> HIDE DEF M
<1>2. With(V, n, N, D) = [V EXCEPT !.node = M, !.data = D]
  BY DEF With, M
<1>3. VolumeOK(With(V, n, N, D))
  BY <1>1, <1>2 DEF VolumeOK
<1>4. /\ With(V, n, N, D).ok = V.ok /\ With(V, n, N, D).ret = V.ret
      /\ With(V, n, N, D).hint = V.hint /\ With(V, n, N, D).used = V.used
      /\ With(V, n, N, D).sb = V.sb /\ With(V, n, N, D).gd = V.gd
      /\ With(V, n, N, D).node = M /\ With(V, n, N, D).data = D
  BY <1>2 DEF VolumeOK
<1> QED BY <1>3, <1>4 DEF M

(* What a cell can hold, and which of them a slot is *)
LEMMA PtrIs ==
  ASSUME NEW V, VolumeOK(V), IndirectOK(V), NEW n \in Inodes
  PROVE  /\ \A i \in Cells : Ptr(V, n, i) \in 0 .. BLOCKS - 1
         /\ Ptr(V, n, DIRECT + WORDS) = V.node[n].indirect
         /\ \A i \in 0 .. DIRECT - 1 : Ptr(V, n, i) = V.node[n].direct[i]
         /\ \A i \in 0 .. WORDS - 1 :
              Ptr(V, n, DIRECT + i) = IF V.node[n].indirect = 0 THEN 0
                                      ELSE V.data[V.node[n].indirect][i]
<1>1. DIRECT \in Nat \ {0} /\ WORDS \in Nat \ {0} /\ BLOCKS \in Nat /\ BLOCKS > 0
  BY TreeAssumption
<1>2. /\ V.node[n].direct \in [0 .. DIRECT - 1 -> 0 .. BLOCKS - 1]
      /\ V.node[n].indirect \in 0 .. BLOCKS - 1
  BY DEF VolumeOK, NodeSet
<1>3. V.node[n].indirect # 0 => V.data[V.node[n].indirect] \in [0 .. WORDS - 1 -> 0 .. BLOCKS - 1]
  BY DEF IndirectOK
<1> DEFINE N == V.node[n]
           D == V.data[V.node[n].indirect]
<1>4. \A i : Ptr(V, n, i) = IF i = DIRECT + WORDS THEN N.indirect
                            ELSE IF i < DIRECT THEN N.direct[i]
                            ELSE IF N.indirect = 0 THEN 0 ELSE D[i - DIRECT]
  BY DEF Ptr, FileBlock
<1>5. /\ N.direct \in [0 .. DIRECT - 1 -> 0 .. BLOCKS - 1] /\ N.indirect \in 0 .. BLOCKS - 1
      /\ N.indirect # 0 => D \in [0 .. WORDS - 1 -> 0 .. BLOCKS - 1]
  BY <1>2, <1>3
<1> HIDE DEF N, D
<1>6. \A i \in 0 .. DIRECT - 1 : Ptr(V, n, i) = N.direct[i]
  BY <1>1, <1>4
<1>7. ASSUME NEW i \in 0 .. WORDS - 1
      PROVE  Ptr(V, n, DIRECT + i) = IF N.indirect = 0 THEN 0 ELSE D[i]
  <2>1. DIRECT + i # DIRECT + WORDS /\ ~(DIRECT + i < DIRECT) /\ (DIRECT + i) - DIRECT = i
    BY <1>1
  <2> QED BY <1>4, <2>1
<1>8. ASSUME NEW i \in Cells PROVE Ptr(V, n, i) \in 0 .. BLOCKS - 1
  <2>1. CASE i = DIRECT + WORDS
    BY <1>4, <1>5, <2>1
  <2>2. CASE i \in 0 .. DIRECT - 1
    BY <1>5, <1>6, <2>2
  <2>3. CASE i # DIRECT + WORDS /\ i \notin 0 .. DIRECT - 1
    <3>1. i - DIRECT \in 0 .. WORDS - 1 /\ ~(i < DIRECT)
      BY <1>1, <1>8, <2>3 DEF Cells
    <3>2. 0 \in 0 .. BLOCKS - 1
      BY <1>1
    <3>3. Ptr(V, n, i) = IF N.indirect = 0 THEN 0 ELSE D[i - DIRECT]
      BY <1>4, <2>3, <3>1
    <3>4. N.indirect # 0 => D[i - DIRECT] \in 0 .. BLOCKS - 1
      BY <1>5, <3>1
    <3> QED BY <3>2, <3>3, <3>4
  <2> QED BY <2>1, <2>2, <2>3
<1> QED BY <1>4, <1>6, <1>7, <1>8 DEF N, D

(* The cells of the other inodes are the same. *)
LEMMA ElsewherePtr ==
  ASSUME NEW V, NEW W, NEW n \in Inodes, Elsewhere(V, W, n), NEW m \in Inodes, m # n
  PROVE  /\ \A i \in Cells : Ptr(W, m, i) = Ptr(V, m, i)
         /\ V.node[m].indirect # 0 => W.data[V.node[m].indirect] = V.data[V.node[m].indirect]
<1>1. DIRECT + WORDS \in Cells
  BY TreeAssumption DEF Cells
<1>2. Ptr(V, m, DIRECT + WORDS) = V.node[m].indirect
  BY DEF Ptr
<1>3. V.node[m].indirect # 0 => W.data[V.node[m].indirect] = V.data[V.node[m].indirect]
  BY <1>1, <1>2 DEF Elsewhere
<1>4. W.node[m] = V.node[m]
  BY DEF Elsewhere
<1> QED BY <1>3, <1>4 DEF Ptr, FileBlock

LEMMA ElsewhereThen ==
  ASSUME NEW V, NEW W, NEW X, NEW n \in Inodes, Elsewhere(V, W, n), Elsewhere(W, X, n)
  PROVE  Elsewhere(V, X, n)
<1>1. \A m \in Inodes : m # n => \A i \in Cells : Ptr(W, m, i) = Ptr(V, m, i)
  BY ElsewherePtr
<1> QED BY <1>1 DEF Elsewhere

LEMMA ElsewhereSame == ASSUME NEW V, NEW n PROVE Elsewhere(V, V, n)
  BY DEF Elsewhere

(* The new volume is the old one where nothing is said. *)
LEMMA CoreType ==
  ASSUME NEW V, Core(V), NEW n \in Inodes
  PROVE  /\ V.node[n] \in NodeSet /\ VolumeOK(V) /\ Counted(V) /\ Owned(V) /\ IndirectOK(V)
         /\ V.data = [b \in Blocks |-> V.data[b]]
  BY DEF Core, VolumeOK, Owned

-----------------------------------------------------------------------------
(* Blocks are given back *)

(* release of the block in slot i, the cleared slot and the new i_blocks *)
LEMMA FreeSlotCore ==
  ASSUME NEW V, Core(V), NEW n \in Inodes, NEW i \in Slots
  PROVE  /\ Core(ReleaseSlot(V, n, i)) /\ Elsewhere(V, ReleaseSlot(V, n, i), n)
         /\ ReleaseSlot(V, n, i).ok = V.ok /\ ReleaseSlot(V, n, i).hint = V.hint
         /\ ReleaseSlot(V, n, i).node[n].size = V.node[n].size
         /\ ReleaseSlot(V, n, i).node[n].indirect = V.node[n].indirect
         /\ \A j \in Cells : Ptr(ReleaseSlot(V, n, i), n, j) = IF j = i THEN 0 ELSE Ptr(V, n, j)
         /\ \A j \in Slots : j # i /\ Ptr(V, n, j) # 0 =>
              ReleaseSlot(V, n, i).data[Ptr(V, n, j)] = V.data[Ptr(V, n, j)]
<1> DEFINE W == ReleaseSlot(V, n, i)
           b == FileBlock(V, n, i)
           N0 == V.node[n]
           x == V.node[n].indirect
<1>1. /\ DIRECT \in Nat \ {0} /\ WORDS \in Nat \ {0} /\ i \in Cells /\ i # DIRECT + WORDS /\ i \in Nat
      /\ DIRECT + WORDS \in Cells /\ \A j \in Slots : j \in Cells
  BY TreeAssumption DEF Slots, Cells
<1>2. Ptr(V, n, i) = b /\ Ptr(V, n, DIRECT + WORDS) = x
  BY <1>1 DEF Ptr
<1>3. /\ N0 \in NodeSet /\ VolumeOK(V) /\ Counted(V) /\ Owned(V) /\ IndirectOK(V)
      /\ V.data = [c \in Blocks |-> V.data[c]]
  BY CoreType
<1>a. /\ W = FreeSlot(V, n, i, b) /\ x \in 0 .. BLOCKS - 1 /\ BLOCKS \in Nat
      /\ x # 0 => V.data[x] \in [0 .. WORDS - 1 -> 0 .. BLOCKS - 1]
      /\ b = IF i < DIRECT THEN N0.direct[i] ELSE IF x = 0 THEN 0 ELSE V.data[x][i - DIRECT]
      /\ x = V.node[n].indirect
  BY <1>3, TreeAssumption DEF ReleaseSlot, FileBlock, NodeSet, IndirectOK
<1> HIDE DEF b, x
<1>4. CASE b = 0
  <2>1. W = V
    BY <1>4, <1>a DEF FreeSlot
  <2> QED BY <1>2, <1>4, <2>1, ElsewhereSame
<1>5. CASE b # 0
  <2>1. b \in Blocks /\ DataBlock(b) /\ b \in V.used["block"] /\ b # x
    BY <1>1, <1>2, <1>3, <1>5 DEF Owned
  <2> DEFINE R == Release(V, "block", b)
             N == IF i < DIRECT THEN [N0 EXCEPT !.blocks = N0.blocks - 1, !.direct = [N0.direct EXCEPT ![i] = 0]]
                  ELSE [N0 EXCEPT !.blocks = N0.blocks - 1]
             D1 == [V.data EXCEPT ![b] = Junk]
             D == IF i < DIRECT THEN D1 ELSE [D1 EXCEPT ![x] = [V.data[x] EXCEPT ![i - DIRECT] = 0]]
  <2>2. VolumeOK(R) /\ Counted(R) /\ Released(V, R, "block", b)
    BY <1>3, <2>1, ReleaseCounted DEF Kinds
  <2>3. /\ R.node = V.node /\ R.data = D1 /\ R.used = [V.used EXCEPT !["block"] = @ \ {b}]
        /\ R.ok = V.ok /\ R.hint = V.hint /\ R.gd = [V.gd EXCEPT ![GroupOf("block", b)]["block"] = @ + 1]
    BY <2>2 DEF Released
  <2>4. i >= DIRECT => /\ x # 0 /\ x \in Blocks /\ i - DIRECT \in 0 .. WORDS - 1
                       /\ V.data[x] \in [0 .. WORDS - 1 -> 0 .. BLOCKS - 1]
                       /\ b = V.data[x][i - DIRECT]
    <3> SUFFICES ASSUME i >= DIRECT
                 PROVE  /\ x # 0 /\ x \in Blocks /\ i - DIRECT \in 0 .. WORDS - 1
                        /\ V.data[x] \in [0 .. WORDS - 1 -> 0 .. BLOCKS - 1]
                        /\ b = V.data[x][i - DIRECT]
      OBVIOUS
    <3>1. i <= DIRECT + WORDS - 1 /\ ~(i < DIRECT)
      BY <1>1 DEF Slots
    <3>2. i - DIRECT \in 0 .. WORDS - 1
      BY <1>1, <3>1
    <3>3. x # 0 /\ b = V.data[x][i - DIRECT]
      BY <1>5, <1>a, <3>1
    <3>4. x \in Blocks
      BY <1>a, <3>3 DEF Blocks
    <3>5. V.data[x] \in [0 .. WORDS - 1 -> 0 .. BLOCKS - 1]
      BY <1>a, <3>3
    <3> QED BY <3>2, <3>3, <3>4, <3>5
  <2>5. W = With(R, n, N, D)
    <3>0. W = FreeSlot(V, n, i, b) /\ b # 0 /\ x = V.node[n].indirect
      BY <1>5, <1>a
    <3> HIDE DEF W
    <3>1. W = LET Q == [R EXCEPT !.node[n].blocks = @ - 1]
              IN IF i < DIRECT THEN [Q EXCEPT !.node[n].direct[i] = 0]
                 ELSE [Q EXCEPT !.data[x][i - DIRECT] = 0]
      BY <3>0 DEF FreeSlot
    <3>2. CASE i < DIRECT
      <4>1. W = [[R EXCEPT !.node[n].blocks = @ - 1] EXCEPT !.node[n].direct[i] = 0]
        BY <3>1, <3>2
      <4> DEFINE Q == [R EXCEPT !.node[n].blocks = @ - 1]
                 M == [N0 EXCEPT !.blocks = N0.blocks - 1]
      <4>2. Q = [R EXCEPT !.node = [V.node EXCEPT ![n] = M]]
        BY <2>2, <2>3 DEF VolumeOK
      <4>3. Q.node = [V.node EXCEPT ![n] = M] /\ Q.node[n] = M /\ M.direct = N0.direct
        BY <1>3, <2>2, <2>3, <4>2 DEF VolumeOK, NodeSet
      <4>4. N = [M EXCEPT !.direct = [M.direct EXCEPT ![i] = 0]]
        BY <1>3, <3>2, <4>3 DEF NodeSet
      <4> HIDE DEF M, N
      <4>5. W = [Q EXCEPT !.node = [Q.node EXCEPT ![n] = [Q.node[n] EXCEPT !.direct = [Q.node[n].direct EXCEPT ![i] = 0]]]]
        BY <4>1
      <4>6. W = [Q EXCEPT !.node = [Q.node EXCEPT ![n] = N]]
        BY <4>3, <4>4, <4>5
      <4> HIDE DEF Q
      <4>7. W = [R EXCEPT !.node = [V.node EXCEPT ![n] = N]]
        BY <2>2, <4>2, <4>3, <4>6 DEF VolumeOK
      <4> QED BY <2>2, <2>3, <3>2, <4>7 DEF With, VolumeOK
    <3>3. CASE ~(i < DIRECT)
      <4>1. W = [[R EXCEPT !.node[n].blocks = @ - 1] EXCEPT !.data[x][i - DIRECT] = 0]
        BY <3>1, <3>3
      <4>2. D1[x] = V.data[x]
        BY <1>1, <1>3, <2>1, <2>4, <3>3
      <4> QED BY <1>3, <2>2, <2>3, <3>3, <4>1, <4>2 DEF With, VolumeOK, NodeSet
    <3> QED BY <3>2, <3>3
  <2>6. N \in NodeSet /\ N.mode = N0.mode /\ N.links = N0.links /\ N.size = N0.size
        /\ N.blocks = N0.blocks + (-1) /\ N.indirect = N0.indirect
        /\ N.direct = IF i < DIRECT THEN [N0.direct EXCEPT ![i] = 0] ELSE N0.direct
    <3>1. 0 \in 0 .. BLOCKS - 1 /\ N0.blocks - 1 = N0.blocks + (-1) /\ N0.blocks - 1 \in Int
      <4>1. N0.blocks \in Int
        BY <1>3 DEF NodeSet
      <4> HIDE DEF N0
      <4> QED BY <4>1, TreeAssumption
    <3>2. CASE i < DIRECT
      BY <1>1, <1>3, <3>1, <3>2 DEF NodeSet
    <3>3. CASE ~(i < DIRECT)
      BY <1>1, <1>3, <3>1, <3>3 DEF NodeSet
    <3> QED BY <3>2, <3>3
  <2>7. /\ D = [c \in Blocks |-> D[c]]
        /\ \A c \in Blocks : D[c] = IF c = b THEN Junk
                                    ELSE IF c = x /\ i >= DIRECT THEN [V.data[x] EXCEPT ![i - DIRECT] = 0]
                                    ELSE V.data[c]
    <3>1. D1 = [c \in Blocks |-> IF c = b THEN Junk ELSE V.data[c]]
      BY <1>3
    <3>2. D = [c \in Blocks |-> IF c = b THEN Junk
                                 ELSE IF c = x /\ i >= DIRECT THEN [V.data[x] EXCEPT ![i - DIRECT] = 0]
                                 ELSE V.data[c]]
      <4>1. CASE i < DIRECT
        BY <1>1, <3>1, <4>1
      <4>2. CASE ~(i < DIRECT)
        <5>1. i >= DIRECT /\ D = [D1 EXCEPT ![x] = [V.data[x] EXCEPT ![i - DIRECT] = 0]]
          BY <1>1, <4>2
        <5> QED BY <2>1, <2>4, <3>1, <5>1
      <4> QED BY <4>1, <4>2
    <3> QED BY <3>2
  <2> HIDE DEF N, D, R
  <2>8. /\ VolumeOK(W) /\ W.ok = V.ok /\ W.hint = V.hint /\ W.used = R.used /\ W.sb = R.sb
        /\ W.gd = R.gd /\ W.node = [V.node EXCEPT ![n] = N] /\ W.data = D
    BY <2>2, <2>3, <2>5, <2>6, <2>7, WithOK
  <2> HIDE DEF W
  <2>9. /\ W.node[n] = N /\ \A m \in Inodes : m # n => W.node[m] = V.node[m]
        /\ W.used["block"] = V.used["block"] \ {b} /\ W.used["inode"] = V.used["inode"]
        /\ \A g \in Groups : W.gd[g]["dirs"] = V.gd[g]["dirs"]
    BY <1>3, <2>3, <2>8 DEF VolumeOK, Kinds
  <2>10. ASSUME NEW m \in Inodes, V.node[m].indirect # 0
         PROVE  /\ V.node[m].indirect \in Blocks /\ V.node[m].indirect # b
                /\ m # n => V.node[m].indirect # x
    <3>1. Ptr(V, m, DIRECT + WORDS) = V.node[m].indirect
      BY DEF Ptr
    <3>2. V.node[m].indirect \in Blocks
      BY <1>1, <1>3, <2>10, <3>1 DEF Owned
    <3>3. V.node[m].indirect # b /\ (m # n => V.node[m].indirect # x)
      BY <1>1, <1>2, <1>3, <2>10, <3>1 DEF Owned
    <3> QED BY <3>2, <3>3
  <2>11. \A m \in Inodes : W.node[m].indirect = V.node[m].indirect
    BY <2>6, <2>9
  <2>12. \A m \in Inodes : m # n /\ V.node[m].indirect # 0 =>
           W.data[V.node[m].indirect] = V.data[V.node[m].indirect]
    BY <2>7, <2>8, <2>10
  <2>13. x # 0 => W.data[x] = IF i >= DIRECT THEN [V.data[x] EXCEPT ![i - DIRECT] = 0] ELSE V.data[x]
    BY <1>a, <2>7, <2>8, <2>10
  <2>14. IndirectOK(W)
    <3> SUFFICES ASSUME NEW m \in Inodes, V.node[m].indirect # 0
                 PROVE  W.data[V.node[m].indirect] \in [0 .. WORDS - 1 -> 0 .. BLOCKS - 1]
      BY <2>11 DEF IndirectOK
    <3>1. 0 \in 0 .. BLOCKS - 1
      BY TreeAssumption
    <3>2. CASE m = n
      BY <1>a, <2>13, <3>1, <3>2
    <3>3. CASE m # n
      BY <1>3, <2>12, <3>3 DEF IndirectOK
    <3> QED BY <3>2, <3>3
  <2>a. VolumeOK(W)
    BY <2>8
  <2>15. ASSUME NEW m \in Inodes, m # n, NEW j \in Cells PROVE Ptr(W, m, j) = Ptr(V, m, j)
    <3>1. W.node[m] = V.node[m]
      BY <2>9, <2>15
    <3> QED BY <2>12, <2>15, <3>1 DEF Ptr, FileBlock
  <2>16. ASSUME NEW j \in Cells PROVE Ptr(W, n, j) = IF j = i THEN 0 ELSE Ptr(V, n, j)
    <3>1. CASE j = DIRECT + WORDS
      BY <1>1, <2>11, <3>1 DEF Ptr
    <3>2. CASE j \in 0 .. DIRECT - 1
      <4>a. Ptr(W, n, j) = W.node[n].direct[j]
        BY <2>14, <2>a, <3>2, PtrIs
      <4>b. Ptr(V, n, j) = V.node[n].direct[j]
        BY <1>3, <3>2, PtrIs
      <4>1. Ptr(W, n, j) = N.direct[j] /\ Ptr(V, n, j) = N0.direct[j]
        BY <2>9, <4>a, <4>b
      <4>2. N0.direct \in [0 .. DIRECT - 1 -> 0 .. BLOCKS - 1]
        BY <1>3 DEF NodeSet
      <4>3. N.direct[j] = IF j = i THEN 0 ELSE N0.direct[j]
        BY <1>1, <2>6, <3>2, <4>2
      <4> QED BY <4>1, <4>3
    <3>3. CASE j # DIRECT + WORDS /\ j \notin 0 .. DIRECT - 1
      <4>1. PICK k \in 0 .. WORDS - 1 : j = DIRECT + k
        <5>1. j - DIRECT \in 0 .. WORDS - 1 /\ j = DIRECT + (j - DIRECT)
          BY <1>1, <3>3 DEF Cells
        <5> QED BY <5>1
      <4>2. /\ Ptr(W, n, j) = IF W.node[n].indirect = 0 THEN 0 ELSE W.data[W.node[n].indirect][k]
            /\ Ptr(V, n, j) = IF V.node[n].indirect = 0 THEN 0 ELSE V.data[V.node[n].indirect][k]
        <5>1. Ptr(W, n, DIRECT + k) = IF W.node[n].indirect = 0 THEN 0 ELSE W.data[W.node[n].indirect][k]
          BY <2>14, <2>a, PtrIs
        <5>2. Ptr(V, n, DIRECT + k) = IF V.node[n].indirect = 0 THEN 0 ELSE V.data[V.node[n].indirect][k]
          BY <1>3, PtrIs
        <5> QED BY <4>1, <5>1, <5>2
      <4>3. /\ Ptr(W, n, j) = IF x = 0 THEN 0 ELSE W.data[x][k]
            /\ Ptr(V, n, j) = IF x = 0 THEN 0 ELSE V.data[x][k]
        BY <1>a, <2>11, <4>2
      <4>4. j = i <=> i >= DIRECT /\ k = i - DIRECT
        BY <1>1, <4>1
      <4>5. CASE x = 0
        BY <4>3, <4>5
      <4>6. CASE x # 0 /\ i >= DIRECT
        <5>1. W.data[x] = [V.data[x] EXCEPT ![i - DIRECT] = 0] /\ V.data[x] \in [0 .. WORDS - 1 -> 0 .. BLOCKS - 1]
          BY <1>a, <2>13, <4>6
        <5>2. W.data[x][k] = IF k = i - DIRECT THEN 0 ELSE V.data[x][k]
          BY <5>1
        <5> QED BY <4>3, <4>4, <4>6, <5>2
      <4>7. CASE x # 0 /\ ~(i >= DIRECT)
        BY <2>13, <4>3, <4>4, <4>7
      <4> QED BY <4>5, <4>6, <4>7
    <3> QED BY <3>1, <3>2, <3>3
  <2>17. Repointed(V, W, n, i, 0, -1)
    BY <1>1, <2>6, <2>9, <2>14, <2>15, <2>16 DEF Repointed
  <2>18. Owned(W)
    BY <1>1, <1>2, <1>3, <1>5, <2>9, <2>17, DetachOwned
  <2>19. Counted(W)
    BY <2>2, <2>8, CountsStay
  <2>20. Core(W)
    BY <2>8, <2>9, <2>18, <2>19 DEF Core, InodesOK
  <2>21. ASSUME NEW m \in Inodes, NEW j \in Cells, Ptr(V, m, j) # 0, ~(m = n /\ j = i),
                ~(m = n /\ j = DIRECT + WORDS)
         PROVE  W.data[Ptr(V, m, j)] = V.data[Ptr(V, m, j)]
    <3>1. Ptr(V, m, j) \in Blocks
      BY <1>3, <2>21 DEF Owned
    <3>2. Ptr(V, m, j) # b /\ Ptr(V, m, j) # x
      BY <1>1, <1>2, <1>3, <2>21 DEF Owned
    <3> QED BY <2>7, <2>8, <3>1, <3>2
  <2>22. Elsewhere(V, W, n)
    BY <2>6, <2>9, <2>21 DEF Elsewhere
  <2>23. \A j \in Slots : j # i /\ Ptr(V, n, j) # 0 => W.data[Ptr(V, n, j)] = V.data[Ptr(V, n, j)]
    BY <1>1, <2>21 DEF Slots
  <2> QED BY <1>a, <2>6, <2>8, <2>9, <2>16, <2>20, <2>22, <2>23 DEF W
<1> QED BY <1>4, <1>5

(* release of the indirect block, once none of its pointers is left *)
LEMMA FreeIndirectCore ==
  ASSUME NEW V, Core(V), NEW n \in Inodes, NEW keep \in Nat,
         keep <= DIRECT => \A j \in Slots : j >= DIRECT => Ptr(V, n, j) = 0
  PROVE  /\ Core(FreeIndirect(V, n, keep)) /\ Elsewhere(V, FreeIndirect(V, n, keep), n)
         /\ FreeIndirect(V, n, keep).ok = V.ok /\ FreeIndirect(V, n, keep).hint = V.hint
         /\ FreeIndirect(V, n, keep).node[n].size = V.node[n].size
         /\ FreeIndirect(V, n, keep).node[n].indirect = IF keep > DIRECT THEN V.node[n].indirect ELSE 0
         /\ \A j \in Slots : Ptr(FreeIndirect(V, n, keep), n, j) = Ptr(V, n, j)
         /\ \A j \in Slots : Ptr(V, n, j) # 0 =>
              FreeIndirect(V, n, keep).data[Ptr(V, n, j)] = V.data[Ptr(V, n, j)]
<1> DEFINE W == FreeIndirect(V, n, keep)
           N0 == V.node[n]
           b == V.node[n].indirect
           e == DIRECT + WORDS
<1>1. /\ DIRECT \in Nat \ {0} /\ WORDS \in Nat \ {0} /\ e \in Cells /\ \A j \in Slots : j \in Cells /\ j # e
  BY TreeAssumption DEF Slots, Cells
<1>2. Ptr(V, n, e) = b
  BY DEF Ptr
<1>3. /\ N0 \in NodeSet /\ VolumeOK(V) /\ Counted(V) /\ Owned(V) /\ IndirectOK(V)
      /\ V.data = [c \in Blocks |-> V.data[c]]
  BY CoreType
<1>4. CASE keep > DIRECT \/ b = 0
  <2>1. W = V
    BY <1>4 DEF FreeIndirect
  <2>2. keep \in Nat /\ DIRECT \in Nat
    BY <1>1
  <2> QED BY <1>4, <2>1, <2>2, ElsewhereSame
<1>5. CASE ~(keep > DIRECT \/ b = 0)
  <2>a. keep <= DIRECT /\ b # 0
    BY <1>1, <1>5
  <2>1. b \in Blocks /\ b \in V.used["block"]
    BY <1>1, <1>2, <1>3, <2>a DEF Owned
  <2> DEFINE R == Release(V, "block", b)
             N == [N0 EXCEPT !.indirect = 0, !.blocks = N0.blocks - 1]
             D == [V.data EXCEPT ![b] = Junk]
  <2>2. VolumeOK(R) /\ Counted(R) /\ Released(V, R, "block", b)
    BY <1>3, <2>1, ReleaseCounted DEF Kinds
  <2>3. /\ R.node = V.node /\ R.data = D /\ R.used = [V.used EXCEPT !["block"] = @ \ {b}]
        /\ R.ok = V.ok /\ R.hint = V.hint /\ R.gd = [V.gd EXCEPT ![GroupOf("block", b)]["block"] = @ + 1]
    BY <2>2 DEF Released
  <2>4. W = [R EXCEPT !.node[n].indirect = 0, !.node[n].blocks = @ - 1]
    BY <1>5 DEF FreeIndirect
  <2>5. W = With(R, n, N, D)
    <3> DEFINE M == [N0 EXCEPT !.indirect = 0]
               Q == [R EXCEPT !.node[n].indirect = 0]
    <3>1. W = [Q EXCEPT !.node[n].blocks = R.node[n].blocks - 1]
      BY <2>4
    <3>0. Q = [R EXCEPT !.node = [V.node EXCEPT ![n] = M]]
      BY <2>2, <2>3 DEF VolumeOK
    <3>2. Q.node = [V.node EXCEPT ![n] = M] /\ Q.node[n] = M /\ M.blocks = N0.blocks
      BY <1>3, <2>2, <2>3, <3>0 DEF VolumeOK, NodeSet
    <3>3. N = [M EXCEPT !.blocks = R.node[n].blocks - 1]
      <4>1. R.node[n].blocks = N0.blocks
        BY <2>3
      <4>2. N = [M EXCEPT !.blocks = N0.blocks - 1]
        OBVIOUS
      <4> QED BY <4>1, <4>2
    <3>4. W = [Q EXCEPT !.node = [Q.node EXCEPT ![n] = [Q.node[n] EXCEPT !.blocks = R.node[n].blocks - 1]]]
      BY <3>1
    <3> HIDE DEF M, N, Q
    <3>5. W = [Q EXCEPT !.node = [Q.node EXCEPT ![n] = N]]
      BY <3>2, <3>3, <3>4
    <3>6. W = [R EXCEPT !.node = [V.node EXCEPT ![n] = N]]
      BY <2>2, <3>0, <3>2, <3>5 DEF VolumeOK
    <3> QED BY <2>2, <2>3, <3>6 DEF With, VolumeOK
  <2>6. N \in NodeSet /\ N.mode = N0.mode /\ N.links = N0.links /\ N.size = N0.size
        /\ N.blocks = N0.blocks + (-1) /\ N.indirect = 0 /\ N.direct = N0.direct
    <3>1. 0 \in 0 .. BLOCKS - 1 /\ N0.blocks - 1 = N0.blocks + (-1) /\ N0.blocks - 1 \in Int
      <4>1. N0.blocks \in Int
        BY <1>3 DEF NodeSet
      <4> HIDE DEF N0
      <4> QED BY <4>1, TreeAssumption
    <3> QED BY <1>3, <3>1 DEF NodeSet
  <2>7. /\ D = [c \in Blocks |-> D[c]]
        /\ \A c \in Blocks : c # b => D[c] = V.data[c]
    BY <1>3
  <2> HIDE DEF N, D, R
  <2>8. /\ VolumeOK(W) /\ W.ok = V.ok /\ W.hint = V.hint /\ W.used = R.used /\ W.sb = R.sb
        /\ W.gd = R.gd /\ W.node = [V.node EXCEPT ![n] = N] /\ W.data = D
    BY <2>2, <2>3, <2>5, <2>6, <2>7, WithOK
  <2> HIDE DEF W
  <2>9. /\ W.node[n] = N /\ \A m \in Inodes : m # n => W.node[m] = V.node[m]
        /\ W.used["block"] = V.used["block"] \ {b} /\ W.used["inode"] = V.used["inode"]
        /\ \A g \in Groups : W.gd[g]["dirs"] = V.gd[g]["dirs"]
    <3>1. W.node[n] = N /\ \A m \in Inodes : m # n => W.node[m] = V.node[m]
      BY <1>3, <2>8 DEF VolumeOK
    <3>2. W.used["block"] = V.used["block"] \ {b} /\ W.used["inode"] = V.used["inode"]
      BY <1>3, <2>3, <2>8 DEF VolumeOK, Kinds
    <3>3. \A g \in Groups : W.gd[g]["dirs"] = V.gd[g]["dirs"]
      BY <1>3, <2>3, <2>8 DEF VolumeOK, Kinds
    <3> QED BY <3>1, <3>2, <3>3
  <2>10. ASSUME NEW m \in Inodes, NEW j \in Cells, Ptr(V, m, j) # 0, ~(m = n /\ j = e)
         PROVE  W.data[Ptr(V, m, j)] = V.data[Ptr(V, m, j)]
    <3>1. Ptr(V, m, j) \in Blocks
      BY <1>3, <2>10 DEF Owned
    <3>2. Ptr(V, m, j) # b
      BY <1>1, <1>2, <1>3, <2>10 DEF Owned
    <3> QED BY <2>7, <2>8, <3>1, <3>2
  <2>11. Elsewhere(V, W, n)
    BY <2>6, <2>9, <2>10 DEF Elsewhere
  <2>12. \A m \in Inodes : m # n => /\ \A j \in Cells : Ptr(W, m, j) = Ptr(V, m, j)
                                    /\ W.node[m] = V.node[m]
                                    /\ V.node[m].indirect # 0 =>
                                         W.data[V.node[m].indirect] = V.data[V.node[m].indirect]
    BY <2>9, <2>11, ElsewherePtr
  <2>13. IndirectOK(W)
    BY <1>3, <2>6, <2>9, <2>12 DEF IndirectOK
  <2>14. ASSUME NEW j \in Cells PROVE Ptr(W, n, j) = IF j = e THEN 0 ELSE Ptr(V, n, j)
    <3>1. CASE j = e
      BY <2>6, <2>9, <3>1 DEF Ptr
    <3>2. CASE j < DIRECT
      BY <1>1, <2>6, <2>9, <3>2 DEF Ptr, FileBlock
    <3>3. CASE j # e /\ ~(j < DIRECT)
      <4>1. Ptr(W, n, j) = 0
        BY <2>6, <2>9, <3>3 DEF Ptr, FileBlock
      <4>2. j \in Slots /\ j >= DIRECT
        BY <1>1, <3>3 DEF Slots, Cells
      <4> QED BY <2>a, <3>3, <4>1, <4>2
    <3> QED BY <3>1, <3>2, <3>3
  <2>15. Repointed(V, W, n, e, 0, -1)
    BY <1>1, <2>6, <2>9, <2>12, <2>13, <2>14 DEF Repointed
  <2>16. Owned(W)
    BY <1>1, <1>2, <1>3, <2>a, <2>9, <2>15, DetachOwned
  <2>17. Counted(W)
    BY <2>2, <2>8, CountsStay
  <2>18. Core(W)
    BY <2>8, <2>9, <2>16, <2>17 DEF Core, InodesOK
  <2>19. ~(keep > DIRECT)
    BY <1>5
  <2>20. W.node[n].size = N0.size /\ W.node[n].indirect = 0
    BY <2>6, <2>9
  <2> QED BY <1>1, <2>8, <2>10, <2>11, <2>14, <2>18, <2>19, <2>20 DEF W
<1> QED BY <1>4, <1>5

(* The volumes of the loop of truncate_blocks up to slot e *)
Cuts(f, V, n, keep, e) == f = [i \in 0 .. e |-> IF i <= keep THEN V ELSE ReleaseSlot(f[i - 1], n, i - 1)]

LEMMA CutsExist == ASSUME NEW V, NEW n, NEW keep \in Nat, NEW e \in Nat PROVE \E f : Cuts(f, V, n, keep, e)
<1> DEFINE Bad == {k \in Nat : ~\E f : Cuts(f, V, n, keep, k)}
<1>1. SUFFICES ASSUME Bad # {} PROVE FALSE
  OBVIOUS
<1>2. PICK k \in Bad : \A j \in Bad : k <= j
  BY <1>1, LeastNat
<1>4. k # 0
  <2> DEFINE h == [m \in 0..0 |-> V]
  <2>1. \A m \in 0..0 : h[m] = IF m <= keep THEN V ELSE ReleaseSlot(h[m - 1], n, m - 1)
    OBVIOUS
  <2>2. h = [m \in 0..0 |-> IF m <= keep THEN V ELSE ReleaseSlot(h[m - 1], n, m - 1)]
    BY <2>1
  <2>3. Cuts(h, V, n, keep, 0)
    BY <2>2 DEF Cuts
  <2> QED BY <1>2, <2>3
<1>5. PICK f : Cuts(f, V, n, keep, k - 1)
  <2>1. k - 1 \in Nat /\ ~(k <= k - 1)
    BY <1>2, <1>4
  <2>2. k - 1 \notin Bad
    BY <1>2, <2>1
  <2> QED BY <2>1, <2>2
<1> DEFINE g == [m \in 0..k |-> IF m < k THEN f[m]
                                ELSE IF m <= keep THEN V ELSE ReleaseSlot(f[m - 1], n, m - 1)]
<1>6. \A m \in 0..k : g[m] = IF m <= keep THEN V ELSE ReleaseSlot(g[m - 1], n, m - 1)
  <2> TAKE m \in 0..k
  <2>1. CASE m = k
    BY <1>2, <1>4, <2>1
  <2>2. CASE m < k
    <3>1. m \in 0..k - 1 /\ (~(m <= keep) => m - 1 \in 0..k - 1 /\ m - 1 < k)
      BY <1>2, <1>4, <2>2
    <3>2. f[m] = IF m <= keep THEN V ELSE ReleaseSlot(f[m - 1], n, m - 1)
      BY <1>5, <3>1 DEF Cuts
    <3> QED BY <2>2, <3>1, <3>2
  <2> QED BY <1>2, <2>1, <2>2
<1>7. Cuts(g, V, n, keep, k)
  BY <1>6 DEF Cuts
<1> QED BY <1>2, <1>7

(* Slots keep and up to i - 1 of inode n are empty, the others as they were. *)
CutTo(V, W, n, keep, i) ==
  /\ Core(W) /\ Elsewhere(V, W, n) /\ W.ok = V.ok /\ W.hint = V.hint
  /\ W.node[n].size = V.node[n].size /\ W.node[n].indirect = V.node[n].indirect
  /\ \A j \in Slots : Ptr(W, n, j) = IF keep <= j /\ j < i THEN 0 ELSE Ptr(V, n, j)
  /\ \A j \in Slots : j < keep /\ Ptr(V, n, j) # 0 => W.data[Ptr(V, n, j)] = V.data[Ptr(V, n, j)]

LEMMA CutStep ==
  ASSUME NEW V, NEW W, NEW n \in Inodes, NEW keep \in Nat, NEW i \in Slots, keep <= i, CutTo(V, W, n, keep, i)
  PROVE  CutTo(V, ReleaseSlot(W, n, i), n, keep, i + 1)
<1> DEFINE X == ReleaseSlot(W, n, i)
<1>1. Core(W) /\ i \in Nat /\ \A j \in Slots : j \in Cells /\ j \in Nat
  BY TreeAssumption DEF CutTo, Slots, Cells
<1>2. /\ Core(X) /\ Elsewhere(W, X, n) /\ X.ok = W.ok /\ X.hint = W.hint
      /\ X.node[n].size = W.node[n].size /\ X.node[n].indirect = W.node[n].indirect
      /\ \A j \in Cells : Ptr(X, n, j) = IF j = i THEN 0 ELSE Ptr(W, n, j)
      /\ \A j \in Slots : j # i /\ Ptr(W, n, j) # 0 => X.data[Ptr(W, n, j)] = W.data[Ptr(W, n, j)]
  BY <1>1, FreeSlotCore
<1> HIDE DEF X
<1>3. Elsewhere(V, X, n)
  BY <1>2, ElsewhereThen DEF CutTo
<1>4. ASSUME NEW j \in Slots PROVE Ptr(X, n, j) = IF keep <= j /\ j < i + 1 THEN 0 ELSE Ptr(V, n, j)
  <2>1. j < i + 1 <=> j < i \/ j = i
    BY <1>1
  <2> QED BY <1>1, <1>2, <2>1 DEF CutTo
<1>5. ASSUME NEW j \in Slots, j < keep, Ptr(V, n, j) # 0 PROVE X.data[Ptr(V, n, j)] = V.data[Ptr(V, n, j)]
  <2>1. j # i /\ ~(keep <= j)
    BY <1>1, <1>5
  <2>2. Ptr(W, n, j) = Ptr(V, n, j) /\ W.data[Ptr(V, n, j)] = V.data[Ptr(V, n, j)]
    BY <1>5, <2>1 DEF CutTo
  <2> QED BY <1>2, <1>5, <2>1, <2>2
<1>6. CutTo(V, X, n, keep, i + 1)
  BY <1>2, <1>3, <1>4, <1>5 DEF CutTo
<1> QED BY <1>6 DEF X

(* truncate_blocks gives back the slots from keep on, and no others. *)
LEMMA TruncateFacts ==
  ASSUME NEW V, Core(V), NEW n \in Inodes, NEW keep \in Nat
  PROVE  LET W == TruncateBlocks(V, n, keep)
         IN  /\ Core(W) /\ Elsewhere(V, W, n) /\ W.ok = V.ok /\ W.hint = V.hint
             /\ W.node[n].size = V.node[n].size
             /\ W.node[n].indirect = IF keep > DIRECT THEN V.node[n].indirect ELSE 0
             /\ \A j \in Slots : Ptr(W, n, j) = IF keep <= j THEN 0 ELSE Ptr(V, n, j)
             /\ \A j \in Slots : j < keep /\ Ptr(V, n, j) # 0 =>
                  W.data[Ptr(V, n, j)] = V.data[Ptr(V, n, j)]
<1> DEFINE e == DIRECT + WORDS
           F == CHOOSE f : Cuts(f, V, n, keep, e)
           W == TruncateBlocks(V, n, keep)
<1>0. e \in Nat /\ DIRECT \in Nat /\ \A i \in Nat : i < e => i \in Slots
  BY TreeAssumption DEF Slots
<1>1. Cuts(F, V, n, keep, e)
  BY <1>0, CutsExist
<1>2. W = FreeIndirect(F[e], n, keep)
  BY DEF TruncateBlocks, Cuts
<1> HIDE DEF F, W
<1>3. \A i \in 0 .. e : F[i] = IF i <= keep THEN V ELSE ReleaseSlot(F[i - 1], n, i - 1)
  BY <1>1 DEF Cuts
<1>4. \A i \in 0 .. e : i <= keep => CutTo(V, F[i], n, keep, i)
  <2> SUFFICES ASSUME NEW i \in 0 .. e, i <= keep PROVE CutTo(V, V, n, keep, i)
    BY <1>3
  <2>1. \A j \in Slots : ~(keep <= j /\ j < i)
    BY <1>0 DEF Slots
  <2> QED BY <2>1, ElsewhereSame DEF CutTo
<1>5. CutTo(V, F[e], n, keep, e)
  <2> DEFINE Bad == {i \in 0 .. e : ~CutTo(V, F[i], n, keep, i)}
  <2>1. SUFFICES ASSUME Bad # {} PROVE FALSE
    BY <1>0
  <2>2. PICK i \in Bad : \A k \in Bad : i <= k
    <3>1. Bad \in SUBSET Nat
      BY <1>0
    <3> QED BY <2>1, <3>1, LeastNat
  <2>3. ~(i <= keep) /\ i \in 0 .. e
    BY <1>4, <2>2
  <2>4. i - 1 \in 0 .. e /\ ~(i <= i - 1) /\ i - 1 \in Slots /\ keep <= i - 1 /\ (i - 1) + 1 = i
    BY <1>0, <2>3
  <2>5. CutTo(V, F[i - 1], n, keep, i - 1)
    BY <2>2, <2>4
  <2>6. CutTo(V, ReleaseSlot(F[i - 1], n, i - 1), n, keep, (i - 1) + 1)
    BY <2>4, <2>5, CutStep
  <2>7. CutTo(V, F[i], n, keep, i)
    BY <1>3, <2>3, <2>4, <2>6
  <2> QED BY <2>2, <2>7
<1>6. PICK X : X = F[e]
  OBVIOUS
<1>7. CutTo(V, X, n, keep, e) /\ W = FreeIndirect(X, n, keep) /\ Core(X)
  BY <1>2, <1>5, <1>6 DEF CutTo
<1>8. \A j \in Slots : j < e /\ j \in Int
  BY TreeAssumption DEF Slots
<1>9. \A j \in Slots : Ptr(X, n, j) = IF keep <= j THEN 0 ELSE Ptr(V, n, j)
  BY <1>7, <1>8 DEF CutTo
<1>10. keep <= DIRECT => \A j \in Slots : j >= DIRECT => Ptr(X, n, j) = 0
  BY <1>0, <1>8, <1>9
<1>11. /\ Core(W) /\ Elsewhere(X, W, n) /\ W.ok = X.ok /\ W.hint = X.hint
       /\ W.node[n].size = X.node[n].size
       /\ W.node[n].indirect = IF keep > DIRECT THEN X.node[n].indirect ELSE 0
       /\ \A j \in Slots : Ptr(W, n, j) = Ptr(X, n, j)
       /\ \A j \in Slots : Ptr(X, n, j) # 0 => W.data[Ptr(X, n, j)] = X.data[Ptr(X, n, j)]
  BY <1>7, <1>10, FreeIndirectCore
<1>12. Elsewhere(V, W, n)
  BY <1>7, <1>11, ElsewhereThen DEF CutTo
<1>13. ASSUME NEW j \in Slots, j < keep, Ptr(V, n, j) # 0 PROVE W.data[Ptr(V, n, j)] = V.data[Ptr(V, n, j)]
  <2>1. ~(keep <= j)
    BY <1>8, <1>13
  <2>2. Ptr(X, n, j) = Ptr(V, n, j) /\ X.data[Ptr(V, n, j)] = V.data[Ptr(V, n, j)]
    BY <1>7, <1>9, <1>13, <2>1 DEF CutTo
  <2> QED BY <1>11, <1>13, <2>2
<1>14. W.ok = V.ok /\ W.hint = V.hint /\ W.node[n].size = V.node[n].size
       /\ W.node[n].indirect = IF keep > DIRECT THEN V.node[n].indirect ELSE 0
  BY <1>7, <1>11 DEF CutTo
<1> QED BY <1>9, <1>11, <1>12, <1>13, <1>14 DEF W

-----------------------------------------------------------------------------
(* Blocks are taken *)

(* allocate gave A.ret, a block that was free and that no cell has. *)
GotBlock(V, A) ==
  /\ VolumeOK(A) /\ Counted(A) /\ A.ok = V.ok
  /\ A.ret \in Blocks /\ DataBlock(A.ret) /\ A.ret \notin V.used["block"]
  /\ A.node = V.node /\ A.data = [V.data EXCEPT ![A.ret] = ZeroBlock]
  /\ A.used["block"] = V.used["block"] \cup {A.ret} /\ A.used["inode"] = V.used["inode"]
  /\ \A g \in Groups : A.gd[g]["dirs"] = V.gd[g]["dirs"]
  /\ \A m \in Inodes, i \in Cells : Ptr(V, m, i) # A.ret

LEMMA AllocateBlock ==
  ASSUME NEW V, Core(V)
  PROVE  VolumeOK(Allocate(V, "block")) /\ (Allocate(V, "block").ok => GotBlock(V, Allocate(V, "block")))
<1> DEFINE A == Allocate(V, "block")
<1>1. VolumeOK(V) /\ Counted(V) /\ Owned(V) /\ "block" \in Kinds
  BY DEF Core, Kinds
<1>2. \/ A = Failed(V)
      \/ \E g \in Groups : \E n \in Candidates("block", g) \ V.used["block"] :
           Took(V, A, "block", g, n) /\ VolumeOK(A) /\ Counted(A) /\ DataBlock(n)
  BY <1>1, AllocateFacts
<1> HIDE DEF A
<1>3. CASE A = Failed(V)
  BY <1>1, <1>3, FailedOK DEF A
<1>4. CASE A # Failed(V)
  <2>1. PICK g \in Groups : \E n \in Candidates("block", g) \ V.used["block"] :
           Took(V, A, "block", g, n) /\ VolumeOK(A) /\ Counted(A) /\ DataBlock(n)
    BY <1>2, <1>4
  <2>2. PICK n \in Candidates("block", g) \ V.used["block"] :
           Took(V, A, "block", g, n) /\ VolumeOK(A) /\ Counted(A) /\ DataBlock(n)
    BY <2>1
  <2>3. n \in Blocks /\ n # 0
    BY <2>2, BlockOfGroup DEF Blocks
  <2>4. /\ A.ret = n /\ A.ok = V.ok /\ A.node = V.node /\ A.data = [V.data EXCEPT ![n] = ZeroBlock]
        /\ A.used = [V.used EXCEPT !["block"] = @ \cup {n}]
        /\ A.gd = [V.gd EXCEPT ![g]["block"] = @ - 1]
    BY <2>2 DEF Took
  <2>5. A.used["block"] = V.used["block"] \cup {n} /\ A.used["inode"] = V.used["inode"]
    BY <1>1, <2>4 DEF VolumeOK, Kinds
  <2>6. \A h \in Groups : A.gd[h]["dirs"] = V.gd[h]["dirs"]
    BY <1>1, <2>4 DEF VolumeOK, Kinds
  <2>7. \A m \in Inodes, i \in Cells : Ptr(V, m, i) # n
    BY <1>1, <2>2, <2>3 DEF Owned
  <2>8. GotBlock(V, A)
    BY <2>2, <2>3, <2>4, <2>5, <2>6, <2>7 DEF GotBlock
  <2> QED BY <2>2, <2>8 DEF A
<1> QED BY <1>3, <1>4

(* The block goes into cell i of inode n, whose node becomes N, and the data D. *)
Attached(V, A, n, i, N, D) ==
  /\ N \in NodeSet /\ N.mode = V.node[n].mode /\ N.links = V.node[n].links
  /\ N.blocks = V.node[n].blocks + 1
  /\ \A j \in 0 .. DIRECT - 1 : N.direct[j] = IF j = i THEN A.ret ELSE V.node[n].direct[j]
  /\ N.indirect = IF i = DIRECT + WORDS THEN A.ret ELSE V.node[n].indirect
  /\ D = [c \in Blocks |-> D[c]]
  /\ \A c \in Blocks : c # A.ret /\ (c # V.node[n].indirect \/ i < DIRECT) => D[c] = V.data[c]
  /\ ~(i < DIRECT) /\ i # DIRECT + WORDS =>
       /\ V.node[n].indirect # 0
       /\ D[V.node[n].indirect] \in [0 .. WORDS - 1 -> 0 .. BLOCKS - 1]
       /\ \A k \in 0 .. WORDS - 1 : D[V.node[n].indirect][k] =
            IF k = i - DIRECT THEN A.ret ELSE V.data[V.node[n].indirect][k]
  /\ i = DIRECT + WORDS => D[A.ret] = ZeroBlock

LEMMA AttachCore ==
  ASSUME NEW V, Core(V), NEW A, GotBlock(V, A), NEW n \in Inodes, NEW i \in Cells, Ptr(V, n, i) = 0,
         NEW N, NEW D, Attached(V, A, n, i, N, D), NEW W, W = With(A, n, N, D)
  PROVE  /\ Core(W) /\ Elsewhere(V, W, n) /\ W.ok = V.ok /\ W.node[n] = N /\ W.data = D
         /\ \A j \in Cells : Ptr(W, n, j) = IF j = i THEN A.ret ELSE Ptr(V, n, j)
         /\ \A j \in Slots : Ptr(V, n, j) # 0 => W.data[Ptr(V, n, j)] = V.data[Ptr(V, n, j)]
<1> DEFINE b == A.ret
           e == DIRECT + WORDS
           x == V.node[n].indirect
           N0 == V.node[n]
<1>1. /\ DIRECT \in Nat \ {0} /\ WORDS \in Nat \ {0} /\ e \in Cells /\ i \in Nat /\ \A j \in Slots : j \in Cells /\ j # e
  BY TreeAssumption DEF Slots, Cells
<1>2. Ptr(V, n, e) = x
  BY DEF Ptr
<1>3. /\ N0 \in NodeSet /\ VolumeOK(V) /\ Owned(V) /\ IndirectOK(V) /\ InodesOK(V)
      /\ V.data = [c \in Blocks |-> V.data[c]]
  BY CoreType DEF Core
<1>4. b \in Blocks /\ b # 0 /\ b \in 0 .. BLOCKS - 1 /\ DataBlock(b) /\ b \notin V.used["block"]
  BY DEF GotBlock, Blocks
<1>5. VolumeOK(A) /\ N \in NodeSet /\ D = [c \in Blocks |-> D[c]]
  BY DEF GotBlock, Attached
<1>6. /\ VolumeOK(W) /\ W.ok = A.ok /\ W.hint = A.hint /\ W.used = A.used /\ W.sb = A.sb
      /\ W.gd = A.gd /\ W.node = [A.node EXCEPT ![n] = N] /\ W.data = D
  BY <1>5, WithOK
<1>7. /\ W.node[n] = N /\ \A m \in Inodes : m # n => W.node[m] = V.node[m]
      /\ W.ok = V.ok /\ W.used["block"] = V.used["block"] \cup {b} /\ W.used["inode"] = V.used["inode"]
      /\ \A g \in Groups : W.gd[g]["dirs"] = V.gd[g]["dirs"]
  BY <1>3, <1>6 DEF GotBlock, VolumeOK
<1>8. /\ N.mode = N0.mode /\ N.links = N0.links /\ N.blocks = N0.blocks + 1
      /\ \A j \in 0 .. DIRECT - 1 : N.direct[j] = IF j = i THEN b ELSE N0.direct[j]
      /\ N.indirect = IF i = e THEN b ELSE x
      /\ i = e => D[b] = ZeroBlock
  BY DEF Attached
<1>9. \A c \in Blocks : c # b /\ (c # x \/ i < DIRECT) => D[c] = V.data[c]
  BY DEF Attached
<1>b. ~(i < DIRECT) /\ i # e =>
       /\ x # 0 /\ D[x] \in [0 .. WORDS - 1 -> 0 .. BLOCKS - 1]
       /\ \A k \in 0 .. WORDS - 1 : D[x][k] = IF k = i - DIRECT THEN b ELSE V.data[x][k]
  BY DEF Attached
<1>10. ASSUME NEW m \in Inodes, NEW j \in Cells, Ptr(V, m, j) # 0, ~(m = n /\ j = e)
       PROVE  W.data[Ptr(V, m, j)] = V.data[Ptr(V, m, j)]
  <2>1. Ptr(V, m, j) \in Blocks /\ Ptr(V, m, j) # b
    BY <1>3, <1>10 DEF Owned, GotBlock
  <2>2. Ptr(V, m, j) # x
    BY <1>1, <1>2, <1>3, <1>10 DEF Owned
  <2> HIDE DEF x, b
  <2> QED BY <1>6, <1>9, <2>1, <2>2
<1>11. Elsewhere(V, W, n)
  BY <1>7, <1>8, <1>10 DEF Elsewhere
<1>12. \A m \in Inodes : m # n => /\ \A j \in Cells : Ptr(W, m, j) = Ptr(V, m, j)
                                  /\ W.node[m] = V.node[m]
                                  /\ V.node[m].indirect # 0 =>
                                       W.data[V.node[m].indirect] = V.data[V.node[m].indirect]
  BY <1>7, <1>11, ElsewherePtr
<1>13. ASSUME x # 0
       PROVE  /\ x \in Blocks /\ x # b /\ V.data[x] \in [0 .. WORDS - 1 -> 0 .. BLOCKS - 1]
              /\ i < DIRECT => W.data[x] = V.data[x]
  <2>1. x \in Blocks /\ x # b
    BY <1>1, <1>2, <1>3, <1>13 DEF Owned, GotBlock
  <2>2. V.data[x] \in [0 .. WORDS - 1 -> 0 .. BLOCKS - 1]
    BY <1>3, <1>13 DEF IndirectOK
  <2> HIDE DEF x, b, e
  <2> QED BY <1>6, <1>9, <2>1, <2>2
<1>14. i = e => x = 0
  BY <1>2
<1>15. IndirectOK(W)
  <2> SUFFICES ASSUME NEW m \in Inodes, W.node[m].indirect # 0
               PROVE  W.data[W.node[m].indirect] \in [0 .. WORDS - 1 -> 0 .. BLOCKS - 1]
    BY DEF IndirectOK
  <2>1. CASE m # n
    BY <1>3, <1>12, <2>1 DEF IndirectOK
  <2>2. CASE m = n /\ i = e
    <3>1. W.data[W.node[m].indirect] = ZeroBlock
      BY <1>6, <1>7, <1>8, <2>2
    <3>2. 0 \in 0 .. BLOCKS - 1
      BY TreeAssumption
    <3> QED BY <3>1, <3>2 DEF ZeroBlock
  <2>3. CASE m = n /\ i # e
    <3>1. W.node[m].indirect = x
      BY <1>7, <1>8, <2>3
    <3> HIDE DEF x, b, e
    <3>2. CASE i < DIRECT
      BY <1>13, <2>3, <3>1, <3>2
    <3>3. CASE ~(i < DIRECT)
      BY <1>6, <1>b, <2>3, <3>1, <3>3
    <3> QED BY <3>2, <3>3
  <2> QED BY <2>1, <2>2, <2>3
<1>16. ASSUME NEW j \in Cells PROVE Ptr(W, n, j) = IF j = i THEN b ELSE Ptr(V, n, j)
  <2>a. VolumeOK(W)
    BY <1>6
  <2>1. CASE j = e
    <3>1. Ptr(W, n, j) = N.indirect /\ Ptr(V, n, j) = x
      BY <1>2, <1>7, <2>1 DEF Ptr
    <3> QED BY <1>8, <2>1, <3>1
  <2>2. CASE j \in 0 .. DIRECT - 1
    <3>a. Ptr(W, n, j) = W.node[n].direct[j]
      BY <1>15, <2>a, <2>2, PtrIs
    <3>b. Ptr(V, n, j) = V.node[n].direct[j]
      BY <1>3, <2>2, PtrIs
    <3>1. Ptr(W, n, j) = N.direct[j] /\ Ptr(V, n, j) = N0.direct[j]
      BY <1>7, <3>a, <3>b
    <3>3. N.direct[j] = IF j = i THEN b ELSE N0.direct[j]
      BY <1>8, <2>2
    <3> QED BY <3>1, <3>3
  <2>3. CASE j # e /\ j \notin 0 .. DIRECT - 1
    <3>1. PICK k \in 0 .. WORDS - 1 : j = DIRECT + k
      <4>1. j - DIRECT \in 0 .. WORDS - 1 /\ j = DIRECT + (j - DIRECT)
        BY <1>1, <2>3 DEF Cells
      <4> QED BY <4>1
    <3>2. Ptr(W, n, DIRECT + k) = IF W.node[n].indirect = 0 THEN 0 ELSE W.data[W.node[n].indirect][k]
      BY <1>15, <2>a, PtrIs
    <3>3. Ptr(V, n, DIRECT + k) = IF V.node[n].indirect = 0 THEN 0 ELSE V.data[V.node[n].indirect][k]
      BY <1>3, PtrIs
    <3>4. W.node[n].indirect = IF i = e THEN b ELSE x
      BY <1>7, <1>8
    <3>5. j = i <=> ~(i < DIRECT) /\ k = i - DIRECT
      BY <1>1, <3>1
    <3>6. CASE i = e
      <4>1. Ptr(V, n, j) = 0
        BY <1>14, <3>1, <3>3, <3>6
      <4>2. W.data[b] = ZeroBlock /\ W.node[n].indirect = b
        BY <1>6, <1>8, <3>4, <3>6
      <4>3. Ptr(W, n, j) = 0
        BY <3>1, <3>2, <4>2 DEF ZeroBlock
      <4> QED BY <2>3, <3>6, <4>1, <4>3
    <3>7. CASE i # e /\ x = 0
      <4>1. Ptr(V, n, j) = 0 /\ Ptr(W, n, j) = 0
        BY <3>1, <3>2, <3>3, <3>4, <3>7
      <4>2. j # i
        BY <1>b, <3>5, <3>7
      <4> QED BY <4>1, <4>2
    <3>8. CASE i # e /\ x # 0
      <4>1. Ptr(W, n, j) = W.data[x][k] /\ Ptr(V, n, j) = V.data[x][k]
        BY <3>1, <3>2, <3>3, <3>4, <3>8
      <4> HIDE DEF x, b
      <4>2. CASE i < DIRECT
        BY <1>13, <3>5, <3>8, <4>1, <4>2
      <4>3. CASE ~(i < DIRECT)
        BY <1>6, <1>b, <3>5, <3>8, <4>1, <4>3
      <4> QED BY <4>2, <4>3
    <3> QED BY <3>6, <3>7, <3>8
  <2> QED BY <2>1, <2>2, <2>3
<1>17. Repointed(V, W, n, i, b, 1)
  BY <1>7, <1>8, <1>12, <1>15, <1>16 DEF Repointed
<1>18. Owned(W)
  <2> HIDE DEF b
  <2> QED BY <1>3, <1>4, <1>7, <1>17, AttachOwned
<1>19. Counted(W)
  <2>1. Counted(A)
    BY DEF GotBlock
  <2> QED BY <1>6, <2>1, CountsStay
<1>20. Core(W)
  BY <1>3, <1>6, <1>7, <1>18, <1>19 DEF Core, InodesOK
<1>21. \A j \in Slots : Ptr(V, n, j) # 0 => W.data[Ptr(V, n, j)] = V.data[Ptr(V, n, j)]
  BY <1>1, <1>10
<1> QED BY <1>6, <1>7, <1>11, <1>16, <1>20, <1>21

(* Only the block in slot i of inode n, and the size of n, change. *)
Rewritten(V, n, i, N, D) ==
  /\ N \in NodeSet /\ N.mode = V.node[n].mode /\ N.links = V.node[n].links
  /\ N.blocks = V.node[n].blocks /\ N.direct = V.node[n].direct /\ N.indirect = V.node[n].indirect
  /\ D = [c \in Blocks |-> D[c]]
  /\ \A c \in Blocks : c # Ptr(V, n, i) => D[c] = V.data[c]

LEMMA ChangeCore ==
  ASSUME NEW V, Core(V), NEW n \in Inodes, NEW i \in Slots, NEW N, NEW D, Rewritten(V, n, i, N, D),
         NEW W, W = With(V, n, N, D)
  PROVE  /\ Core(W) /\ Elsewhere(V, W, n) /\ W.ok = V.ok /\ W.node[n] = N /\ W.data = D
         /\ \A j \in Cells : Ptr(W, n, j) = Ptr(V, n, j)
         /\ W.hint = V.hint
<1> DEFINE e == DIRECT + WORDS
           x == V.node[n].indirect
           N0 == V.node[n]
<1>1. /\ e \in Cells /\ i \in Cells /\ i # e
  BY TreeAssumption DEF Slots, Cells
<1>2. Ptr(V, n, e) = x
  BY DEF Ptr
<1>3. /\ N0 \in NodeSet /\ VolumeOK(V) /\ Owned(V) /\ IndirectOK(V) /\ InodesOK(V) /\ Counted(V)
      /\ V.data = [c \in Blocks |-> V.data[c]]
  BY CoreType DEF Core
<1>5. N \in NodeSet /\ D = [c \in Blocks |-> D[c]]
  BY DEF Rewritten
<1>6. /\ VolumeOK(W) /\ W.ok = V.ok /\ W.hint = V.hint /\ W.used = V.used /\ W.sb = V.sb
      /\ W.gd = V.gd /\ W.node = [V.node EXCEPT ![n] = N] /\ W.data = D
  BY <1>3, <1>5, WithOK
<1>7. W.node[n] = N /\ \A m \in Inodes : m # n => W.node[m] = V.node[m]
  BY <1>3, <1>6 DEF VolumeOK
<1>8. /\ N.mode = N0.mode /\ N.links = N0.links /\ N.blocks = N0.blocks
      /\ N.direct = N0.direct /\ N.indirect = x
      /\ \A c \in Blocks : c # Ptr(V, n, i) => D[c] = V.data[c]
  BY DEF Rewritten
<1>9. ASSUME NEW m \in Inodes, NEW j \in Cells, Ptr(V, m, j) # 0, m # n \/ j # i
      PROVE  W.data[Ptr(V, m, j)] = V.data[Ptr(V, m, j)]
  <2>1. Ptr(V, m, j) \in Blocks /\ Ptr(V, m, j) # Ptr(V, n, i)
    BY <1>1, <1>3, <1>9 DEF Owned
  <2> QED BY <1>6, <1>8, <2>1
<1>10. Elsewhere(V, W, n)
  BY <1>6, <1>7, <1>8, <1>9 DEF Elsewhere
<1>11. x # 0 => W.data[x] = V.data[x]
  BY <1>1, <1>2, <1>9
<1>12. \A m \in Inodes : V.node[m].indirect # 0 =>
          W.data[V.node[m].indirect] = V.data[V.node[m].indirect]
  BY <1>10, <1>11, ElsewherePtr
<1>13. \A m \in Inodes : W.node[m].indirect = V.node[m].indirect /\ W.node[m].direct = V.node[m].direct
                         /\ W.node[m].blocks = V.node[m].blocks
  BY <1>7, <1>8
<1>14. IndirectOK(W)
  BY <1>3, <1>12, <1>13 DEF IndirectOK
<1>15. \A m \in Inodes, j \in Cells : Ptr(W, m, j) = Ptr(V, m, j)
  <2> SUFFICES ASSUME NEW m \in Inodes, NEW j \in Cells PROVE Ptr(W, m, j) = Ptr(V, m, j)
    OBVIOUS
  <2>1. CASE V.node[m].indirect = 0
    BY <1>13, <2>1 DEF Ptr, FileBlock
  <2>2. CASE V.node[m].indirect # 0
    BY <1>12, <1>13, <2>2 DEF Ptr, FileBlock
  <2> QED BY <2>1, <2>2
<1>16. Owned(W)
  <2>1. W.used["block"] = V.used["block"] /\ Owned(V)
    BY <1>3, <1>6
  <2>2. \A m \in Inodes : W.node[m].blocks = V.node[m].blocks
    BY <1>13
  <2> QED BY <1>14, <1>15, <2>1, <2>2, SameOwned
<1>17. Counted(W)
  BY <1>3, <1>6, CountsStay
<1>18. Core(W)
  BY <1>3, <1>6, <1>16, <1>17 DEF Core, InodesOK
<1> QED BY <1>6, <1>7, <1>10, <1>15, <1>18

(* The statements of file_slot, field by field *)
LEMMA AttachIndirectIs ==
  ASSUME NEW A, VolumeOK(A), A.ok, NEW n \in Inodes
  PROVE  AttachIndirect(A, n) =
           With(A, n, [A.node[n] EXCEPT !.indirect = A.ret, !.blocks = A.node[n].blocks + 1], A.data)
<1> DEFINE W == AttachIndirect(A, n)
           N0 == A.node[n]
           M == [N0 EXCEPT !.indirect = A.ret]
           N == [N0 EXCEPT !.indirect = A.ret, !.blocks = N0.blocks + 1]
           Q == [A EXCEPT !.node[n].indirect = A.ret]
<1>1. W = [Q EXCEPT !.node[n].blocks = N0.blocks + 1]
  BY DEF AttachIndirect
<1>2. Q = [A EXCEPT !.node = [A.node EXCEPT ![n] = M]]
  BY DEF VolumeOK
<1>3. Q.node = [A.node EXCEPT ![n] = M] /\ Q.node[n] = M
  BY <1>2 DEF VolumeOK
<1>4. N = [M EXCEPT !.blocks = N0.blocks + 1]
  OBVIOUS
<1>5. W = [Q EXCEPT !.node = [Q.node EXCEPT ![n] = [Q.node[n] EXCEPT !.blocks = N0.blocks + 1]]]
  BY <1>1
<1> HIDE DEF M, N, Q
<1>6. W = [Q EXCEPT !.node = [Q.node EXCEPT ![n] = N]]
  BY <1>3, <1>4, <1>5
<1>7. W = [A EXCEPT !.node = [A.node EXCEPT ![n] = N]]
  BY <1>2, <1>3, <1>6 DEF VolumeOK
<1>8. W = With(A, n, N, A.data)
  BY <1>7 DEF With, VolumeOK
<1> QED BY <1>8 DEF N

LEMMA AttachDirectIs ==
  ASSUME NEW A, VolumeOK(A), A.ok, NEW n \in Inodes, NEW i, i < DIRECT
  PROVE  AttachBlock(A, n, i) =
           With(A, n, [A.node[n] EXCEPT !.blocks = A.node[n].blocks + 1,
                                        !.direct = [A.node[n].direct EXCEPT ![i] = A.ret]], A.data)
<1> DEFINE W == AttachBlock(A, n, i)
           N0 == A.node[n]
           M == [N0 EXCEPT !.blocks = N0.blocks + 1]
           N == [N0 EXCEPT !.blocks = N0.blocks + 1, !.direct = [N0.direct EXCEPT ![i] = A.ret]]
           Q == [A EXCEPT !.node[n].blocks = N0.blocks + 1]
<1>1. W = [Q EXCEPT !.node[n].direct[i] = A.ret]
  BY DEF AttachBlock
<1>2. Q = [A EXCEPT !.node = [A.node EXCEPT ![n] = M]]
  BY DEF VolumeOK
<1>3. Q.node = [A.node EXCEPT ![n] = M] /\ Q.node[n] = M /\ M.direct = N0.direct
  <2>1. N0 \in NodeSet
    BY DEF VolumeOK
  <2>2. M.direct = N0.direct
    BY <2>1 DEF NodeSet
  <2>3. Q.node = [A.node EXCEPT ![n] = M] /\ Q.node[n] = M
    BY <1>2 DEF VolumeOK
  <2> QED BY <2>2, <2>3
<1>4. N = [M EXCEPT !.direct = [M.direct EXCEPT ![i] = A.ret]]
  BY <1>3
<1>5. W = [Q EXCEPT !.node = [Q.node EXCEPT ![n] = [Q.node[n] EXCEPT !.direct = [Q.node[n].direct EXCEPT ![i] = A.ret]]]]
  BY <1>1
<1> HIDE DEF M, N, Q
<1>6. W = [Q EXCEPT !.node = [Q.node EXCEPT ![n] = N]]
  BY <1>3, <1>4, <1>5
<1>7. W = [A EXCEPT !.node = [A.node EXCEPT ![n] = N]]
  BY <1>2, <1>3, <1>6 DEF VolumeOK
<1>8. W = With(A, n, N, A.data)
  BY <1>7 DEF With, VolumeOK
<1> QED BY <1>8 DEF N

LEMMA AttachSlotIs ==
  ASSUME NEW A, VolumeOK(A), A.ok, NEW n \in Inodes, NEW i, ~(i < DIRECT), NEW x, x = A.node[n].indirect
  PROVE  AttachBlock(A, n, i) =
           With(A, n, [A.node[n] EXCEPT !.blocks = A.node[n].blocks + 1],
                [A.data EXCEPT ![x] = [A.data[x] EXCEPT ![i - DIRECT] = A.ret]])
<1> DEFINE W == AttachBlock(A, n, i)
           N0 == A.node[n]
           N == [N0 EXCEPT !.blocks = N0.blocks + 1]
           D == [A.data EXCEPT ![x] = [A.data[x] EXCEPT ![i - DIRECT] = A.ret]]
           Q == [A EXCEPT !.node[n].blocks = N0.blocks + 1]
<1>1. W = [Q EXCEPT !.data[x][i - DIRECT] = A.ret]
  BY DEF AttachBlock
<1>2. Q = [A EXCEPT !.node = [A.node EXCEPT ![n] = N]]
  BY DEF VolumeOK
<1>3. Q.data = A.data
  BY <1>2 DEF VolumeOK
<1>5. W = [Q EXCEPT !.data = [Q.data EXCEPT ![x] = [Q.data[x] EXCEPT ![i - DIRECT] = A.ret]]]
  BY <1>1
<1>6. W = [Q EXCEPT !.data = D]
  BY <1>3, <1>5
<1> HIDE DEF N, D, Q
<1>7. W = [A EXCEPT !.node = [A.node EXCEPT ![n] = N], !.data = D]
  BY <1>2, <1>6 DEF VolumeOK
<1>8. W = With(A, n, N, D)
  BY <1>7 DEF With
<1> QED BY <1>8 DEF N, D

-----------------------------------------------------------------------------
(* Contents.  A hole reads as zeros. *)

Word(V, n, j, w) == IF Ptr(V, n, j) = 0 THEN 0 ELSE V.data[Ptr(V, n, j)][w]

(* Blocks may have been added to inode n, and it reads as before. *)
Kept(V, W, n) ==
  /\ Core(W) /\ Elsewhere(V, W, n) /\ W.node[n].size = V.node[n].size
  /\ \A j \in Slots : Ptr(V, n, j) # 0 => Ptr(W, n, j) # 0
  /\ \A j \in Slots, w \in 0 .. WORDS - 1 : Word(W, n, j, w) = Word(V, n, j, w)

LEMMA KeptSame == ASSUME NEW V, Core(V), NEW n PROVE Kept(V, V, n)
  BY ElsewhereSame DEF Kept

LEMMA KeptThen ==
  ASSUME NEW V, NEW W, NEW X, NEW n \in Inodes, Kept(V, W, n), Kept(W, X, n)
  PROVE  Kept(V, X, n)
<1>1. Elsewhere(V, X, n)
  BY ElsewhereThen DEF Kept
<1> QED BY <1>1 DEF Kept

OnlyAt(V, W, n, i) == \A j \in Cells : j # i => Ptr(W, n, j) = Ptr(V, n, j)

(* What a cell gets reads as zeros; the others do not change. *)
LEMMA AttachKept ==
  ASSUME NEW V, Core(V), NEW A, GotBlock(V, A), NEW n \in Inodes, NEW i \in Cells, Ptr(V, n, i) = 0,
         NEW N, NEW D, Attached(V, A, n, i, N, D), NEW W, W = With(A, n, N, D),
         N.size = V.node[n].size, D[A.ret] = ZeroBlock
  PROVE  Kept(V, W, n) /\ W.ok = V.ok /\ Ptr(W, n, i) # 0 /\ OnlyAt(V, W, n, i)
<1>1. /\ Core(W) /\ Elsewhere(V, W, n) /\ W.ok = V.ok /\ W.node[n] = N /\ W.data = D
      /\ \A j \in Cells : Ptr(W, n, j) = IF j = i THEN A.ret ELSE Ptr(V, n, j)
      /\ \A j \in Slots : Ptr(V, n, j) # 0 => W.data[Ptr(V, n, j)] = V.data[Ptr(V, n, j)]
  BY AttachCore
<1>2. A.ret # 0 /\ \A j \in Slots : j \in Cells
  BY TreeAssumption DEF GotBlock, Blocks, Slots, Cells
<1>3. ASSUME NEW j \in Slots, NEW w \in 0 .. WORDS - 1 PROVE Word(W, n, j, w) = Word(V, n, j, w)
  <2>1. CASE j = i
    <3>1. Ptr(W, n, j) = A.ret /\ W.data[A.ret][w] = 0
      <4>1. Ptr(W, n, j) = A.ret /\ W.data[A.ret] = ZeroBlock
        BY <1>1, <1>2, <2>1
      <4>2. ZeroBlock[w] = 0
        BY DEF ZeroBlock
      <4> QED BY <4>1, <4>2
    <3> QED BY <1>2, <2>1, <3>1 DEF Word
  <2>2. CASE j # i
    BY <1>1, <1>2, <2>2 DEF Word
  <2> QED BY <2>1, <2>2
<1>4. OnlyAt(V, W, n, i)
  BY <1>1 DEF OnlyAt
<1> QED BY <1>1, <1>2, <1>3, <1>4 DEF Kept

(* The cells that lead to slot i, and the cells of n that W has filled *)
Way(i) == IF i < DIRECT THEN {i} ELSE {i, DIRECT + WORDS}
Grown(V, W, n, S) == \A j \in Cells : Ptr(W, n, j) # 0 => j \in S \/ Ptr(V, n, j) # 0

LEMMA NeedIndirectFacts ==
  ASSUME NEW V, Core(V), NEW n \in Inodes, NEW i \in Slots
  PROVE  /\ VolumeOK(NeedIndirect(V, n, i))
         /\ NeedIndirect(V, n, i).ok =>
              /\ Kept(V, NeedIndirect(V, n, i), n) /\ NeedIndirect(V, n, i).ok = V.ok
              /\ ~(i < DIRECT) => NeedIndirect(V, n, i).node[n].indirect # 0
              /\ Grown(V, NeedIndirect(V, n, i), n, Way(i))
<1> DEFINE W == NeedIndirect(V, n, i)
           A == Allocate(V, "block")
           e == DIRECT + WORDS
<1>1. VolumeOK(V) /\ V.node[n] \in NodeSet
  BY CoreType
<1>2. CASE i < DIRECT \/ V.node[n].indirect # 0
  <2>1. W = V
    BY <1>2 DEF NeedIndirect
  <2>2. Grown(V, V, n, Way(i))
    BY DEF Grown
  <2> QED BY <1>1, <1>2, <2>1, <2>2, KeptSame
<1>3. CASE ~(i < DIRECT \/ V.node[n].indirect # 0)
  <2>1. W = AttachIndirect(A, n)
    BY <1>3 DEF NeedIndirect
  <2>2. VolumeOK(A) /\ (A.ok => GotBlock(V, A))
    BY AllocateBlock
  <2> HIDE DEF A
  <2>3. CASE ~A.ok
    <3>1. W = A
      BY <2>1, <2>3 DEF AttachIndirect
    <3> QED BY <2>2, <2>3, <3>1 DEF W
  <2>4. CASE A.ok
    <3> DEFINE N0 == A.node[n]
               N == [N0 EXCEPT !.indirect = A.ret, !.blocks = N0.blocks + 1]
    <3>1. GotBlock(V, A)
      BY <2>2, <2>4
    <3>2. A.node = V.node /\ A.ret \in Blocks /\ A.data = [V.data EXCEPT ![A.ret] = ZeroBlock]
          /\ V.data = [c \in Blocks |-> V.data[c]]
      BY <1>1, <3>1 DEF GotBlock, VolumeOK
    <3>3. W = With(A, n, N, A.data)
      BY <2>1, <2>2, <2>4, AttachIndirectIs, Zenon
    <3>4. N0 \in NodeSet /\ N0 = V.node[n]
      BY <1>1, <3>2
    <3>5. A.ret \in 0 .. BLOCKS - 1
      BY <3>2 DEF Blocks
    <3>6. N0.blocks + 1 \in Int
      <4>1. N0.blocks \in Int
        BY <3>4 DEF NodeSet
      <4> HIDE DEF N0
      <4> QED BY <4>1
    <3> HIDE DEF N0
    <3>7. /\ N \in NodeSet /\ N.mode = N0.mode /\ N.links = N0.links /\ N.blocks = N0.blocks + 1
          /\ N.direct = N0.direct /\ N.indirect = A.ret /\ N.size = N0.size
      BY <3>4, <3>5, <3>6 DEF NodeSet
    <3>8. e \in Cells /\ Ptr(V, n, e) = 0 /\ ~(e < DIRECT)
      BY <1>3, TreeAssumption DEF Cells, Ptr
    <3>9. A.data = [c \in Blocks |-> A.data[c]] /\ A.data[A.ret] = ZeroBlock
          /\ \A c \in Blocks : c # A.ret => A.data[c] = V.data[c]
      BY <3>2
    <3>10. \A j \in 0 .. DIRECT - 1 : j # e
      BY TreeAssumption
    <3>11. Attached(V, A, n, e, N, A.data)
      BY <3>4, <3>7, <3>8, <3>9, <3>10 DEF Attached
    <3> HIDE DEF N
    <3>12. Kept(V, W, n) /\ W.ok = V.ok /\ Ptr(W, n, e) # 0 /\ OnlyAt(V, W, n, e)
      BY <3>1, <3>3, <3>4, <3>7, <3>8, <3>9, <3>11, AttachKept
    <3>13. W.node[n].indirect # 0 /\ VolumeOK(W)
      BY <3>12 DEF Ptr, Kept, Core
    <3>14. Grown(V, W, n, Way(i))
      BY <1>3, <3>12 DEF Grown, Way, OnlyAt
    <3> QED BY <3>12, <3>13, <3>14
  <2> QED BY <2>3, <2>4
<1> QED BY <1>2, <1>3

LEMMA NeedBlockFacts ==
  ASSUME NEW V, Core(V), NEW n \in Inodes, NEW i \in Slots, ~(i < DIRECT) => V.node[n].indirect # 0
  PROVE  /\ VolumeOK(NeedBlock(V, n, i))
         /\ V.ok /\ NeedBlock(V, n, i).ok =>
              /\ Kept(V, NeedBlock(V, n, i), n)
              /\ Ptr(NeedBlock(V, n, i), n, i) # 0 /\ Grown(V, NeedBlock(V, n, i), n, Way(i))
<1> DEFINE W == NeedBlock(V, n, i)
           A == Allocate(V, "block")
           x == V.node[n].indirect
<1>0. /\ i \in Cells /\ i # DIRECT + WORDS /\ i \in Nat /\ DIRECT \in Nat \ {0} /\ WORDS \in Nat \ {0}
      /\ DIRECT + WORDS \in Cells
  BY TreeAssumption DEF Slots, Cells
<1>1. VolumeOK(V) /\ V.node[n] \in NodeSet /\ Owned(V) /\ IndirectOK(V)
  BY CoreType
<1>a. Ptr(V, n, i) = FileBlock(V, n, i)
  BY <1>0 DEF Ptr
<1>2. CASE ~V.ok \/ FileBlock(V, n, i) # 0
  <2>1. W = V
    BY <1>2 DEF NeedBlock
  <2>2. Grown(V, V, n, Way(i))
    BY DEF Grown
  <2> QED BY <1>1, <1>2, <1>a, <2>1, <2>2, KeptSame
<1>3. CASE ~(~V.ok \/ FileBlock(V, n, i) # 0)
  <2>1. W = AttachBlock(A, n, i) /\ Ptr(V, n, i) = 0
    BY <1>3, <1>a DEF NeedBlock
  <2>2. VolumeOK(A) /\ (A.ok => GotBlock(V, A))
    BY AllocateBlock
  <2> HIDE DEF A
  <2>3. CASE ~A.ok
    <3>1. W = A
      BY <2>1, <2>3 DEF AttachBlock
    <3> QED BY <2>2, <2>3, <3>1 DEF W
  <2>4. CASE A.ok
    <3> DEFINE N0 == V.node[n]
    <3>1. GotBlock(V, A)
      BY <2>2, <2>4
    <3>2. A.node = V.node /\ A.ret \in Blocks /\ A.data = [V.data EXCEPT ![A.ret] = ZeroBlock]
          /\ V.data = [c \in Blocks |-> V.data[c]] /\ A.node[n] = N0
      BY <1>1, <3>1 DEF GotBlock, VolumeOK
    <3>4. N0 \in NodeSet
      BY <1>1
    <3>5. A.ret \in 0 .. BLOCKS - 1
      BY <3>2 DEF Blocks
    <3>6. N0.blocks + 1 \in Int
      <4>1. N0.blocks \in Int
        BY <3>4 DEF NodeSet
      <4> HIDE DEF N0
      <4> QED BY <4>1
    <3>9. A.data = [c \in Blocks |-> A.data[c]] /\ A.data[A.ret] = ZeroBlock
          /\ \A c \in Blocks : c # A.ret => A.data[c] = V.data[c]
      BY <3>2
    <3>10. CASE i < DIRECT
      <4> DEFINE N == [N0 EXCEPT !.blocks = N0.blocks + 1, !.direct = [N0.direct EXCEPT ![i] = A.ret]]
      <4>1. W = With(A, n, N, A.data)
        <5>1. W = With(A, n, [A.node[n] EXCEPT !.blocks = A.node[n].blocks + 1,
                                               !.direct = [A.node[n].direct EXCEPT ![i] = A.ret]], A.data)
          BY <2>1, <2>2, <2>4, <3>10, AttachDirectIs, Zenon
        <5>2. A.node[n] = N0
          BY <3>2
        <5> QED BY <5>1, <5>2, Zenon
      <4> HIDE DEF N0
      <4>2. /\ N \in NodeSet /\ N.mode = N0.mode /\ N.links = N0.links /\ N.blocks = N0.blocks + 1
            /\ N.direct = [N0.direct EXCEPT ![i] = A.ret] /\ N.indirect = N0.indirect /\ N.size = N0.size
        BY <3>4, <3>5, <3>6 DEF NodeSet
      <4>3. \A j \in 0 .. DIRECT - 1 : N.direct[j] = IF j = i THEN A.ret ELSE N0.direct[j]
        BY <3>4, <4>2 DEF NodeSet
      <4> HIDE DEF N
      <4>4. Attached(V, A, n, i, N, A.data)
        BY <1>0, <3>9, <3>10, <4>2, <4>3 DEF Attached, N0
      <4>5. N.size = V.node[n].size
        BY <4>2 DEF N0
      <4>6. Kept(V, W, n) /\ Ptr(W, n, i) # 0 /\ OnlyAt(V, W, n, i)
        BY <1>0, <2>1, <3>1, <3>9, <4>1, <4>4, <4>5, AttachKept
      <4>7. Grown(V, W, n, Way(i))
        BY <4>6 DEF Grown, Way, OnlyAt
      <4> QED BY <4>6, <4>7 DEF Kept, Core
    <3>11. CASE ~(i < DIRECT)
      <4> DEFINE N == [N0 EXCEPT !.blocks = N0.blocks + 1]
                 E == [A.data[x] EXCEPT ![i - DIRECT] = A.ret]
                 D == [A.data EXCEPT ![x] = E]
      <4>0. x = A.node[n].indirect
        BY <3>2
      <4>1. W = With(A, n, N, D)
        <5>1. W = With(A, n, [A.node[n] EXCEPT !.blocks = A.node[n].blocks + 1],
                       [A.data EXCEPT ![x] = [A.data[x] EXCEPT ![i - DIRECT] = A.ret]])
          BY <2>1, <2>2, <2>4, <3>11, <4>0, AttachSlotIs, Zenon
        <5>2. A.node[n] = N0
          BY <3>2
        <5> QED BY <5>1, <5>2, Zenon
      <4>2. x # 0 /\ x # A.ret /\ x \in Blocks /\ V.data[x] \in [0 .. WORDS - 1 -> 0 .. BLOCKS - 1]
        <5>1. Ptr(V, n, DIRECT + WORDS) = x
          BY DEF Ptr
        <5>2. x # 0
          BY <3>11
        <5>3. x # A.ret
          BY <1>0, <3>1, <5>1 DEF GotBlock
        <5> QED BY <1>0, <1>1, <5>1, <5>2, <5>3 DEF Owned, IndirectOK
      <4> HIDE DEF x
      <4>3. A.data[x] = V.data[x]
        BY <3>9, <4>2
      <4>4. E \in [0 .. WORDS - 1 -> 0 .. BLOCKS - 1] /\ \A k \in 0 .. WORDS - 1 :
              E[k] = IF k = i - DIRECT THEN A.ret ELSE V.data[x][k]
        BY <3>5, <4>2, <4>3
      <4> HIDE DEF E
      <4>5. /\ D = [c \in Blocks |-> D[c]] /\ D[A.ret] = ZeroBlock /\ D[x] = E
            /\ \A c \in Blocks : c # A.ret /\ c # x => D[c] = V.data[c]
        BY <3>2, <3>9, <4>2
      <4> HIDE DEF D, N0
      <4>6. /\ N \in NodeSet /\ N.mode = N0.mode /\ N.links = N0.links /\ N.blocks = N0.blocks + 1
            /\ N.direct = N0.direct /\ N.indirect = N0.indirect /\ N.size = N0.size
        BY <3>4, <3>5, <3>6 DEF NodeSet
      <4> HIDE DEF N
      <4>7. \A j \in 0 .. DIRECT - 1 : j # i
        BY <1>0, <3>11
      <4>8. D[x] \in [0 .. WORDS - 1 -> 0 .. BLOCKS - 1] /\ \A k \in 0 .. WORDS - 1 :
              D[x][k] = IF k = i - DIRECT THEN A.ret ELSE V.data[x][k]
        BY <4>4, <4>5
      <4>9. Attached(V, A, n, i, N, D)
        BY <1>0, <3>11, <4>2, <4>5, <4>6, <4>7, <4>8 DEF Attached, N0, x
      <4>10. N.size = V.node[n].size
        BY <4>6 DEF N0
      <4>11. Kept(V, W, n) /\ Ptr(W, n, i) # 0 /\ OnlyAt(V, W, n, i)
        BY <1>0, <2>1, <3>1, <4>1, <4>5, <4>9, <4>10, AttachKept
      <4>12. Grown(V, W, n, Way(i))
        BY <4>11 DEF Grown, Way, OnlyAt
      <4> QED BY <4>11, <4>12 DEF Kept, Core
    <3> QED BY <3>10, <3>11
  <2> QED BY <2>3, <2>4
<1> QED BY <1>2, <1>3

(* What word w of block j is when text is written at offset *)
NewWord(V, n, offset, text, j, w) ==
  IF j * WORDS + w \in offset .. offset + Len(text) - 1 THEN text[j * WORDS + w - offset + 1]
  ELSE Word(V, n, j, w)

(* The data of one slot change. *)
Put(V, W, b, Z) == W = [V EXCEPT !.data = [V.data EXCEPT ![b] = Z]]

LEMMA PutBlock ==
  ASSUME NEW V, Core(V), NEW n \in Inodes, NEW i \in Slots, NEW b, b = Ptr(V, n, i), b # 0, NEW Z,
         NEW W, Put(V, W, b, Z)
  PROVE  /\ Core(W) /\ Elsewhere(V, W, n) /\ W.ok = V.ok /\ W.node[n] = V.node[n]
         /\ \A j \in Cells : Ptr(W, n, j) = Ptr(V, n, j)
         /\ W.data[b] = Z /\ W.hint = V.hint
         /\ \A j \in Slots : j # i /\ Ptr(V, n, j) # 0 => W.data[Ptr(V, n, j)] = V.data[Ptr(V, n, j)]
<1> DEFINE D == [V.data EXCEPT ![b] = Z]
           N == V.node[n]
<1>1. VolumeOK(V) /\ N \in NodeSet /\ Owned(V) /\ V.data = [c \in Blocks |-> V.data[c]]
  BY CoreType
<1>2. W = With(V, n, N, D)
  BY <1>1 DEF With, VolumeOK, Put
<1>3. i \in Cells /\ \A j \in Slots : j \in Cells
  BY TreeAssumption DEF Slots, Cells
<1>4. b \in Blocks
  BY <1>1, <1>3 DEF Owned
<1>5. D = [c \in Blocks |-> D[c]] /\ D[b] = Z /\ \A c \in Blocks : c # b => D[c] = V.data[c]
  BY <1>1, <1>4
<1>n. N = V.node[n]
  OBVIOUS
<1> HIDE DEF D, N
<1>6. Rewritten(V, n, i, N, D)
  BY <1>1, <1>5, <1>n DEF Rewritten
<1>7. /\ Core(W) /\ Elsewhere(V, W, n) /\ W.ok = V.ok /\ W.node[n] = N /\ W.data = D
      /\ \A j \in Cells : Ptr(W, n, j) = Ptr(V, n, j)
      /\ W.hint = V.hint
  BY <1>2, <1>6, ChangeCore
<1>8. ASSUME NEW j \in Slots, j # i, Ptr(V, n, j) # 0 PROVE W.data[Ptr(V, n, j)] = V.data[Ptr(V, n, j)]
  <2>1. Ptr(V, n, j) \in Blocks /\ Ptr(V, n, j) # b
    BY <1>1, <1>3, <1>8 DEF Owned
  <2> QED BY <1>5, <1>7, <2>1
<1> QED BY <1>5, <1>7, <1>8, <1>n

(* Block i of n has its part of text. *)
Copied(V, W, n, i, offset, text) ==
  /\ Core(W) /\ Elsewhere(V, W, n) /\ W.ok = V.ok /\ W.node[n].size = V.node[n].size
  /\ \A j \in Cells : Ptr(W, n, j) = Ptr(V, n, j)
  /\ \A j \in Slots, w \in 0 .. WORDS - 1 : Word(W, n, j, w) =
       IF j = i THEN NewWord(V, n, offset, text, j, w) ELSE Word(V, n, j, w)

LEMMA CopyChunkFacts ==
  ASSUME NEW V, Core(V), V.ok = TRUE, NEW n \in Inodes, NEW i \in Slots, Ptr(V, n, i) # 0,
         NEW offset, NEW text, NEW W, W = CopyChunk(V, n, i, offset, text)
  PROVE  Copied(V, W, n, i, offset, text)
<1> DEFINE b == Ptr(V, n, i)
           P(k, w) == k * WORDS + w \in offset .. offset + Len(text) - 1
           Q(k, w) == text[k * WORDS + w - offset + 1]
           Z == [w \in 0 .. WORDS - 1 |-> IF P(i, w) THEN Q(i, w) ELSE V.data[b][w]]
<1>1. FileBlock(V, n, i) = b
  BY TreeAssumption, SMTT(40) DEF Ptr, Slots
<1>2. Put(V, W, b, Z)
  BY <1>1 DEF CopyChunk, Put
<1>3. \A j, w : NewWord(V, n, offset, text, j, w) = IF P(j, w) THEN Q(j, w) ELSE Word(V, n, j, w)
  BY DEF NewWord
<1> HIDE DEF b, P, Q
<1>b. b = Ptr(V, n, i)
  BY DEF b
<1>4. \A w \in 0 .. WORDS - 1 : Z[w] = NewWord(V, n, offset, text, i, w)
  BY <1>3, <1>b DEF Word
<1> HIDE DEF Z
<1>c. b # 0
  BY <1>b
<1>5. /\ Core(W) /\ Elsewhere(V, W, n) /\ W.ok = V.ok /\ W.node[n] = V.node[n]
      /\ \A j \in Cells : Ptr(W, n, j) = Ptr(V, n, j)
      /\ W.data[b] = Z /\ W.hint = V.hint
      /\ \A j \in Slots : j # i /\ Ptr(V, n, j) # 0 => W.data[Ptr(V, n, j)] = V.data[Ptr(V, n, j)]
  BY <1>2, <1>b, <1>c, PutBlock
<1>6. \A j \in Slots : j \in Cells
  BY TreeAssumption DEF Slots, Cells
<1>7. ASSUME NEW j \in Slots, NEW w \in 0 .. WORDS - 1
      PROVE  Word(W, n, j, w) = IF j = i THEN NewWord(V, n, offset, text, j, w) ELSE Word(V, n, j, w)
  <2>0. Ptr(W, n, j) = Ptr(V, n, j)
    BY <1>5, <1>6
  <2>1. CASE j = i
    <3>1. Word(W, n, j, w) = Z[w]
      BY <1>5, <1>b, <1>c, <2>0, <2>1 DEF Word
    <3> QED BY <1>4, <2>1, <3>1
  <2>2. CASE j # i
    BY <1>5, <2>0, <2>2 DEF Word
  <2> QED BY <2>1, <2>2
<1> QED BY <1>5, <1>6, <1>7 DEF Copied

(* Blocks of n from first up to i - 1 hold their part of text. *)
WroteTo(V, W, n, offset, text, first, i) ==
  /\ Core(W) /\ Elsewhere(V, W, n) /\ W.node[n].size = V.node[n].size
  /\ \A j \in Slots : (first <= j /\ j < i) \/ Ptr(V, n, j) # 0 => Ptr(W, n, j) # 0
  /\ \A j \in Slots, w \in 0 .. WORDS - 1 : Word(W, n, j, w) =
       IF first <= j /\ j < i THEN NewWord(V, n, offset, text, j, w) ELSE Word(V, n, j, w)

LEMMA WriteBlockFacts ==
  ASSUME NEW V, NEW X, X.ok = TRUE, NEW n \in Inodes, NEW i \in Slots, NEW offset, NEW text, NEW first \in Nat,
         first <= i, WroteTo(V, X, n, offset, text, first, i)
  PROVE  LET W == WriteBlock(X, n, i, offset, text)
         IN  VolumeOK(W) /\ (W.ok => WroteTo(V, W, n, offset, text, first, i + 1) /\ Grown(X, W, n, Way(i)))
<1> DEFINE W == WriteBlock(X, n, i, offset, text)
           I == NeedIndirect(X, n, i)
           B == NeedBlock(I, n, i)
<1>1. Core(X) /\ i \in Nat /\ \A j \in Slots : j \in Nat /\ j \in Cells
  BY TreeAssumption DEF WroteTo, Slots, Cells
<1>2. W = CopyChunk(B, n, i, offset, text)
  BY DEF WriteBlock
<1>3. VolumeOK(I) /\ (I.ok => /\ Kept(X, I, n) /\ I.ok = X.ok /\ (~(i < DIRECT) => I.node[n].indirect # 0)
                              /\ Grown(X, I, n, Way(i)))
  BY <1>1, NeedIndirectFacts
<1>a. ~I.ok => B = I
  BY DEF NeedBlock
<1> HIDE DEF I
<1>4. I.ok => VolumeOK(B) /\ (B.ok => Kept(I, B, n) /\ Ptr(B, n, i) # 0 /\ Grown(I, B, n, Way(i)))
  <2> SUFFICES ASSUME I.ok PROVE VolumeOK(B) /\ (B.ok => Kept(I, B, n) /\ Ptr(B, n, i) # 0 /\ Grown(I, B, n, Way(i)))
    OBVIOUS
  <2>1. Core(I) /\ (~(i < DIRECT) => I.node[n].indirect # 0)
    BY <1>3 DEF Kept
  <2> QED BY <2>1, NeedBlockFacts
<1> HIDE DEF B
<1>5. CASE ~B.ok
  <2>1. W = B
    BY <1>2, <1>5 DEF CopyChunk
  <2>2. VolumeOK(B)
    BY <1>3, <1>4, <1>a
  <2> QED BY <1>5, <2>1, <2>2 DEF W
<1>6. CASE B.ok
  <2>1. I.ok
    BY <1>6, <1>a
  <2>2. Kept(X, B, n) /\ Ptr(B, n, i) # 0 /\ Core(B)
    BY <1>3, <1>4, <1>6, <2>1, KeptThen DEF Kept
  <2> HIDE DEF W
  <2>3. /\ Core(W) /\ Elsewhere(B, W, n) /\ W.ok = B.ok /\ W.node[n].size = B.node[n].size
        /\ \A j \in Cells : Ptr(W, n, j) = Ptr(B, n, j)
        /\ \A j \in Slots, w \in 0 .. WORDS - 1 : Word(W, n, j, w) =
             IF j = i THEN NewWord(B, n, offset, text, j, w) ELSE Word(B, n, j, w)
    <3>1. B.ok = TRUE
      BY <1>6, <2>2 DEF Core, VolumeOK
    <3>2. Core(B) /\ Ptr(B, n, i) # 0
      BY <2>2
    <3>3. Copied(B, W, n, i, offset, text)
      BY <1>2, <3>1, <3>2, CopyChunkFacts
    <3> QED BY <3>3 DEF Copied
  <2>4. Elsewhere(V, W, n)
    <3>1. Elsewhere(X, W, n)
      BY <2>2, <2>3, ElsewhereThen DEF Kept
    <3> QED BY <3>1, ElsewhereThen DEF WroteTo
  <2>5. \A j \in Slots : j < i + 1 <=> j < i \/ j = i
    BY <1>1
  <2>6. \A j \in Slots : (first <= j /\ j < i + 1) \/ Ptr(V, n, j) # 0 => Ptr(W, n, j) # 0
    <3> TAKE j \in Slots
    <3>1. CASE j = i
      BY <1>1, <2>2, <2>3, <3>1
    <3>2. CASE j # i
      <4>1. Ptr(X, n, j) # 0 => Ptr(W, n, j) # 0
        BY <1>1, <2>2, <2>3 DEF Kept
      <4> QED BY <2>5, <3>2, <4>1 DEF WroteTo
    <3> QED BY <3>1, <3>2
  <2>7. ASSUME NEW j \in Slots, NEW w \in 0 .. WORDS - 1
        PROVE  Word(W, n, j, w) =
                 IF first <= j /\ j < i + 1 THEN NewWord(V, n, offset, text, j, w) ELSE Word(V, n, j, w)
    <3>1. /\ Word(B, n, j, w) = Word(X, n, j, w)
          /\ Word(X, n, j, w) = IF first <= j /\ j < i THEN NewWord(V, n, offset, text, j, w) ELSE Word(V, n, j, w)
      BY <2>2 DEF Kept, WroteTo
    <3>2. CASE j = i
      <4>1. Word(B, n, j, w) = Word(V, n, j, w) /\ ~(j < i)
        BY <1>1, <3>1, <3>2
      <4>2. NewWord(B, n, offset, text, j, w) = NewWord(V, n, offset, text, j, w)
        <5>1. PICK P : P = (j * WORDS + w \in offset .. offset + Len(text) - 1)
          OBVIOUS
        <5>2. PICK q : q = text[j * WORDS + w - offset + 1]
          OBVIOUS
        <5> QED BY <4>1, Zenon DEF NewWord
      <4> QED BY <2>3, <2>5, <3>2, <4>2
    <3>3. CASE j # i
      BY <2>3, <2>5, <3>1, <3>3
    <3> QED BY <3>2, <3>3
  <2>8. W.node[n].size = V.node[n].size
    BY <2>2, <2>3 DEF Kept, WroteTo
  <2>9. WroteTo(V, W, n, offset, text, first, i + 1)
    BY <2>3, <2>4, <2>6, <2>7, <2>8 DEF WroteTo
  <2>10. Grown(X, W, n, Way(i))
    BY <1>3, <1>4, <1>6, <2>1, <2>3 DEF Grown
  <2> QED BY <2>3, <2>9, <2>10 DEF W, Core
<1> QED BY <1>5, <1>6

(* The volumes of the loop of write_range up to block e *)
Puts(f, V, n, offset, text, first, e) ==
  f = [i \in 0 .. e |-> IF i <= first THEN V ELSE WriteBlock(f[i - 1], n, i - 1, offset, text)]

LEMMA PutsExist ==
  ASSUME NEW V, NEW n, NEW offset, NEW text, NEW first \in Nat, NEW e \in Nat
  PROVE  \E f : Puts(f, V, n, offset, text, first, e)
<1> DEFINE Bad == {k \in Nat : ~\E f : Puts(f, V, n, offset, text, first, k)}
<1>1. SUFFICES ASSUME Bad # {} PROVE FALSE
  OBVIOUS
<1>2. PICK k \in Bad : \A j \in Bad : k <= j
  BY <1>1, LeastNat
<1>4. k # 0
  <2> DEFINE h == [m \in 0..0 |-> V]
  <2>1. \A m \in 0..0 : h[m] = IF m <= first THEN V ELSE WriteBlock(h[m - 1], n, m - 1, offset, text)
    OBVIOUS
  <2>2. h = [m \in 0..0 |-> IF m <= first THEN V ELSE WriteBlock(h[m - 1], n, m - 1, offset, text)]
    BY <2>1
  <2>3. Puts(h, V, n, offset, text, first, 0)
    BY <2>2 DEF Puts
  <2> QED BY <1>2, <2>3
<1>5. PICK f : Puts(f, V, n, offset, text, first, k - 1)
  <2>1. k - 1 \in Nat /\ ~(k <= k - 1)
    BY <1>2, <1>4
  <2>2. k - 1 \notin Bad
    BY <1>2, <2>1
  <2> QED BY <2>1, <2>2
<1> DEFINE g == [m \in 0..k |-> IF m < k THEN f[m]
                   ELSE IF m <= first THEN V ELSE WriteBlock(f[m - 1], n, m - 1, offset, text)]
<1>6. \A m \in 0..k : g[m] = IF m <= first THEN V ELSE WriteBlock(g[m - 1], n, m - 1, offset, text)
  <2> TAKE m \in 0..k
  <2>1. CASE m = k
    BY <1>2, <1>4, <2>1
  <2>2. CASE m < k
    <3>1. m \in 0..k - 1 /\ (~(m <= first) => m - 1 \in 0..k - 1 /\ m - 1 < k)
      BY <1>2, <1>4, <2>2
    <3>2. f[m] = IF m <= first THEN V ELSE WriteBlock(f[m - 1], n, m - 1, offset, text)
      BY <1>5, <3>1 DEF Puts
    <3> QED BY <2>2, <3>1, <3>2
  <2> QED BY <1>2, <2>1, <2>2
<1>7. Puts(g, V, n, offset, text, first, k)
  BY <1>6 DEF Puts
<1> QED BY <1>2, <1>7

(* Each round writes one block or fails, and after a failure nothing is done. *)
LEMMA PutsFacts ==
  ASSUME NEW V, Core(V), NEW n \in Inodes, NEW offset, NEW text, NEW first \in Nat,
         NEW e \in 0 .. DIRECT + WORDS, NEW F, Puts(F, V, n, offset, text, first, e)
  PROVE  VolumeOK(F[e]) /\ (F[e].ok => WroteTo(V, F[e], n, offset, text, first, e))
<1> DEFINE P(i) == VolumeOK(F[i]) /\ (F[i].ok => WroteTo(V, F[i], n, offset, text, first, i))
<1>0. DIRECT + WORDS \in Nat /\ e \in Nat /\ \A i \in Nat : i < DIRECT + WORDS => i \in Slots
  BY TreeAssumption DEF Slots
<1>1. \A i \in 0 .. e : F[i] = IF i <= first THEN V ELSE WriteBlock(F[i - 1], n, i - 1, offset, text)
  BY DEF Puts
<1>2. VolumeOK(V)
  BY DEF Core
<1>3. \A i \in 0 .. e : i <= first => P(i)
  <2> SUFFICES ASSUME NEW i \in 0 .. e, i <= first PROVE WroteTo(V, V, n, offset, text, first, i)
    BY <1>1, <1>2
  <2>1. \A j \in Slots : ~(first <= j /\ j < i)
    BY <1>0 DEF Slots
  <2> QED BY <2>1, ElsewhereSame DEF WroteTo
<1>4. P(e)
  <2> DEFINE Bad == {i \in 0 .. e : ~P(i)}
  <2>1. SUFFICES ASSUME Bad # {} PROVE FALSE
    BY <1>0
  <2>2. PICK i \in Bad : \A k \in Bad : i <= k
    <3>1. Bad \in SUBSET Nat
      BY <1>0
    <3> QED BY <2>1, <3>1, LeastNat
  <2>3. ~(i <= first) /\ i \in 0 .. e
    BY <1>3, <2>2
  <2>4. i - 1 \in 0 .. e /\ ~(i <= i - 1) /\ i - 1 \in Slots /\ first <= i - 1 /\ (i - 1) + 1 = i
    BY <1>0, <2>3
  <2>5. P(i - 1)
    BY <2>2, <2>4
  <2> DEFINE X == F[i - 1]
             Y == WriteBlock(X, n, i - 1, offset, text)
  <2>6. F[i] = Y
    BY <1>1, <2>3
  <2>7. VolumeOK(X) /\ (X.ok => WroteTo(V, X, n, offset, text, first, i - 1))
    BY <2>5
  <2> HIDE DEF X
  <2>8. CASE ~X.ok
    <3>1. Y = X
      BY <2>8 DEF WriteBlock
    <3>2. P(i)
      BY <2>6, <2>7, <2>8, <3>1
    <3> QED BY <2>2, <3>2
  <2>9. CASE X.ok
    <3>1. X.ok = TRUE /\ WroteTo(V, X, n, offset, text, first, i - 1)
      BY <2>7, <2>9 DEF VolumeOK
    <3>2. VolumeOK(Y) /\ (Y.ok => WroteTo(V, Y, n, offset, text, first, (i - 1) + 1))
      BY <2>4, <3>1, WriteBlockFacts
    <3>3. P(i)
      BY <2>4, <2>6, <3>2
    <3> QED BY <2>2, <3>3
  <2> QED BY <2>8, <2>9
<1> QED BY <1>4

(* The blocks that a range of a file lies in *)
LEMMA RangeBlocks ==
  ASSUME NEW offset \in Nat, NEW len \in Nat, offset + len <= MAX_FILE,
         NEW first, first = offset \div WORDS,
         NEW last, last = IF len = 0 THEN first ELSE (offset + len - 1) \div WORDS + 1
  PROVE  /\ first \in Nat /\ last \in 0 .. DIRECT + WORDS
         /\ \A j \in Nat, w \in 0 .. WORDS - 1 :
              j * WORDS + w \in offset .. offset + len - 1 => first <= j /\ j < last
<1> DEFINE m == DIRECT + WORDS
<1>1. WORDS \in Nat \ {0} /\ m \in Nat /\ MAX_FILE = m * WORDS /\ m * WORDS \in Nat
  BY TreeAssumption, Multiples DEF MAX_FILE
<1>2. first \in Nat /\ \E r \in 0 .. WORDS - 1 : offset = first * WORDS + r
  BY <1>1, DivFact
<1>3. PICK r \in 0 .. WORDS - 1 : offset = first * WORDS + r
  BY <1>2
<1> HIDE DEF m
<1>4. first * WORDS \in Nat /\ first * WORDS <= offset
  BY <1>1, <1>2, <1>3, Multiples
<1>5. CASE len = 0
  <2>1. first <= m
    <3>1. m < first => m * WORDS + WORDS <= first * WORDS
      BY <1>1, <1>2, Multiples
    <3> QED BY <1>1, <1>2, <1>4, <3>1
  <2>2. \A x : x \notin offset .. offset + len - 1
    BY <1>5
  <2>3. last \in 0 .. m
    BY <1>1, <1>2, <1>5, <2>1
  <2> QED BY <1>2, <2>2, <2>3 DEF m
<1>6. CASE len # 0
  <2> DEFINE z == offset + len - 1
             q == z \div WORDS
  <2>1. z \in Nat /\ z < m * WORDS
    BY <1>1, <1>6
  <2> HIDE DEF z
  <2>2. q \in Nat /\ \E s \in 0 .. WORDS - 1 : z = q * WORDS + s
    BY <1>1, <2>1, DivFact
  <2>3. last = q + 1
    BY <1>6 DEF z
  <2> HIDE DEF q
  <2>4. q * WORDS \in Nat /\ q * WORDS <= z /\ z < q * WORDS + WORDS
    BY <1>1, <2>2, Multiples
  <2>5. q < m
    <3>1. m <= q => m * WORDS <= q * WORDS
      BY <1>1, <2>2, Multiples
    <3> QED BY <1>1, <2>1, <2>2, <2>4, <3>1
  <2>6. last \in 0 .. m
    BY <1>1, <2>2, <2>3, <2>5
  <2>7. ASSUME NEW j \in Nat, NEW w \in 0 .. WORDS - 1, j * WORDS + w \in offset .. z
        PROVE  first <= j /\ j < last
    <3>1. j * WORDS \in Nat /\ (j < first => j * WORDS + WORDS <= first * WORDS)
      BY <1>1, <1>2, Multiples
    <3>2. q < j => q * WORDS + WORDS <= j * WORDS
      BY <1>1, <2>2, Multiples
    <3>3. PICK y \in Nat : y = j * WORDS
      BY <3>1
    <3>4. offset <= y + w /\ y + w <= z /\ w < WORDS /\ w \in Nat
      BY <1>1, <2>1, <2>7, <3>3
    <3>5. ~(j < first)
      BY <1>1, <1>4, <3>1, <3>3, <3>4
    <3>6. ~(q < j)
      BY <1>1, <2>1, <2>4, <3>2, <3>3, <3>4
    <3> QED BY <1>2, <2>2, <2>3, <3>5, <3>6
  <2> QED BY <1>2, <2>6, <2>7 DEF m, z
<1> QED BY <1>5, <1>6

(* text is in inode n at offset, which is long enough, and nothing else is new. *)
Wrote(V, W, n, offset, text) ==
  /\ Core(W) /\ Elsewhere(V, W, n)
  /\ W.node[n].size = IF offset + Len(text) > V.node[n].size THEN offset + Len(text) ELSE V.node[n].size
  /\ \A j \in Slots : Ptr(V, n, j) # 0 => Ptr(W, n, j) # 0
  /\ \A j \in Slots, w \in 0 .. WORDS - 1 :
       j * WORDS + w \in offset .. offset + Len(text) - 1 => Ptr(W, n, j) # 0
  /\ \A j \in Slots, w \in 0 .. WORDS - 1 : Word(W, n, j, w) = NewWord(V, n, offset, text, j, w)

LEMMA WriteRangeFacts ==
  ASSUME NEW V, Core(V), NEW n \in Inodes, NEW offset \in Nat, NEW S, NEW text \in Seq(S),
         offset + Len(text) <= MAX_FILE
  PROVE  /\ VolumeOK(WriteRange(V, n, offset, text))
         /\ WriteRange(V, n, offset, text).ok => Wrote(V, WriteRange(V, n, offset, text), n, offset, text)
<1> DEFINE end == offset + Len(text)
           first == offset \div WORDS
           last == IF text = <<>> THEN first ELSE (end - 1) \div WORDS + 1
           F == CHOOSE f : Puts(f, V, n, offset, text, first, last)
           W == WriteRange(V, n, offset, text)
           X == F[last]
<1>1. Len(text) \in Nat /\ (text = <<>> <=> Len(text) = 0)
  OBVIOUS
<1>2. W = GrowTo(F[last], n, end)
  BY DEF WriteRange, Puts
<1>3. PICK len \in Nat : len = Len(text)
  BY <1>1
<1>4. last = IF len = 0 THEN first ELSE (offset + len - 1) \div WORDS + 1
  BY <1>1, <1>3
<1> HIDE DEF first, last
<1>5. /\ first \in Nat /\ last \in 0 .. DIRECT + WORDS
      /\ \A j \in Nat, w \in 0 .. WORDS - 1 :
           j * WORDS + w \in offset .. offset + len - 1 => first <= j /\ j < last
  <2>1. offset + len <= MAX_FILE /\ first = offset \div WORDS
    BY <1>3 DEF first
  <2> QED BY <1>4, <2>1, RangeBlocks
<1>6. last \in Nat /\ \A j \in Slots : j \in Nat
  BY <1>5, TreeAssumption DEF Slots
<1>7. Puts(F, V, n, offset, text, first, last)
  BY <1>5, <1>6, PutsExist
<1> HIDE DEF F
<1>8. VolumeOK(X) /\ (X.ok => WroteTo(V, X, n, offset, text, first, last))
  BY <1>5, <1>7, PutsFacts
<1> HIDE DEF X
<1>9. W = IF X.ok /\ end > X.node[n].size THEN [X EXCEPT !.node[n].size = end] ELSE X
  BY <1>2 DEF GrowTo, X
<1> HIDE DEF W
<1>10. CASE ~X.ok
  <2>1. W = X
    BY <1>9, <1>10
  <2> QED BY <1>8, <1>10, <2>1 DEF W
<1>11. CASE X.ok
  <2> DEFINE N0 == X.node[n]
             N == [N0 EXCEPT !.size = end]
             i == DIRECT + WORDS - 1
  <2>1. WroteTo(V, X, n, offset, text, first, last) /\ Core(X)
    BY <1>8, <1>11 DEF WroteTo
  <2>2. /\ Core(W) /\ Elsewhere(X, W, n) /\ \A j \in Slots : Ptr(W, n, j) = Ptr(X, n, j)
        /\ W.node[n].size = IF end > X.node[n].size THEN end ELSE X.node[n].size
        /\ W.data = X.data
    <3>1. CASE ~(end > X.node[n].size)
      <4>1. W = X
        BY <1>9, <3>1
      <4> QED BY <2>1, <3>1, <4>1, ElsewhereSame
    <3>2. CASE end > X.node[n].size
      <4>1. W = [X EXCEPT !.node = [X.node EXCEPT ![n] = N]]
        BY <1>9, <1>11, <3>2
      <4>2. VolumeOK(X) /\ N0 \in NodeSet /\ X.data = [c \in Blocks |-> X.data[c]]
        BY <2>1, CoreType
      <4>3. end \in Nat
        BY <1>1
      <4> HIDE DEF end
      <4>4. /\ N \in NodeSet /\ N.mode = N0.mode /\ N.links = N0.links /\ N.blocks = N0.blocks
            /\ N.direct = N0.direct /\ N.indirect = N0.indirect /\ N.size = end
        BY <4>2, <4>3 DEF NodeSet
      <4>n. N0 = X.node[n]
        OBVIOUS
      <4> HIDE DEF N, N0
      <4>5. W = With(X, n, N, X.data)
        BY <4>1, <4>2 DEF With, VolumeOK
      <4>6. i \in Slots
        BY TreeAssumption DEF Slots
      <4> HIDE DEF i
      <4>7. Rewritten(X, n, i, N, X.data)
        BY <4>2, <4>4, <4>n DEF Rewritten
      <4>8. /\ Core(W) /\ Elsewhere(X, W, n) /\ W.node[n] = N /\ W.data = X.data
            /\ \A j \in Cells : Ptr(W, n, j) = Ptr(X, n, j)
        BY <2>1, <4>5, <4>6, <4>7, ChangeCore
      <4>9. \A j \in Slots : j \in Cells
        BY TreeAssumption DEF Slots, Cells
      <4> QED BY <3>2, <4>4, <4>8, <4>9
    <3> QED BY <3>1, <3>2
  <2>3. Elsewhere(V, W, n)
    BY <2>1, <2>2, ElsewhereThen DEF WroteTo
  <2>4. \A j \in Slots, w \in 0 .. WORDS - 1 : Word(W, n, j, w) = Word(X, n, j, w)
    BY <2>2 DEF Word
  <2>5. \A j \in Slots : (first <= j /\ j < last) \/ Ptr(V, n, j) # 0 => Ptr(W, n, j) # 0
    BY <2>1, <2>2 DEF WroteTo
  <2>6. ASSUME NEW j \in Slots, NEW w \in 0 .. WORDS - 1
        PROVE  /\ j * WORDS + w \in offset .. offset + Len(text) - 1 => Ptr(W, n, j) # 0
               /\ Word(W, n, j, w) = NewWord(V, n, offset, text, j, w)
    <3>1. Word(W, n, j, w) =
            IF first <= j /\ j < last THEN NewWord(V, n, offset, text, j, w) ELSE Word(V, n, j, w)
      BY <2>1, <2>4 DEF WroteTo
    <3>2. CASE first <= j /\ j < last
      BY <2>5, <3>1, <3>2
    <3>3. CASE ~(first <= j /\ j < last)
      <4>1. ~(j * WORDS + w \in offset .. offset + Len(text) - 1)
        BY <1>3, <1>5, <1>6, <3>3
      <4>2. NewWord(V, n, offset, text, j, w) = Word(V, n, j, w)
        BY <4>1, Zenon DEF NewWord
      <4> QED BY <3>1, <3>3, <4>1, <4>2
    <3> QED BY <3>2, <3>3
  <2>7. W.node[n].size = IF end > V.node[n].size THEN end ELSE V.node[n].size
    BY <2>1, <2>2 DEF WroteTo
  <2>8. Wrote(V, W, n, offset, text)
    BY <2>2, <2>3, <2>5, <2>6, <2>7 DEF Wrote
  <2> QED BY <2>2, <2>8 DEF W, Core
<1> QED BY <1>10, <1>11

(* Inode n ends at size, and reads as before up to there. *)
Ended(V, W, n, size) ==
  /\ Core(W) /\ Elsewhere(V, W, n) /\ W.ok = V.ok /\ W.node[n].size = size
  /\ \A j \in Slots, w \in 0 .. WORDS - 1 : j * WORDS + w < size => Word(W, n, j, w) = Word(V, n, j, w)

LEMMA CutAtFacts ==
  ASSUME NEW V, Core(V), V.ok = TRUE, NEW n \in Inodes, NEW size \in Nat, size <= MAX_FILE,
         NEW W, W = CutAt(V, n, size)
  PROVE  Ended(V, W, n, size)
<1> DEFINE N0 == V.node[n]
           N == [N0 EXCEPT !.size = size]
           q == size \div WORDS
           r == size % WORDS
           b == FileBlock(V, n, q)
<1>1. VolumeOK(V) /\ N0 \in NodeSet /\ V.data = [c \in Blocks |-> V.data[c]] /\ Owned(V)
  BY CoreType
<1>2. /\ N \in NodeSet /\ N.mode = N0.mode /\ N.links = N0.links /\ N.blocks = N0.blocks
      /\ N.direct = N0.direct /\ N.indirect = N0.indirect /\ N.size = size
  BY <1>1 DEF NodeSet
<1>3. q \in Nat /\ r \in 0 .. WORDS - 1 /\ size = q * WORDS + r /\ WORDS \in Nat \ {0}
      /\ DIRECT + WORDS \in Nat /\ DIRECT \in Nat
  <2>1. WORDS \in Nat \ {0} /\ DIRECT + WORDS \in Nat /\ DIRECT \in Nat
    BY TreeAssumption
  <2>2. q \in Nat /\ r \in 0 .. WORDS - 1 /\ size = q * WORDS + r
    BY <2>1, DivFact
  <2> QED BY <2>1, <2>2
<1>4. \A j \in Slots : j \in Cells /\ j \in Nat
  BY TreeAssumption DEF Slots, Cells
<1>5. CASE r = 0
  <2> DEFINE i == DIRECT + WORDS - 1
  <2>1. W = [V EXCEPT !.node = [V.node EXCEPT ![n] = N]]
    BY <1>5 DEF CutAt
  <2>2. W = With(V, n, N, V.data)
    BY <1>1, <2>1 DEF With, VolumeOK
  <2>n. N0 = V.node[n]
    OBVIOUS
  <2>3. i \in Slots
    BY TreeAssumption DEF Slots
  <2> HIDE DEF N, N0, i
  <2>4. Rewritten(V, n, i, N, V.data)
    BY <1>1, <1>2, <2>n DEF Rewritten
  <2>5. /\ Core(W) /\ Elsewhere(V, W, n) /\ W.ok = V.ok /\ W.node[n] = N /\ W.data = V.data
        /\ \A j \in Cells : Ptr(W, n, j) = Ptr(V, n, j)
    BY <2>2, <2>3, <2>4, ChangeCore
  <2> QED BY <1>2, <1>4, <2>5 DEF Ended, Word
<1>6. CASE r # 0
  <2> DEFINE Z == [w \in 0 .. WORDS - 1 |-> IF w < r THEN V.data[b][w] ELSE 0]
             D == [V.data EXCEPT ![b] = Z]
  <2>1. W = [V EXCEPT !.node[n].size = size, !.data[b] = Z]
    BY <1>6 DEF CutAt
  <2>2. W = [V EXCEPT !.node = [V.node EXCEPT ![n] = N], !.data = D]
    BY <2>1, <1>1 DEF VolumeOK
  <2> HIDE DEF q, r
  <2>3. q \in Slots /\ b = Ptr(V, n, q)
    <3>1. q * WORDS \in Nat /\ (DIRECT + WORDS <= q => (DIRECT + WORDS) * WORDS <= q * WORDS)
          /\ (DIRECT + WORDS) * WORDS \in Nat
      BY <1>3, Multiples
    <3>2. q < DIRECT + WORDS
      BY <1>3, <1>6, <3>1 DEF MAX_FILE
    <3>3. q \in Slots /\ q # DIRECT + WORDS
      BY <1>3, <3>2 DEF Slots
    <3> QED BY <3>3 DEF Ptr
  <2> HIDE DEF b
  <2>4. D = [c \in Blocks |-> D[c]] /\ (\A c \in Blocks : c # b => D[c] = V.data[c])
        /\ (b \in Blocks => D[b] = Z)
    BY <1>1
  <2>n. N0 = V.node[n]
    OBVIOUS
  <2> HIDE DEF D, N, N0
  <2>5. W = With(V, n, N, D)
    BY <2>2 DEF With
  <2>6. Rewritten(V, n, q, N, D)
    BY <1>2, <2>3, <2>4, <2>n DEF Rewritten
  <2>7. /\ Core(W) /\ Elsewhere(V, W, n) /\ W.ok = V.ok /\ W.node[n] = N /\ W.data = D
        /\ \A j \in Cells : Ptr(W, n, j) = Ptr(V, n, j)
    BY <2>3, <2>5, <2>6, ChangeCore
  <2>8. ASSUME NEW j \in Slots, NEW w \in 0 .. WORDS - 1, j * WORDS + w < size
        PROVE  Word(W, n, j, w) = Word(V, n, j, w)
    <3>1. Ptr(W, n, j) = Ptr(V, n, j)
      BY <1>4, <2>7
    <3>2. CASE Ptr(V, n, j) = 0
      BY <3>1, <3>2 DEF Word
    <3>3. CASE Ptr(V, n, j) # 0 /\ j # q
      <4>1. Ptr(V, n, j) \in Blocks /\ Ptr(V, n, j) # b
        BY <1>1, <1>4, <2>3, <3>3 DEF Owned
      <4>2. W.data[Ptr(V, n, j)] = V.data[Ptr(V, n, j)]
        BY <2>4, <2>7, <4>1
      <4> QED BY <3>1, <4>2 DEF Word
    <3>4. CASE Ptr(V, n, j) # 0 /\ j = q
      <4>1. b \in Blocks
        BY <1>1, <1>4, <2>3, <3>4 DEF Owned
      <4>2. w < r
        <5>1. PICK y \in Nat : y = q * WORDS
          BY <1>3, Multiples
        <5> QED BY <1>3, <2>8, <3>4, <5>1
      <4>3. W.data[b] = Z
        BY <2>4, <2>7, <4>1
      <4>4. W.data[b][w] = V.data[b][w]
        BY <4>2, <4>3
      <4> QED BY <2>3, <3>1, <3>4, <4>4 DEF Word
    <3> QED BY <3>2, <3>3, <3>4
  <2> QED BY <1>2, <2>7, <2>8 DEF Ended
<1> QED BY <1>5, <1>6

(* Inode n holds text. *)
Holds(V, W, n, text) ==
  /\ Core(W) /\ Elsewhere(V, W, n) /\ W.node[n].size = Len(text)
  /\ \A j \in Slots, w \in 0 .. WORDS - 1 :
       j * WORDS + w < Len(text) => Word(W, n, j, w) = text[j * WORDS + w + 1]

(* write_file on an inode: truncate, write, cut *)
LEMMA RewriteFacts ==
  ASSUME NEW V, Core(V), NEW n \in Inodes, NEW S, NEW text \in Seq(S), Len(text) <= MAX_FILE
  PROVE  /\ VolumeOK(Rewrite(V, n, text))
         /\ Rewrite(V, n, text).ok => Supported(V, n, "file") /\ Holds(V, Rewrite(V, n, text), n, text)
<1> DEFINE W == Rewrite(V, n, text)
           keep == (Len(text) + WORDS - 1) \div WORDS
           T == TruncateBlocks(V, n, keep)
           R == WriteRange(T, n, 0, text)
<1>1. VolumeOK(V) /\ n > 0 /\ n \in Nat /\ Len(text) \in Nat
  <2>1. VolumeOK(V)
    BY CoreType
  <2>2. n > 0 /\ n \in Nat
    BY DEF Inodes
  <2>3. Len(text) \in Nat
    OBVIOUS
  <2> QED BY <2>1, <2>2, <2>3
<1>2. CASE ~V.ok \/ ~Supported(V, n, "file")
  <2>1. W = Failed(V)
    BY <1>2 DEF Rewrite
  <2> QED BY <1>1, <2>1, FailedOK
<1>3. CASE V.ok /\ Supported(V, n, "file")
  <2>1. W = CutAt(R, n, Len(text))
    BY <1>1, <1>3 DEF Rewrite
  <2>2. keep \in Nat
    <3>1. WORDS \in Nat \ {0} /\ Len(text) + WORDS - 1 \in Nat
      BY <1>1, TreeAssumption
    <3> QED BY <3>1, DivFact
  <2> HIDE DEF keep
  <2>3. Core(T) /\ Elsewhere(V, T, n)
    BY <2>2, TruncateFacts
  <2> HIDE DEF T
  <2>4. 0 \in Nat /\ 0 + Len(text) <= MAX_FILE
    BY <1>1
  <2>5. VolumeOK(R) /\ (R.ok => Wrote(T, R, n, 0, text))
    BY <2>3, <2>4, WriteRangeFacts
  <2> HIDE DEF R, W
  <2>6. CASE ~R.ok
    <3>1. W = R
      BY <2>1, <2>6 DEF CutAt
    <3> QED BY <2>5, <2>6, <3>1 DEF W
  <2>7. CASE R.ok
    <3>1. Wrote(T, R, n, 0, text) /\ R.ok = TRUE /\ Core(R)
      BY <2>5, <2>7 DEF Wrote, VolumeOK
    <3>2. Ended(R, W, n, Len(text))
      BY <1>1, <2>1, <3>1, CutAtFacts
    <3>3. Elsewhere(V, W, n)
      <4>1. Elsewhere(V, R, n)
        BY <2>3, <3>1, ElsewhereThen DEF Wrote
      <4> QED BY <3>2, <4>1, ElsewhereThen DEF Ended
    <3>4. ASSUME NEW j \in Slots, NEW w \in 0 .. WORDS - 1, j * WORDS + w < Len(text)
          PROVE  Word(W, n, j, w) = text[j * WORDS + w + 1]
      <4>1. Word(W, n, j, w) = Word(R, n, j, w)
        BY <3>2, <3>4 DEF Ended
      <4>2. Word(R, n, j, w) = NewWord(T, n, 0, text, j, w)
        BY <3>1 DEF Wrote
      <4>3. j \in Nat /\ w \in Nat /\ WORDS \in Nat
        BY TreeAssumption DEF Slots
      <4>4. j * WORDS \in Nat
        BY <4>3, Multiples
      <4>5. PICK y \in Nat : y = j * WORDS
        BY <4>4
      <4>6. y + w \in 0 .. 0 + Len(text) - 1 /\ y + w - 0 + 1 = y + w + 1
        BY <1>1, <3>4, <4>3, <4>5
      <4>7. NewWord(T, n, 0, text, j, w) = text[j * WORDS + w + 1]
        BY <4>5, <4>6 DEF NewWord
      <4> QED BY <4>1, <4>2, <4>7
    <3>5. Holds(V, W, n, text)
      BY <3>2, <3>3, <3>4 DEF Ended, Holds
    <3> QED BY <1>3, <3>5 DEF Holds, Core, W
  <2> QED BY <2>6, <2>7
<1> QED BY <1>2, <1>3

-----------------------------------------------------------------------------
(* Inodes *)

(* Sets that a function pairs off have as many members. *)
LEMMA OneToOne ==
  ASSUME NEW S, NEW T, NEW f \in [S -> T], IsFiniteSet(S),
         \A x, y \in S : f[x] = f[y] => x = y, \A t \in T : \E x \in S : f[x] = t
  PROVE  IsFiniteSet(T) /\ Cardinality(T) = Cardinality(S)
<1>1. f \in Bijection(S, T)
  BY DEF Bijection, Injection, Surjection, IsInjective
<1>2. ExistsBijection(S, T)
  BY <1>1 DEF ExistsBijection
<1> QED BY <1>2, FS_Bijection

(* What supported checks of inode n, and that no other inode has blocks *)
NodeShape(V, n) ==
  /\ V.node[n].mode = "none" => Full(V, n) = {}
  /\ V.node[n].mode # "none" => n \in V.used["inode"] /\ V.node[n].links >= 1
  /\ V.node[n].mode = "file" => V.node[n].size <= MAX_FILE
  /\ V.node[n].mode = "dir" => /\ V.node[n].size \in 1 .. DIRECT
                               /\ Full(V, n) = 0 .. V.node[n].size - 1

(* What an inode holds is what its cells point to. *)
LEMMA HeldIs ==
  ASSUME NEW V, Core(V), NEW n \in Inodes
  PROVE  /\ Held(V, n) = {Ptr(V, n, i) : i \in Full(V, n)}
         /\ \A b \in Held(V, n) : DataBlock(b) /\ b \in V.used["block"]
         /\ Cardinality(Held(V, n)) = Cardinality(Full(V, n))
         /\ Cardinality(Full(V, n)) = Cardinality(Mapped(V, n)) + Cardinality(Indirect(V, n))
         /\ V.node[n].blocks = Cardinality(Full(V, n))
<1> DEFINE e == DIRECT + WORDS
<1>1. Owned(V)
  BY DEF Core
<1>2. Cells = Slots \cup {e} /\ e \notin Slots
  BY TreeAssumption DEF Cells, Slots
<1>3. Ptr(V, n, e) = V.node[n].indirect /\ \A i \in Slots : Ptr(V, n, i) = FileBlock(V, n, i)
  BY <1>2 DEF Ptr
<1>4. Mapped(V, n) = Full(V, n) \ {e} /\ (e \in Full(V, n) <=> V.node[n].indirect # 0)
  BY <1>2, <1>3 DEF Mapped, Full
<1>5. Indirect(V, n) = IF e \in Full(V, n) THEN {V.node[n].indirect} ELSE {}
  BY <1>4 DEF Indirect
<1>6. Held(V, n) = {Ptr(V, n, i) : i \in Full(V, n)}
  <2>1. ASSUME NEW b \in Held(V, n) PROVE \E i \in Full(V, n) : b = Ptr(V, n, i)
    <3>1. (\E i \in Mapped(V, n) : b = FileBlock(V, n, i)) \/ b \in Indirect(V, n)
      BY <2>1 DEF Held
    <3>2. Mapped(V, n) \subseteq Slots
      BY DEF Mapped
    <3> QED BY <1>3, <1>4, <1>5, <3>1, <3>2
  <2>2. ASSUME NEW i \in Full(V, n) PROVE Ptr(V, n, i) \in Held(V, n)
    <3>1. CASE i = e
      <4>1. Ptr(V, n, i) \in Indirect(V, n)
        BY <1>3, <1>5, <3>1, <2>2
      <4> QED BY <4>1 DEF Held
    <3>2. CASE i # e
      <4>1. i \in Mapped(V, n) /\ Ptr(V, n, i) = FileBlock(V, n, i)
        BY <1>2, <1>3, <1>4, <3>2 DEF Full
      <4> QED BY <4>1 DEF Held
    <3> QED BY <3>1, <3>2
  <2> QED BY <2>1, <2>2
<1>7. \A i \in Full(V, n) : i \in Cells /\ Ptr(V, n, i) # 0
  BY DEF Full
<1>8. \A b \in Held(V, n) : DataBlock(b) /\ b \in V.used["block"]
  BY <1>1, <1>6, <1>7 DEF Owned
<1>9. Cardinality(Held(V, n)) = Cardinality(Full(V, n))
  <2> DEFINE f == [i \in Full(V, n) |-> Ptr(V, n, i)]
  <2>1. f \in [Full(V, n) -> Held(V, n)] /\ \A b \in Held(V, n) : \E i \in Full(V, n) : f[i] = b
    BY <1>6
  <2>2. \A i, j \in Full(V, n) : f[i] = f[j] => i = j
    BY <1>1, <1>7 DEF Owned
  <2>3. IsFiniteSet(Full(V, n))
    BY CellsFinite
  <2> HIDE DEF f
  <2> QED BY <2>1, <2>2, <2>3, OneToOne
<1>10. Cardinality(Full(V, n)) = Cardinality(Mapped(V, n)) + Cardinality(Indirect(V, n))
  <2>1. IsFiniteSet(Full(V, n)) /\ Cardinality(Full(V, n)) \in Nat
    BY CellsFinite, FS_CardinalityType
  <2>2. Cardinality(Mapped(V, n)) = IF e \in Full(V, n) THEN Cardinality(Full(V, n)) - 1 ELSE Cardinality(Full(V, n))
    BY <1>4, <2>1, FS_RemoveElement
  <2>3. Cardinality(Indirect(V, n)) = IF e \in Full(V, n) THEN 1 ELSE 0
    BY <1>5, FS_Singleton, FS_EmptySet
  <2> QED BY <2>1, <2>2, <2>3
<1>11. V.node[n].blocks = Cardinality(Full(V, n))
  BY <1>1 DEF Owned
<1> QED BY <1>6, <1>8, <1>9, <1>10, <1>11

(* An inode that is in use passes the checks of supported for its type. *)
LEMMA SupportedIs ==
  ASSUME NEW V, Core(V), NEW n \in Inodes, NodeShape(V, n), NEW type \in {"file", "dir"}
  PROVE  Supported(V, n, type) <=> V.node[n].mode = type
<1>1. ASSUME V.node[n].mode = type PROVE Supported(V, n, type)
  <2>1. n \in V.used["inode"] /\ V.node[n].links >= 1 /\ V.node[n].links \in Int
    BY <1>1, CoreType DEF NodeShape, NodeSet
  <2>2. V.node[n].links # 0
    BY <2>1
  <2>3. /\ \A b \in Held(V, n) : DataBlock(b) /\ b \in V.used["block"]
        /\ Cardinality(Held(V, n)) = Cardinality(Mapped(V, n)) + Cardinality(Indirect(V, n))
        /\ V.node[n].blocks = Cardinality(Held(V, n))
    BY HeldIs
  <2>4. type = "file" => V.node[n].size <= MAX_FILE
    BY <1>1 DEF NodeShape
  <2>5. ASSUME type = "dir"
        PROVE  /\ V.node[n].size \in 1 .. DIRECT /\ V.node[n].indirect = 0
               /\ \A i \in 0 .. V.node[n].size - 1 : V.node[n].direct[i] # 0
    <3>1. V.node[n].size \in 1 .. DIRECT /\ Full(V, n) = 0 .. V.node[n].size - 1
      BY <1>1, <2>5 DEF NodeShape
    <3> DEFINE z == V.node[n].size
    <3> HIDE DEF z
    <3>2. z \in 1 .. DIRECT /\ Full(V, n) = 0 .. z - 1
      BY <3>1 DEF z
    <3>3. DIRECT \in Nat /\ WORDS \in Nat \ {0} /\ DIRECT + WORDS \in Cells
      BY TreeAssumption DEF Cells
    <3>4. DIRECT + WORDS \notin Full(V, n)
      BY <3>2, <3>3
    <3>5. V.node[n].indirect = 0
      BY <3>3, <3>4 DEF Full, Ptr
    <3>6. ASSUME NEW i \in 0 .. z - 1 PROVE V.node[n].direct[i] # 0
      <4>1. i \in Full(V, n) /\ i \in 0 .. DIRECT - 1
        BY <3>2, <3>3
      <4>2. Ptr(V, n, i) = V.node[n].direct[i]
        <5>1. VolumeOK(V) /\ IndirectOK(V)
          BY CoreType
        <5>2. \A k \in 0 .. DIRECT - 1 : Ptr(V, n, k) = V.node[n].direct[k]
          BY <5>1, PtrIs
        <5> QED BY <4>1, <5>2
      <4> QED BY <4>1, <4>2 DEF Full
    <3> QED BY <3>1, <3>5, <3>6 DEF z
  <2> QED BY <1>1, <2>1, <2>2, <2>3, <2>4, <2>5 DEF Supported
<1>2. Supported(V, n, type) => V.node[n].mode = type
  BY DEF Supported
<1> QED BY <1>1, <1>2

-----------------------------------------------------------------------------
(* Directories *)

AllNames == Names \cup Dots
RecordNames == AllNames \cup {""}
RecordSet == [ino : Inodes \cup {0}, len : Nat, name : RecordNames]
Lens(r) == [j \in DOMAIN r |-> r[j].len]

(* What record() checks of a block: the records fill it. *)
BlockShape(r) ==
  /\ r \in Seq(RecordSet) /\ SumTo(Lens(r), Len(r)) = DIR_SPACE
  /\ \A j \in 1 .. Len(r) : Used(r[j]) <= r[j].len /\ (r[j].ino # 0 => r[j].name \in AllNames)

(* B maps the indexes of the blocks of a directory to their records. *)
Here(B, i, j) == i \in DOMAIN B /\ j \in 1 .. Len(B[i]) /\ B[i][j].ino # 0
Shape(B) ==
  /\ \A i \in DOMAIN B : BlockShape(B[i])
  /\ \A i, j, k, l : Here(B, i, j) /\ Here(B, k, l) /\ B[i][j].name = B[k][l].name => i = k /\ j = l
Has(B, a, m) == \E i, j : Here(B, i, j) /\ B[i][j].name = a /\ B[i][j].ino = m

(* The units of a name *)
LEMMA SizeType == \A a \in AllNames : Size(a) \in Nat /\ Size(a) >= 1 /\ Size(a) <= DIR_SPACE
BY TreeAssumption DEF AllNames, Size

(* The fields of a record *)
LEMMA RecordType ==
  ASSUME NEW r, BlockShape(r), NEW j \in 1 .. Len(r)
  PROVE  /\ r[j] \in RecordSet /\ r[j].ino \in Inodes \cup {0} /\ r[j].len \in Nat
         /\ Used(r[j]) \in Nat /\ Used(r[j]) <= r[j].len
         /\ Lens(r)[j] = r[j].len /\ DOMAIN r = 1 .. Len(r) /\ Len(r) \in Nat
<1>1. r \in Seq(RecordSet)
  BY DEF BlockShape
<1>2. r[j] \in RecordSet /\ DOMAIN r = 1 .. Len(r) /\ Len(r) \in Nat
  BY <1>1
<1>3. r[j].ino \in Inodes \cup {0} /\ r[j].len \in Nat
  <2>1. \A x \in RecordSet : x.ino \in Inodes \cup {0} /\ x.len \in Nat
    BY DEF RecordSet
  <2> QED BY <1>2, <2>1
<1>4. Used(r[j]) \in Nat /\ Used(r[j]) <= r[j].len
  BY SizeType DEF BlockShape, Used
<1>5. Lens(r)[j] = r[j].len
  BY <1>2 DEF Lens
<1> QED BY <1>2, <1>3, <1>4, <1>5

(* Record j changes, and keeps its length. *)
LEMMA BlockChange ==
  ASSUME NEW r, BlockShape(r), NEW s \in Seq(RecordSet), NEW j \in 1 .. Len(r), Len(s) = Len(r),
         \A k \in 1 .. Len(r) : k # j => s[k] = r[k],
         s[j].len = r[j].len, Used(s[j]) <= s[j].len, s[j].ino # 0 => s[j].name \in AllNames
  PROVE  BlockShape(s)
<1>1. DOMAIN s = 1 .. Len(r) /\ DOMAIN r = 1 .. Len(r) /\ Len(r) \in Nat
  BY DEF BlockShape
<1>2. \A k \in 1 .. Len(r) : Lens(s)[k] = Lens(r)[k]
  BY <1>1 DEF Lens
<1>3. SumTo(Lens(s), Len(r)) = SumTo(Lens(r), Len(r))
  BY <1>1, <1>2, SumSame
<1>4. SumTo(Lens(s), Len(s)) = DIR_SPACE
  BY <1>3 DEF BlockShape
<1>5. \A k \in 1 .. Len(s) : Used(s[k]) <= s[k].len /\ (s[k].ino # 0 => s[k].name \in AllNames)
  BY DEF BlockShape
<1> QED BY <1>4, <1>5 DEF BlockShape

(* A length divided in two: the sum stays. *)
LEMMA SumSplit ==
  ASSUME NEW n \in Nat, NEW s, NEW t, NEW j \in 1 .. n, \A k \in 1 .. n : s[k] \in Int,
         t[j] \in Int, t[j + 1] \in Int, t[j] + t[j + 1] = s[j],
         \A k \in 1 .. n : k < j => t[k] = s[k], \A k \in 1 .. n : k > j => t[k + 1] = s[k]
  PROVE  SumTo(t, n + 1) = SumTo(s, n)
<1> DEFINE Bad == {k \in Nat : j <= k /\ k <= n /\ SumTo(t, k + 1) # SumTo(s, k)}
<1>1. SUFFICES ASSUME Bad # {} PROVE FALSE
  OBVIOUS
<1>2. PICK k \in Bad : \A m \in Bad : k <= m
  BY <1>1, LeastNat
<1>3. k \in Nat /\ j <= k /\ k <= n /\ k - 1 \in Nat /\ k \in 1 .. n /\ SumTo(t, k + 1) # SumTo(s, k)
  BY <1>2
<1>4. SumTo(s, (k - 1) + 1) = SumTo(s, k - 1) + s[(k - 1) + 1]
  BY <1>3, SumNext
<1>5. SumTo(t, k + 1) = SumTo(t, k) + t[k + 1]
  BY <1>3, SumNext
<1>6. CASE k = j
  <2>1. SumTo(t, (k - 1) + 1) = SumTo(t, k - 1) + t[(k - 1) + 1]
    BY <1>3, SumNext
  <2>2. SumTo(s, k - 1) = SumTo(t, k - 1)
    <3>1. \A m \in 1 .. k - 1 : s[m] = t[m]
      BY <1>6, <1>3
    <3> QED BY <1>3, <3>1, SumSame
  <2>3. SumTo(s, k - 1) \in Int
    <3>1. \A m \in 1 .. k - 1 : s[m] \in Int
      BY <1>3
    <3> QED BY <1>3, <3>1, SumType
  <2> QED BY <1>3, <1>4, <1>5, <1>6, <2>1, <2>2, <2>3
<1>7. CASE k # j
  <2>1. k - 1 \notin Bad /\ j <= k - 1 /\ k - 1 <= n
    BY <1>2, <1>3, <1>7
  <2>2. SumTo(t, (k - 1) + 1) = SumTo(s, k - 1)
    BY <1>3, <2>1
  <2>3. t[k + 1] = s[k]
    BY <1>3, <1>7
  <2> QED BY <1>3, <1>4, <1>5, <2>2, <2>3
<1> QED BY <1>6, <1>7

(* Record j of block i is erased. *)
Erased(B, C, i, j) ==
  /\ DOMAIN C = DOMAIN B /\ \A k \in DOMAIN B : k # i => C[k] = B[k]
  /\ C[i] \in Seq(RecordSet) /\ Len(C[i]) = Len(B[i])
  /\ \A k \in 1 .. Len(B[i]) : k # j => C[i][k] = B[i][k]
  /\ C[i][j].ino = 0 /\ C[i][j].len = B[i][j].len

LEMMA EraseData ==
  ASSUME NEW B, Shape(B), NEW C, NEW i, NEW j, Here(B, i, j), Erased(B, C, i, j)
  PROVE  Shape(C) /\ \A a, m : Has(C, a, m) <=> Has(B, a, m) /\ a # B[i][j].name
<1>1. i \in DOMAIN B /\ j \in 1 .. Len(B[i]) /\ BlockShape(B[i])
  BY DEF Here, Shape
<1>2. ASSUME NEW k \in DOMAIN C PROVE BlockShape(C[k])
  <2>1. CASE k # i
    BY <2>1 DEF Erased, Shape
  <2>2. CASE k = i
    <3>1. Used(C[i][j]) <= C[i][j].len
      BY <1>1, RecordType DEF Erased, Used
    <3>2. BlockShape(C[i])
      BY <1>1, <3>1, BlockChange DEF Erased
    <3> QED BY <2>2, <3>2
  <2> QED BY <2>1, <2>2
<1>3. \A k, l : Here(C, k, l) <=> Here(B, k, l) /\ ~(k = i /\ l = j)
  BY <1>1 DEF Here, Erased
<1>4. \A k, l : Here(C, k, l) => C[k][l] = B[k][l]
  BY <1>1, <1>3 DEF Here, Erased
<1>5. ASSUME NEW k, NEW l, NEW p, NEW q, Here(C, k, l), Here(C, p, q), C[k][l].name = C[p][q].name
      PROVE  k = p /\ l = q
  <2>1. Here(B, k, l) /\ Here(B, p, q) /\ B[k][l].name = B[p][q].name
    BY <1>3, <1>4, <1>5
  <2> QED BY <2>1 DEF Shape
<1>6. Shape(C)
  BY <1>2, <1>5 DEF Shape
<1>7. ASSUME NEW a, NEW m PROVE Has(C, a, m) <=> Has(B, a, m) /\ a # B[i][j].name
  <2>1. ASSUME Has(C, a, m) PROVE Has(B, a, m) /\ a # B[i][j].name
    <3>1. PICK k, l : Here(C, k, l) /\ C[k][l].name = a /\ C[k][l].ino = m
      BY <2>1 DEF Has
    <3>2. Here(B, k, l) /\ B[k][l].name = a /\ B[k][l].ino = m /\ ~(k = i /\ l = j)
      BY <3>1, <1>3, <1>4
    <3>3. a # B[i][j].name
      BY <3>2 DEF Shape
    <3> QED BY <3>2, <3>3 DEF Has
  <2>2. ASSUME Has(B, a, m), a # B[i][j].name PROVE Has(C, a, m)
    <3>1. PICK k, l : Here(B, k, l) /\ B[k][l].name = a /\ B[k][l].ino = m
      BY <2>2 DEF Has
    <3>2. Here(C, k, l) /\ C[k][l] = B[k][l]
      BY <1>3, <1>4, <2>2, <3>1
    <3> QED BY <3>1, <3>2 DEF Has
  <2> QED BY <2>1, <2>2
<1> QED BY <1>6, <1>7

(* A record is added at <<x, y>>; those that were there stay where they are. *)
AddedAt(B, C, x, y, a, n) ==
  /\ \A i \in DOMAIN C : BlockShape(C[i])
  /\ Here(C, x, y) /\ C[x][y].name = a /\ C[x][y].ino = n /\ ~Here(B, x, y)
  /\ \A k, l : ~(k = x /\ l = y) => (Here(C, k, l) <=> Here(B, k, l))
  /\ \A k, l : Here(B, k, l) => C[k][l] = B[k][l]

(* What an insertion does to a directory: the blocks and the names *)
Inserted(B, C, a, n) == Shape(C) /\ \A b, m : Has(C, b, m) <=> Has(B, b, m) \/ (b = a /\ m = n)

LEMMA AddData ==
  ASSUME NEW B, Shape(B), NEW C, NEW x, NEW y, NEW a, NEW n, \A m : ~Has(B, a, m), AddedAt(B, C, x, y, a, n)
  PROVE  Inserted(B, C, a, n)
<1>1. ASSUME NEW k, NEW l, NEW p, NEW q, Here(C, k, l), Here(C, p, q), C[k][l].name = C[p][q].name
      PROVE  k = p /\ l = q
  <2>1. \A u, v : Here(C, u, v) /\ ~(u = x /\ v = y) => Here(B, u, v) /\ C[u][v] = B[u][v] /\ B[u][v].name # a
    <3>1. \A u, v : Here(B, u, v) => B[u][v].name # a
      <4>1. \A u, v : Here(B, u, v) => Has(B, B[u][v].name, B[u][v].ino)
        BY DEF Has
      <4> QED BY <4>1
    <3> QED BY <3>1 DEF AddedAt
  <2>2. CASE ~(k = x /\ l = y) /\ ~(p = x /\ q = y)
    BY <1>1, <2>1, <2>2 DEF Shape
  <2>3. CASE (k = x /\ l = y) \/ (p = x /\ q = y)
    BY <1>1, <2>1, <2>3 DEF AddedAt
  <2> QED BY <2>2, <2>3
<1>2. Shape(C)
  BY <1>1 DEF Shape, AddedAt
<1>3. ASSUME NEW b, NEW m PROVE Has(C, b, m) <=> Has(B, b, m) \/ (b = a /\ m = n)
  <2>1. ASSUME Has(C, b, m) PROVE Has(B, b, m) \/ (b = a /\ m = n)
    <3>1. PICK k, l : Here(C, k, l) /\ C[k][l].name = b /\ C[k][l].ino = m
      BY <2>1 DEF Has
    <3>2. CASE k = x /\ l = y
      BY <3>1, <3>2 DEF AddedAt
    <3>3. CASE ~(k = x /\ l = y)
      <4>1. Here(B, k, l) /\ B[k][l] = C[k][l]
        BY <3>1, <3>3 DEF AddedAt
      <4> QED BY <3>1, <4>1 DEF Has
    <3> QED BY <3>2, <3>3
  <2>2. ASSUME Has(B, b, m) PROVE Has(C, b, m)
    <3>1. PICK k, l : Here(B, k, l) /\ B[k][l].name = b /\ B[k][l].ino = m
      BY <2>2 DEF Has
    <3>2. Here(C, k, l) /\ C[k][l] = B[k][l]
      BY <3>1 DEF AddedAt
    <3> QED BY <3>1, <3>2 DEF Has
  <2>3. Has(C, a, n)
    BY DEF AddedAt, Has
  <2> QED BY <2>1, <2>2, <2>3
<1> QED BY <1>2, <1>3 DEF Inserted

(* t in the place of element j *)
Spliced(r, j, t, s, S) ==
  /\ s \in Seq(S) /\ Len(s) = Len(r) - 1 + Len(t)
  /\ \A k \in 1 .. Len(r) : k < j => s[k] = r[k]
  /\ \A k \in 1 .. Len(t) : s[j - 1 + k] = t[k]
  /\ \A k \in 1 .. Len(r) : k > j => s[k - 1 + Len(t)] = r[k]

LEMMA Splice ==
  ASSUME NEW S, NEW r \in Seq(S), NEW j \in 1 .. Len(r), NEW t \in Seq(S), NEW s,
         s = SubSeq(r, 1, j - 1) \o t \o SubSeq(r, j + 1, Len(r))
  PROVE  Spliced(r, j, t, s, S)
<1> DEFINE p == SubSeq(r, 1, j - 1)
           q == SubSeq(r, j + 1, Len(r))
           h == p \o t
<1>1. Len(r) \in Nat /\ Len(t) \in Nat /\ j \in Nat /\ j >= 1 /\ j <= Len(r)
  OBVIOUS
<1>2. p \in Seq(S) /\ Len(p) = j - 1 /\ \A k \in 1 .. j - 1 : p[k] = r[k]
  <2>1. \A k \in 1 .. j - 1 : r[k] \in S
    BY <1>1
  <2>2. 1 \in Int /\ j - 1 \in Int
    BY <1>1
  <2>3. /\ p \in Seq(S) /\ Len(p) = IF 1 <= j - 1 THEN (j - 1) - 1 + 1 ELSE 0
        /\ \A k \in 1 .. (j - 1) - 1 + 1 : p[k] = r[1 + k - 1]
    BY <2>1, <2>2, SubSeqProperties
  <2> HIDE DEF p
  <2>4. ASSUME NEW k \in 1 .. j - 1 PROVE p[k] = r[k]
    <3>1. k \in 1 .. (j - 1) - 1 + 1 /\ 1 + k - 1 = k
      BY <1>1
    <3>2. p[k] = r[1 + k - 1]
      BY <2>3, <3>1
    <3> QED BY <3>1, <3>2
  <2>5. Len(p) = j - 1
    BY <1>1, <2>3
  <2> QED BY <2>3, <2>4, <2>5
<1>3. q \in Seq(S) /\ Len(q) = Len(r) - j /\ \A k \in 1 .. Len(r) - j : q[k] = r[j + k]
  <2>1. \A k \in j + 1 .. Len(r) : r[k] \in S
    BY <1>1
  <2>2. j + 1 \in Int /\ Len(r) \in Int
    BY <1>1
  <2>3. /\ q \in Seq(S) /\ Len(q) = IF j + 1 <= Len(r) THEN Len(r) - (j + 1) + 1 ELSE 0
        /\ \A k \in 1 .. Len(r) - (j + 1) + 1 : q[k] = r[j + 1 + k - 1]
    BY <2>1, <2>2, SubSeqProperties
  <2> HIDE DEF q
  <2>4. ASSUME NEW k \in 1 .. Len(r) - j PROVE q[k] = r[j + k]
    <3>1. k \in 1 .. Len(r) - (j + 1) + 1 /\ j + 1 + k - 1 = j + k
      BY <1>1
    <3>2. q[k] = r[j + 1 + k - 1]
      BY <2>3, <3>1
    <3> QED BY <3>1, <3>2
  <2>5. Len(q) = Len(r) - j
    <3>1. Len(q) = IF j + 1 <= Len(r) THEN Len(r) - (j + 1) + 1 ELSE 0
      BY <2>3
    <3>2. CASE j + 1 <= Len(r)
      BY <1>1, <3>1, <3>2
    <3>3. CASE ~(j + 1 <= Len(r))
      BY <1>1, <3>1, <3>3
    <3> QED BY <3>2, <3>3
  <2> QED BY <2>3, <2>4, <2>5
<1> HIDE DEF p, q
<1>4. /\ h \in Seq(S) /\ Len(h) = Len(p) + Len(t)
      /\ \A k \in 1 .. Len(p) + Len(t) : h[k] = IF k <= Len(p) THEN p[k] ELSE t[k - Len(p)]
  BY <1>2, ConcatProperties, Zenon
<1> HIDE DEF h
<1>5. /\ s \in Seq(S) /\ Len(s) = Len(h) + Len(q)
      /\ \A k \in 1 .. Len(h) + Len(q) : s[k] = IF k <= Len(h) THEN h[k] ELSE q[k - Len(h)]
  <2>1. s = h \o q
    BY DEF h, p, q
  <2>2. /\ h \o q \in Seq(S) /\ Len(h \o q) = Len(h) + Len(q)
        /\ \A k \in 1 .. Len(h) + Len(q) : (h \o q)[k] = IF k <= Len(h) THEN h[k] ELSE q[k - Len(h)]
    <3>1. h \in Seq(S) /\ q \in Seq(S)
      BY <1>3, <1>4, Zenon
    <3> QED BY <3>1, ConcatProperties, Zenon
  <2> QED BY <2>1, <2>2, Zenon
<1>6. Len(p) = j - 1 /\ Len(h) = j - 1 + Len(t) /\ Len(q) = Len(r) - j
  BY <1>1, <1>2, <1>3, <1>4
<1>7. Len(s) = Len(r) - 1 + Len(t)
  <2>1. Len(s) = Len(h) + Len(q)
    BY <1>5
  <2>2. \A L : L = Len(h) + Len(q) => L = Len(r) - 1 + Len(t)
    BY <1>1, <1>6
  <2> QED BY <2>1, <2>2, Zenon
<1>8. \A k \in 1 .. Len(r) : k < j => s[k] = r[k]
  <2> SUFFICES ASSUME NEW k \in 1 .. Len(r), k < j PROVE s[k] = r[k]
    OBVIOUS
  <2>1. k \in 1 .. j - 1 /\ k \in 1 .. Len(p) + Len(t) /\ k \in 1 .. Len(h) + Len(q) /\ k <= Len(h) /\ k <= Len(p)
    BY <1>1, <1>6
  <2>2. s[k] = h[k] /\ h[k] = p[k] /\ p[k] = r[k]
    BY <1>2, <1>4, <1>5, <2>1
  <2> QED BY <2>2
<1>9. \A k \in 1 .. Len(t) : s[j - 1 + k] = t[k]
  <2> SUFFICES ASSUME NEW k \in 1 .. Len(t) PROVE s[j - 1 + k] = t[k]
    OBVIOUS
  <2> DEFINE x == j - 1 + k
  <2>1. x \in 1 .. Len(p) + Len(t) /\ x \in 1 .. Len(h) + Len(q) /\ x <= Len(h) /\ ~(x <= Len(p)) /\ x - Len(p) = k
    BY <1>1, <1>6
  <2> HIDE DEF x
  <2>2. s[x] = h[x] /\ h[x] = t[x - Len(p)]
    BY <1>4, <1>5, <2>1
  <2> QED BY <2>1, <2>2 DEF x
<1>10. \A k \in 1 .. Len(r) : k > j => s[k - 1 + Len(t)] = r[k]
  <2> SUFFICES ASSUME NEW k \in 1 .. Len(r), k > j PROVE s[k - 1 + Len(t)] = r[k]
    OBVIOUS
  <2> DEFINE x == k - 1 + Len(t)
  <2>1. x \in 1 .. Len(h) + Len(q) /\ ~(x <= Len(h)) /\ x - Len(h) = k - j /\ k - j \in 1 .. Len(r) - j /\ j + (k - j) = k
    BY <1>1, <1>6
  <2> HIDE DEF x
  <2>2. s[x] = q[x - Len(h)] /\ q[k - j] = r[j + (k - j)]
    BY <1>3, <1>5, <2>1
  <2> QED BY <2>1, <2>2 DEF x
<1> QED BY <1>5, <1>7, <1>8, <1>9, <1>10 DEF Spliced

(* A record that takes the place of an erased one, and one that takes what  *)
(* the record before it does not use                                        *)
Placed(r, s, j, a, n) ==
  /\ r[j].ino = 0 /\ Len(s) = Len(r) /\ \A k \in 1 .. Len(r) : k # j => s[k] = r[k]
  /\ s[j].ino = n /\ s[j].name = a /\ s[j].len = r[j].len
Parted(r, s, j, a, n) ==
  /\ r[j].ino # 0 /\ Len(s) = Len(r) + 1
  /\ \A k \in 1 .. Len(r) : k < j => s[k] = r[k]
  /\ s[j].ino = r[j].ino /\ s[j].name = r[j].name /\ s[j].len = Used(r[j])
  /\ s[j + 1].ino = n /\ s[j + 1].name = a /\ s[j + 1].len = r[j].len - Used(r[j])
  /\ \A k \in 1 .. Len(r) : k > j => s[k + 1] = r[k]

LEMMA RecordIs ==
  ASSUME NEW n \in Inodes \cup {0}, NEW len \in Nat, NEW a \in RecordNames
  PROVE  /\ Record(n, len, a) \in RecordSet
         /\ Record(n, len, a).ino = n /\ Record(n, len, a).len = len /\ Record(n, len, a).name = a
BY DEF Record, RecordSet

LEMMA SplitSpliced ==
  ASSUME NEW r, BlockShape(r), NEW j \in 1 .. Len(r), NEW a \in AllNames, NEW n \in Inodes, n # 0,
         r[j].len - Used(r[j]) >= Size(a), NEW s, Spliced(r, j, Split(r[j], a, n), s, RecordSet)
  PROVE  BlockShape(s) /\ (Placed(r, s, j, a, n) \/ Parted(r, s, j, a, n))
<1> DEFINE e == r[j]
           rest == e.len - Used(e)
           x == Record(n, rest, a)
           t == Split(e, a, n)
<1>1. /\ e \in RecordSet /\ e.ino \in Inodes \cup {0} /\ e.len \in Nat /\ Used(e) \in Nat /\ Used(e) <= e.len
      /\ DOMAIN r = 1 .. Len(r) /\ Len(r) \in Nat
  BY RecordType
<1>2. Size(a) \in Nat /\ Size(a) >= 1 /\ rest \in Nat /\ rest >= Size(a) /\ a \in RecordNames
  <2>1. Size(a) \in Nat /\ Size(a) >= 1
    BY SizeType
  <2>2. a \in RecordNames
    BY Zenon DEF RecordNames
  <2> QED BY <1>1, <2>1, <2>2
<1>3. x \in RecordSet /\ x.ino = n /\ x.len = rest /\ x.name = a
  BY <1>2, RecordIs
<1>4. r \in Seq(RecordSet)
  BY DEF BlockShape
<1>5. t = (IF e.ino = 0 THEN <<>> ELSE <<[e EXCEPT !.len = Used(e)]>>) \o <<x>>
  BY DEF Split
<1>6. Spliced(r, j, t, s, RecordSet)
  OBVIOUS
<1> HIDE DEF x, rest, t, e
<1>7. CASE e.ino = 0
  <2>1. t = <<x>>
    BY <1>3, <1>5, <1>7
  <2>2. t \in Seq(RecordSet) /\ Len(t) = 1 /\ t[1] = x
    BY <1>3, <2>1
  <2>3. Spliced(r, j, t, s, RecordSet)
    BY <1>6
  <2>n. Len(r) \in Nat /\ j \in Nat /\ j >= 1 /\ j <= Len(r)
    BY <1>1
  <2>4. s \in Seq(RecordSet) /\ Len(s) = Len(r)
    <3>1. s \in Seq(RecordSet) /\ Len(s) = Len(r) - 1 + Len(t)
      BY <2>3 DEF Spliced
    <3>2. \A L : L = Len(r) - 1 + Len(t) => L = Len(r)
      BY <2>n, <2>2
    <3> QED BY <3>1, <3>2, Zenon
  <2>5. s[j] = x
    <3>1. s[j - 1 + 1] = t[1]
      BY <2>2, <2>3 DEF Spliced
    <3>2. j - 1 + 1 = j
      BY <2>n
    <3> QED BY <2>2, <3>1, <3>2
  <2>6. \A k \in 1 .. Len(r) : k # j => s[k] = r[k]
    <3> SUFFICES ASSUME NEW k \in 1 .. Len(r), k # j PROVE s[k] = r[k]
      OBVIOUS
    <3>1. CASE k < j
      BY <2>3, <3>1 DEF Spliced
    <3>2. CASE k > j
      <4>1. s[k - 1 + Len(t)] = r[k]
        BY <2>3, <3>2 DEF Spliced
      <4>2. k - 1 + Len(t) = k
        BY <2>n, <2>2
      <4> QED BY <4>1, <4>2
    <3> QED BY <2>n, <3>1, <3>2
  <2>7. s[j].ino = n /\ s[j].name = a /\ s[j].len = r[j].len
    BY <1>1, <1>3, <1>7, <2>5 DEF Used, rest, e
  <2>8. Used(s[j]) <= s[j].len
    BY <1>2, <1>3, <2>5 DEF Used
  <2>9. BlockShape(s)
    BY <2>4, <2>6, <2>7, <2>8, BlockChange
  <2> QED BY <1>7, <2>4, <2>6, <2>7, <2>9 DEF Placed, e
<1>8. CASE e.ino # 0
  <2> DEFINE f == [e EXCEPT !.len = Used(e)]
  <2>1. f \in RecordSet /\ f.ino = e.ino /\ f.name = e.name /\ f.len = Used(e)
    BY <1>1 DEF RecordSet
  <2> HIDE DEF f
  <2>2. t = <<f>> \o <<x>>
    BY <1>5, <1>8 DEF f
  <2>3. t \in Seq(RecordSet) /\ Len(t) = 2 /\ t[1] = f /\ t[2] = x
    BY <1>3, <2>1, <2>2
  <2>4. Spliced(r, j, t, s, RecordSet)
    BY <1>6
  <2>n. Len(r) \in Nat /\ j \in Nat /\ j >= 1 /\ j <= Len(r)
    BY <1>1
  <2>5. s \in Seq(RecordSet) /\ Len(s) = Len(r) - 1 + Len(t)
    BY <2>4 DEF Spliced
  <2>6. Len(s) = Len(r) + 1
    <3>1. \A L : L = Len(r) - 1 + Len(t) => L = Len(r) + 1
      BY <2>n, <2>3
    <3> QED BY <2>5, <3>1, Zenon
  <2>7. s[j] = f /\ s[j + 1] = x
    <3>1. s[j - 1 + 1] = t[1] /\ s[j - 1 + 2] = t[2]
      BY <2>3, <2>4 DEF Spliced
    <3>2. j - 1 + 1 = j /\ j - 1 + 2 = j + 1
      BY <2>n
    <3> QED BY <2>3, <3>1, <3>2
  <2>8. \A k \in 1 .. Len(r) : k < j => s[k] = r[k]
    BY <2>4 DEF Spliced
  <2>9. \A k \in 1 .. Len(r) : k > j => s[k + 1] = r[k]
    <3> SUFFICES ASSUME NEW k \in 1 .. Len(r), k > j PROVE s[k + 1] = r[k]
      OBVIOUS
    <3>1. s[k - 1 + Len(t)] = r[k]
      BY <2>4 DEF Spliced
    <3>2. k - 1 + Len(t) = k + 1
      BY <2>n, <2>3
    <3> QED BY <3>1, <3>2
  <2>10. Parted(r, s, j, a, n)
    BY <1>3, <1>8, <2>1, <2>6, <2>7, <2>8, <2>9 DEF Parted, rest, e
  <2>11. SumTo(Lens(s), Len(r) + 1) = SumTo(Lens(r), Len(r))
    <3>1. DOMAIN s = 1 .. Len(r) + 1
      BY <2>5, <2>6
    <3>2. \A k \in 1 .. Len(r) : Lens(r)[k] = r[k].len /\ r[k].len \in Nat
      BY RecordType
    <3>3. \A k \in 1 .. Len(r) + 1 : Lens(s)[k] = s[k].len
      BY <3>1 DEF Lens
    <3>4. Lens(s)[j] = Used(e) /\ Lens(s)[j + 1] = rest /\ Lens(r)[j] = e.len
      <4>1. j \in 1 .. Len(r) + 1 /\ j + 1 \in 1 .. Len(r) + 1 /\ j \in 1 .. Len(r)
        BY <2>n
      <4>2. Lens(s)[j] = s[j].len /\ Lens(s)[j + 1] = s[j + 1].len /\ Lens(r)[j] = r[j].len
        BY <3>2, <3>3, <4>1
      <4> QED BY <1>3, <2>1, <2>7, <4>2 DEF e
    <3>5. Lens(s)[j] \in Int /\ Lens(s)[j + 1] \in Int /\ Lens(s)[j] + Lens(s)[j + 1] = Lens(r)[j]
      BY <1>1, <1>2, <3>4 DEF rest
    <3>6. \A k \in 1 .. Len(r) : k < j => Lens(s)[k] = Lens(r)[k]
      BY <2>8, <2>n, <3>2, <3>3
    <3>7. \A k \in 1 .. Len(r) : k > j => Lens(s)[k + 1] = Lens(r)[k]
      BY <2>9, <2>n, <3>2, <3>3, SMTT(40)
    <3>8. \A k \in 1 .. Len(r) : Lens(r)[k] \in Int
      BY <3>2
    <3> QED BY <2>n, <3>5, <3>6, <3>7, <3>8, SumSplit
  <2>12. ASSUME NEW k \in 1 .. Len(s) PROVE Used(s[k]) <= s[k].len /\ (s[k].ino # 0 => s[k].name \in AllNames)
    <3>1. \A l \in 1 .. Len(r) : Used(r[l]) <= r[l].len /\ (r[l].ino # 0 => r[l].name \in AllNames)
      BY DEF BlockShape
    <3>2. k \in Nat /\ k >= 1 /\ k <= Len(r) + 1
      BY <2>6, <2>12, <2>n
    <3>3. CASE k < j
      <4>1. k \in 1 .. Len(r) /\ s[k] = r[k]
        BY <2>8, <2>n, <3>2, <3>3
      <4> QED BY <3>1, <4>1
    <3>4. CASE k = j
      <4>1. Used(s[j]) = Used(e)
        BY <1>8, <2>1, <2>7 DEF Used
      <4>2. e.name \in AllNames
        BY <1>8, <3>1 DEF e
      <4> QED BY <1>1, <2>1, <2>7, <3>4, <4>1, <4>2
    <3>5. CASE k = j + 1
      <4>1. Used(s[k]) = Size(a)
        BY <1>3, <2>7, <3>5 DEF Used
      <4> QED BY <1>2, <1>3, <2>7, <3>5, <4>1
    <3>6. CASE k > j + 1
      <4>1. k - 1 \in 1 .. Len(r) /\ k - 1 > j /\ (k - 1) + 1 = k
        BY <2>n, <3>2, <3>6
      <4>2. s[k] = r[k - 1]
        BY <2>9, <4>1
      <4> QED BY <3>1, <4>1, <4>2
    <3> QED BY <2>n, <3>2, <3>3, <3>4, <3>5, <3>6
  <2>13. SumTo(Lens(s), Len(s)) = DIR_SPACE
    BY <2>6, <2>11 DEF BlockShape
  <2> QED BY <2>5, <2>10, <2>12, <2>13 DEF BlockShape
<1> QED BY <1>7, <1>8

LEMMA SplitBlock ==
  ASSUME NEW r, BlockShape(r), NEW j \in 1 .. Len(r), NEW a \in AllNames, NEW n \in Inodes, n # 0,
         r[j].len - Used(r[j]) >= Size(a), NEW s,
         s = SubSeq(r, 1, j - 1) \o Split(r[j], a, n) \o SubSeq(r, j + 1, Len(r))
  PROVE  BlockShape(s) /\ (Placed(r, s, j, a, n) \/ Parted(r, s, j, a, n))
<1> DEFINE t == Split(r[j], a, n)
<1>1. r[j] \in RecordSet /\ r[j].len \in Nat /\ Used(r[j]) \in Nat /\ Used(r[j]) <= r[j].len
  BY RecordType
<1>2. a \in RecordNames
  BY Zenon DEF RecordNames
<1>3. Record(n, r[j].len - Used(r[j]), a) \in RecordSet
  <2>1. r[j].len - Used(r[j]) \in Nat
    BY <1>1
  <2> QED BY <1>2, <2>1, RecordIs
<1>4. [r[j] EXCEPT !.len = Used(r[j])] \in RecordSet
  BY <1>1 DEF RecordSet
<1>5. t \in Seq(RecordSet)
  BY <1>3, <1>4 DEF Split
<1>6. r \in Seq(RecordSet)
  BY DEF BlockShape
<1> HIDE DEF t
<1>7. s = SubSeq(r, 1, j - 1) \o t \o SubSeq(r, j + 1, Len(r))
  BY Zenon DEF t
<1>8. Spliced(r, j, t, s, RecordSet)
  BY <1>5, <1>6, <1>7, Splice, Zenon
<1> QED BY <1>8, SplitSpliced, Zenon DEF t

(* Block i alone changes. *)
OneBlock(B, C, i) == DOMAIN C = DOMAIN B /\ i \in DOMAIN B /\ \A k \in DOMAIN B : k # i => C[k] = B[k]

LEMMA PartData ==
  ASSUME NEW B, Shape(B), NEW C, NEW i, NEW j, OneBlock(B, C, i), j \in 1 .. Len(B[i]), BlockShape(C[i]),
         NEW a, NEW n, n # 0, \A m : ~Has(B, a, m), Parted(B[i], C[i], j, a, n)
  PROVE  Inserted(B, C, a, n)
<1> DEFINE r == B[i]
           s == C[i]
           Old(k, l) == IF k = i /\ l > j THEN l - 1 ELSE l
           New(k, l) == IF k = i /\ l > j THEN l + 1 ELSE l
<1>1. BlockShape(r) /\ i \in DOMAIN B /\ i \in DOMAIN C
  BY DEF Shape, OneBlock
<1>2. Len(r) \in Nat /\ j \in Nat /\ j >= 1 /\ j <= Len(r) /\ Len(s) = Len(r) + 1 /\ Len(s) \in Nat
  <2>1. Len(r) \in Nat
    BY <1>1, RecordType
  <2> QED BY <2>1 DEF Parted
<1>3. Parted(r, s, j, a, n)
  OBVIOUS
<1>4. \A k \in DOMAIN B : k # i => C[k] = B[k]
  BY DEF OneBlock
<1>5. DOMAIN C = DOMAIN B
  BY DEF OneBlock
<1> HIDE DEF r, s
<1>6. ASSUME NEW l, l \in 1 .. Len(s), s[l].ino # 0, l # j + 1
      PROVE  /\ Old(i, l) \in 1 .. Len(r) /\ r[Old(i, l)].ino = s[l].ino /\ r[Old(i, l)].name = s[l].name
  <2>1. l \in Nat /\ l >= 1 /\ l <= Len(r) + 1
    BY <1>2, <1>6
  <2>2. CASE l < j
    <3>1. Old(i, l) = l /\ l \in 1 .. Len(r)
      BY <1>2, <2>1, <2>2
    <3> QED BY <1>3, <2>2, <3>1 DEF Parted
  <2>3. CASE l = j
    <3>1. Old(i, l) = l /\ l \in 1 .. Len(r)
      BY <1>2, <2>1, <2>3
    <3> QED BY <1>3, <2>3, <3>1 DEF Parted
  <2>4. CASE l > j
    <3>1. Old(i, l) = l - 1 /\ l - 1 \in 1 .. Len(r) /\ l - 1 > j /\ (l - 1) + 1 = l
      BY <1>2, <1>6, <2>1, <2>4
    <3>2. s[l] = r[l - 1]
      BY <1>3, <3>1 DEF Parted
    <3> QED BY <3>1, <3>2
  <2> QED BY <1>2, <2>1, <2>2, <2>3, <2>4
<1>7. ASSUME NEW l, l \in 1 .. Len(r), r[l].ino # 0
      PROVE  New(i, l) \in 1 .. Len(s) /\ s[New(i, l)].ino = r[l].ino /\ s[New(i, l)].name = r[l].name
  <2>1. l \in Nat /\ l >= 1 /\ l <= Len(r)
    BY <1>2, <1>7
  <2>2. CASE l < j
    <3>1. New(i, l) = l /\ l \in 1 .. Len(s)
      BY <1>2, <2>1, <2>2
    <3> QED BY <1>3, <1>7, <2>2, <3>1 DEF Parted
  <2>3. CASE l = j
    <3>1. New(i, l) = l /\ l \in 1 .. Len(s)
      BY <1>2, <2>1, <2>3
    <3> QED BY <1>3, <2>3, <3>1 DEF Parted
  <2>4. CASE l > j
    <3>1. New(i, l) = l + 1 /\ l + 1 \in 1 .. Len(s)
      BY <1>2, <2>1, <2>4
    <3>2. s[l + 1] = r[l]
      BY <1>3, <1>7, <2>4 DEF Parted
    <3> QED BY <3>1, <3>2
  <2> QED BY <1>2, <2>1, <2>2, <2>3, <2>4
<1>8. Here(C, i, j + 1) /\ C[i][j + 1].name = a /\ C[i][j + 1].ino = n
  <2>1. j + 1 \in 1 .. Len(s)
    BY <1>2
  <2> QED BY <1>1, <1>3, <2>1 DEF Here, Parted, s
<1>9. ASSUME NEW k, NEW l, Here(C, k, l), ~(k = i /\ l = j + 1)
      PROVE  Here(B, k, Old(k, l)) /\ B[k][Old(k, l)].ino = C[k][l].ino /\ B[k][Old(k, l)].name = C[k][l].name
  <2>1. CASE k = i
    <3>1. l \in 1 .. Len(s) /\ s[l].ino # 0 /\ l # j + 1
      BY <1>9, <2>1 DEF Here, s
    <3>2. Old(i, l) \in 1 .. Len(r) /\ r[Old(i, l)].ino = s[l].ino /\ r[Old(i, l)].name = s[l].name
      BY <1>6, <3>1
    <3> HIDE DEF Old
    <3> QED BY <1>1, <2>1, <3>1, <3>2 DEF Here, r, s
  <2>2. CASE k # i
    <3>1. Old(k, l) = l
      BY <2>2
    <3>2. k \in DOMAIN B /\ C[k] = B[k]
      BY <1>4, <1>5, <1>9, <2>2 DEF Here
    <3> HIDE DEF Old
    <3> QED BY <1>9, <3>1, <3>2 DEF Here
  <2> QED BY <2>1, <2>2
<1>10. ASSUME NEW k, NEW l, Here(B, k, l)
       PROVE  Here(C, k, New(k, l)) /\ C[k][New(k, l)].ino = B[k][l].ino /\ C[k][New(k, l)].name = B[k][l].name
  <2>1. CASE k = i
    <3>1. l \in 1 .. Len(r) /\ r[l].ino # 0
      BY <1>10, <2>1 DEF Here, r
    <3>2. New(i, l) \in 1 .. Len(s) /\ s[New(i, l)].ino = r[l].ino /\ s[New(i, l)].name = r[l].name
      BY <1>7, <3>1
    <3> HIDE DEF New
    <3> QED BY <1>1, <2>1, <3>1, <3>2 DEF Here, r, s
  <2>2. CASE k # i
    <3>1. New(k, l) = l
      BY <2>2
    <3>2. k \in DOMAIN B /\ C[k] = B[k]
      BY <1>4, <1>10, <2>2 DEF Here
    <3> HIDE DEF New
    <3> QED BY <1>5, <1>10, <3>1, <3>2 DEF Here
  <2> QED BY <2>1, <2>2
<1>11. ASSUME NEW k, NEW l, NEW p, NEW q, Here(C, k, l), Here(C, p, q), C[k][l].name = C[p][q].name
       PROVE  k = p /\ l = q
  <2>1. \A u, v : Here(B, u, v) => B[u][v].name # a
    <3>1. \A u, v : Here(B, u, v) => Has(B, B[u][v].name, B[u][v].ino)
      BY DEF Has
    <3> QED BY <3>1
  <2>2. CASE (k = i /\ l = j + 1) \/ (p = i /\ q = j + 1)
    <3> HIDE DEF Old
    <3> QED BY <1>8, <1>9, <1>11, <2>1, <2>2
  <2>3. CASE ~(k = i /\ l = j + 1) /\ ~(p = i /\ q = j + 1)
    <3>1. k = p /\ Old(k, l) = Old(p, q)
      <4> HIDE DEF Old
      <4> QED BY <1>9, <1>11, <2>3 DEF Shape
    <3>2. CASE k = i
      <4>1. l \in 1 .. Len(s) /\ q \in 1 .. Len(s)
        BY <1>11, <3>1, <3>2 DEF Here, s
      <4>2. l \in Nat /\ q \in Nat
        BY <1>2, <4>1
      <4> QED BY <1>2, <2>3, <3>1, <3>2, <4>2
    <3>3. CASE k # i
      BY <3>1, <3>3
    <3> QED BY <3>2, <3>3
  <2> QED BY <2>2, <2>3
<1> HIDE DEF Old, New
<1>12. Shape(C)
  <2>1. \A k \in DOMAIN C : BlockShape(C[k])
    BY <1>4, <1>5 DEF Shape
  <2> QED BY <1>11, <2>1 DEF Shape
<1>13. ASSUME NEW b, NEW m PROVE Has(C, b, m) <=> Has(B, b, m) \/ (b = a /\ m = n)
  <2>1. ASSUME Has(C, b, m) PROVE Has(B, b, m) \/ (b = a /\ m = n)
    <3>1. PICK k, l : Here(C, k, l) /\ C[k][l].name = b /\ C[k][l].ino = m
      BY <2>1 DEF Has
    <3>2. CASE k = i /\ l = j + 1
      BY <1>8, <3>1, <3>2
    <3>3. CASE ~(k = i /\ l = j + 1)
      <4>1. Here(B, k, Old(k, l)) /\ B[k][Old(k, l)].ino = m /\ B[k][Old(k, l)].name = b
        BY <1>9, <3>1, <3>3
      <4> QED BY <4>1 DEF Has
    <3> QED BY <3>2, <3>3
  <2>2. ASSUME Has(B, b, m) PROVE Has(C, b, m)
    <3>1. PICK k, l : Here(B, k, l) /\ B[k][l].name = b /\ B[k][l].ino = m
      BY <2>2 DEF Has
    <3>2. Here(C, k, New(k, l)) /\ C[k][New(k, l)].ino = m /\ C[k][New(k, l)].name = b
      BY <1>10, <3>1
    <3> QED BY <3>2 DEF Has
  <2>3. Has(C, a, n)
    BY <1>8 DEF Has
  <2> QED BY <2>1, <2>2, <2>3
<1> QED BY <1>12, <1>13 DEF Inserted

(* insert in a block that has room *)
LEMMA SplitData ==
  ASSUME NEW B, Shape(B), NEW C, NEW i, NEW j, OneBlock(B, C, i), j \in 1 .. Len(B[i]),
         NEW a \in AllNames, NEW n \in Inodes, n # 0, \A m : ~Has(B, a, m),
         B[i][j].len - Used(B[i][j]) >= Size(a),
         C[i] = SubSeq(B[i], 1, j - 1) \o Split(B[i][j], a, n) \o SubSeq(B[i], j + 1, Len(B[i]))
  PROVE  Inserted(B, C, a, n)
<1> DEFINE r == B[i]
           s == C[i]
<1>1. BlockShape(r) /\ j \in 1 .. Len(r) /\ r[j].len - Used(r[j]) >= Size(a)
  BY DEF Shape, OneBlock
<1>2. s = SubSeq(r, 1, j - 1) \o Split(r[j], a, n) \o SubSeq(r, j + 1, Len(r))
  BY Zenon
<1>h. i \in DOMAIN B /\ i \in DOMAIN C /\ DOMAIN C = DOMAIN B /\ \A k \in DOMAIN B : k # i => C[k] = B[k]
  BY Zenon DEF OneBlock
<1>p. ASSUME BlockShape(s), Parted(r, s, j, a, n) PROVE Inserted(B, C, a, n)
  BY <1>1, <1>p, PartData, Zenon
<1> HIDE DEF r, s
<1>3. BlockShape(s) /\ (Placed(r, s, j, a, n) \/ Parted(r, s, j, a, n))
  BY <1>1, <1>2, SplitBlock, Zenon
<1>a. ASSUME Placed(r, s, j, a, n), BlockShape(s) PROVE AddedAt(B, C, i, j, a, n)
  <2>1. \A k \in DOMAIN C : BlockShape(C[k])
    BY <1>a, <1>h, Zenon DEF Shape, s
  <2>2. /\ r[j].ino = 0 /\ Len(s) = Len(r) /\ \A k \in 1 .. Len(r) : k # j => s[k] = r[k]
        /\ s[j].ino = n /\ s[j].name = a
    BY <1>a, Zenon DEF Placed
  <2>3. Here(C, i, j) /\ C[i][j].name = a /\ C[i][j].ino = n /\ ~Here(B, i, j)
    BY <1>1, <1>h, <2>2, Zenon DEF Here, r, s
  <2>4. ASSUME NEW k, NEW l, ~(k = i /\ l = j)
        PROVE  (Here(C, k, l) <=> Here(B, k, l)) /\ (Here(B, k, l) => C[k][l] = B[k][l])
    <3>1. CASE k # i
      BY <1>h, <3>1, Zenon DEF Here
    <3>2. CASE k = i
      BY <1>h, <2>2, <2>4, <3>2, Zenon DEF Here, r, s
    <3> QED BY <3>1, <3>2
  <2> QED BY <2>1, <2>3, <2>4, Zenon DEF AddedAt
<1>4. CASE Parted(r, s, j, a, n)
  BY <1>3, <1>4, <1>p, Zenon DEF r, s
<1>5. CASE Placed(r, s, j, a, n)
  BY <1>3, <1>5, <1>a, AddData, Zenon
<1> QED BY <1>3, <1>4, <1>5

(* insert in a new block *)
LEMMA ExtendData ==
  ASSUME NEW B, Shape(B), NEW C, NEW x, x \notin DOMAIN B, DOMAIN C = DOMAIN B \cup {x},
         \A k \in DOMAIN B : C[k] = B[k], NEW a \in AllNames, NEW n \in Inodes, n # 0, \A m : ~Has(B, a, m),
         C[x] = <<Record(n, DIR_SPACE, a)>>
  PROVE  Inserted(B, C, a, n)
<1> DEFINE e == Record(n, DIR_SPACE, a)
<1>1. e \in RecordSet /\ e.ino = n /\ e.len = DIR_SPACE /\ e.name = a /\ DIR_SPACE \in Nat
  <2>1. a \in RecordNames
    BY Zenon DEF RecordNames
  <2>2. DIR_SPACE \in Nat
    BY TreeAssumption
  <2> QED BY <2>1, <2>2, RecordIs
<1> DEFINE s == <<e>>
<1> HIDE DEF e
<1>2. s \in Seq(RecordSet) /\ Len(s) = 1 /\ s[1] = e /\ DOMAIN s = {1}
  BY <1>1
<1>3. C[x] = s
  BY Zenon DEF e
<1> HIDE DEF s
<1>4. BlockShape(s)
  <2>1. SumTo(Lens(s), 0 + 1) = SumTo(Lens(s), 0) + Lens(s)[0 + 1] /\ SumTo(Lens(s), 0) = 0
    BY SumNext
  <2>2. Lens(s)[1] = DIR_SPACE
    BY <1>1, <1>2 DEF Lens
  <2>3. SumTo(Lens(s), Len(s)) = DIR_SPACE
    BY <1>1, <1>2, <2>1, <2>2
  <2>4. Used(e) <= e.len
    BY <1>1, SizeType DEF Used
  <2>5. \A j \in 1 .. Len(s) : j = 1
    BY <1>2
  <2> QED BY <1>1, <1>2, <2>3, <2>4, <2>5 DEF BlockShape
<1>5. AddedAt(B, C, x, 1, a, n)
  <2>1. \A k \in DOMAIN C : BlockShape(C[k])
    BY <1>3, <1>4 DEF Shape
  <2>2. \A l : l \in 1 .. Len(s) <=> l = 1
    BY <1>2
  <2>3. Here(C, x, 1) /\ C[x][1].name = a /\ C[x][1].ino = n /\ ~Here(B, x, 1)
    BY <1>1, <1>2, <1>3, <2>2, Zenon DEF Here
  <2>4. \A k, l : Here(B, k, l) => C[k][l] = B[k][l]
    BY Zenon DEF Here
  <2>5. ASSUME NEW k, NEW l, ~(k = x /\ l = 1) PROVE Here(C, k, l) <=> Here(B, k, l)
    <3>1. CASE k # x
      BY <3>1, Zenon DEF Here
    <3>2. CASE k = x
      BY <1>3, <2>2, <2>5, <3>2, Zenon DEF Here
    <3> QED BY <3>1, <3>2
  <2> QED BY <2>1, <2>3, <2>4, <2>5, Zenon DEF AddedAt
<1> QED BY <1>5, AddData

(* The blocks of directory d *)
DirOf(V, d) == [i \in 0 .. V.node[d].size - 1 |-> RecordsOf(V, d, i)]

(* Inodes and directories are as the engine expects them. *)
Base(V) ==
  /\ Core(V) /\ \A n \in Inodes : NodeShape(V, n)
  /\ \A d \in Inodes : V.node[d].mode = "dir" => Shape(DirOf(V, d))

LEMMA PlacesAre ==
  ASSUME NEW V, NEW d, Shape(DirOf(V, d)), NEW p
  PROVE  LET B == DirOf(V, d)
         IN  /\ p \in Places(V, d) =>
                  /\ p \in Nat \X Nat /\ p[1] \in DOMAIN B /\ p[2] \in 1 .. Len(B[p[1]])
                  /\ At(V, d, p) = B[p[1]][p[2]] /\ RecordsOf(V, d, p[1]) = B[p[1]]
             /\ \A i, j : i \in DOMAIN B /\ j \in 1 .. Len(B[i]) => <<i, j>> \in Places(V, d)
<1> DEFINE B == DirOf(V, d)
           z == V.node[d].size
<1>1. DOMAIN B = 0 .. z - 1 /\ \A i \in 0 .. z - 1 : B[i] = RecordsOf(V, d, i)
  BY DEF DirOf
<1>2. \A i \in 0 .. z - 1 : DOMAIN RecordsOf(V, d, i) = 1 .. Len(B[i])
  <2> TAKE i \in 0 .. z - 1
  <2>1. B[i] \in Seq(RecordSet)
    BY <1>1 DEF Shape, BlockShape
  <2> QED BY <1>1, <2>1
<1> HIDE DEF B
<1>3. \A q : q \in Places(V, d) <=> \E i \in 0 .. z - 1 : q \in {i} \X DOMAIN RecordsOf(V, d, i)
  BY Zenon DEF Places, RecordsOf
<1>4. ASSUME p \in Places(V, d)
      PROVE  /\ p \in Nat \X Nat /\ p[1] \in DOMAIN B /\ p[2] \in 1 .. Len(B[p[1]])
             /\ At(V, d, p) = B[p[1]][p[2]] /\ RecordsOf(V, d, p[1]) = B[p[1]]
  <2>1. PICK i \in 0 .. z - 1 : p \in {i} \X DOMAIN RecordsOf(V, d, i)
    BY <1>3, <1>4
  <2>2. PICK S : S = 1 .. Len(B[i]) /\ DOMAIN RecordsOf(V, d, i) = S
    BY <1>2
  <2>3. p \in {i} \X S
    BY <2>1, <2>2
  <2>4. p = <<p[1], p[2]>> /\ p[1] = i /\ p[2] \in S
    BY <2>3
  <2>5. i \in Nat /\ p[2] \in Nat
    BY <2>2, <2>4
  <2>6. p \in Nat \X Nat /\ p[1] \in 0 .. z - 1
    BY <2>4, <2>5
  <2>7. At(V, d, p) = RecordsOf(V, d, p[1])[p[2]]
    BY DEF At, RecordsOf
  <2> QED BY <1>1, <2>2, <2>4, <2>6, <2>7
<1>5. ASSUME NEW i, NEW j, i \in DOMAIN B, j \in 1 .. Len(B[i]) PROVE <<i, j>> \in Places(V, d)
  <2>1. i \in 0 .. z - 1 /\ j \in DOMAIN RecordsOf(V, d, i)
    BY <1>1, <1>2, <1>5
  <2>2. <<i, j>> \in {i} \X DOMAIN RecordsOf(V, d, i)
    BY <2>1
  <2> QED BY <1>3, <2>1, <2>2
<1> QED BY <1>4, <1>5 DEF B

(* The scan of a directory finds the first of the places it looks for. *)
LEMMA FirstIn == ASSUME NEW S \in SUBSET (Nat \X Nat), S # {} PROVE First(S) \in S
<1> DEFINE T == {p[1] : p \in S}
<1>1. \A p \in S : p[1] \in Nat /\ p[2] \in Nat
  OBVIOUS
<1>2. T \in SUBSET Nat /\ T # {}
  BY <1>1
<1>3. PICK x \in T : \A y \in T : x <= y
  BY <1>2, LeastNat
<1> DEFINE U == {p[2] : p \in {q \in S : q[1] = x}}
<1>4. U \in SUBSET Nat /\ U # {}
  BY <1>1, <1>3
<1>5. PICK u \in U : \A v \in U : u <= v
  BY <1>4, LeastNat
<1>6. PICK p \in S : p[1] = x /\ p[2] = u
  BY <1>5
<1>7. \A q \in S : p[1] < q[1] \/ (p[1] = q[1] /\ p[2] <= q[2])
  <2> TAKE q \in S
  <2>1. x <= q[1] /\ x \in Nat /\ q[1] \in Nat
    BY <1>1, <1>2, <1>3
  <2>2. q[1] = x => u <= q[2]
    BY <1>5
  <2> QED BY <1>6, <2>1, <2>2
<1> QED BY <1>7, Zenon DEF First

(* lookup finds the entry of the name, or there is none. *)
Found(V, d, a, m, i, j) ==
  /\ m \in Inodes /\ Here(DirOf(V, d), i, j) /\ First(Hits(V, d, a)) = <<i, j>>
  /\ DirOf(V, d)[i][j].name = a /\ DirOf(V, d)[i][j].ino = m

LEMMA LookupIs ==
  ASSUME NEW V, Base(V), NEW d \in Inodes, V.node[d].mode = "dir", NEW a
  PROVE  \/ Lookup(V, d, a) = -1 /\ \A m : ~Has(DirOf(V, d), a, m)
         \/ \E i, j : Found(V, d, a, Lookup(V, d, a), i, j)
<1> DEFINE B == DirOf(V, d)
           H == Hits(V, d, a)
<1>1. Shape(B)
  BY DEF Base
<1>2. Supported(V, d, "dir")
  BY SupportedIs DEF Base
<1>3. Lookup(V, d, a) = InodeAt(V, d, H)
  BY <1>2 DEF Lookup
<1>4. CASE H = {}
  <2>1. Lookup(V, d, a) = -1
    BY <1>3, <1>4 DEF InodeAt
  <2>2. ASSUME NEW m, Has(B, a, m) PROVE FALSE
    <3>1. PICK i, j : Here(B, i, j) /\ B[i][j].name = a
      BY <2>2 DEF Has
    <3>2. <<i, j>> \in Places(V, d)
      BY <1>1, <3>1, PlacesAre DEF Here
    <3>3. At(V, d, <<i, j>>) = B[i][j]
      BY <1>1, <3>2, PlacesAre
    <3> QED BY <1>4, <3>1, <3>2, <3>3 DEF Hits, Here
  <2> QED BY <2>1, <2>2
<1>5. CASE H # {}
  <2>1. H \in SUBSET (Nat \X Nat)
    BY <1>1, PlacesAre DEF Hits
  <2>2. First(H) \in H
    BY <1>5, <2>1, FirstIn
  <2>3. PICK p : p = First(H)
    OBVIOUS
  <2>4. p \in Places(V, d) /\ At(V, d, p).ino # 0 /\ At(V, d, p).name = a
    BY <2>2, <2>3 DEF Hits
  <2>5. /\ p \in Nat \X Nat /\ p[1] \in DOMAIN B /\ p[2] \in 1 .. Len(B[p[1]])
        /\ At(V, d, p) = B[p[1]][p[2]]
    BY <1>1, <2>4, PlacesAre
  <2>6. Here(B, p[1], p[2]) /\ B[p[1]][p[2]].name = a
    BY <2>4, <2>5 DEF Here
  <2>7. Lookup(V, d, a) = B[p[1]][p[2]].ino
    BY <1>3, <1>5, <2>3, <2>5 DEF InodeAt
  <2>8. B[p[1]][p[2]].ino \in Inodes
    <3>1. BlockShape(B[p[1]])
      BY <1>1, <2>5 DEF Shape
    <3>2. B[p[1]][p[2]].ino \in Inodes \cup {0}
      BY <2>5, <3>1, RecordType
    <3> QED BY <2>4, <2>5, <3>2
  <2>9. First(H) = <<p[1], p[2]>>
    BY <2>3, <2>5
  <2> QED BY <2>6, <2>7, <2>8, <2>9 DEF Found
<1> QED BY <1>4, <1>5

(* A directory that is not touched stays as it is. *)
LEMMA ElsewhereDir ==
  ASSUME NEW V, Base(V), NEW W, NEW n \in Inodes, Elsewhere(V, W, n), NEW m \in Inodes, m # n
  PROVE  /\ NodeShape(W, m) /\ W.node[m] = V.node[m]
         /\ V.node[m].mode = "dir" => DirOf(W, m) = DirOf(V, m)
<1>1. W.node[m] = V.node[m] /\ W.used["inode"] = V.used["inode"]
  BY DEF Elsewhere
<1>2. \A i \in Cells : Ptr(W, m, i) = Ptr(V, m, i)
  BY ElsewherePtr
<1>3. Full(W, m) = Full(V, m)
  BY <1>2 DEF Full
<1>4. NodeShape(V, m) /\ Core(V)
  BY DEF Base
<1>5. NodeShape(W, m)
  BY <1>1, <1>3, <1>4 DEF NodeShape
<1>6. ASSUME V.node[m].mode = "dir" PROVE DirOf(W, m) = DirOf(V, m)
  <2> DEFINE z == V.node[m].size
  <2>1. z \in 1 .. DIRECT /\ Full(V, m) = 0 .. z - 1
    BY <1>4, <1>6 DEF NodeShape
  <2> HIDE DEF z
  <2>2. ASSUME NEW i \in 0 .. z - 1 PROVE RecordsOf(W, m, i) = RecordsOf(V, m, i)
    <3>1. i \in Cells /\ Ptr(V, m, i) # 0
      BY <2>1 DEF Full
    <3>2. i \in 0 .. DIRECT - 1
      BY <2>1, TreeAssumption
    <3>3. Ptr(V, m, i) = V.node[m].direct[i]
      <4>1. VolumeOK(V) /\ IndirectOK(V)
        BY <1>4, CoreType
      <4> QED BY <3>2, <4>1, PtrIs
    <3> QED BY <1>1, <3>1, <3>3 DEF Elsewhere, RecordsOf
  <2>3. \A i \in 0 .. z - 1 : RecordsOf(W, m, i) = RecordsOf(V, m, i)
    BY <2>2
  <2> QED BY <1>1, <2>3, Zenon DEF DirOf, z
<1> QED BY <1>1, <1>5, <1>6

LEMMA ElsewhereBase ==
  ASSUME NEW V, Base(V), NEW W, NEW n \in Inodes, Elsewhere(V, W, n), Core(W), NodeShape(W, n),
         W.node[n].mode = "dir" => Shape(DirOf(W, n))
  PROVE  Base(W)
<1>1. ASSUME NEW m \in Inodes PROVE NodeShape(W, m) /\ (W.node[m].mode = "dir" => Shape(DirOf(W, m)))
  <2>1. CASE m = n
    BY <2>1
  <2>2. CASE m # n
    BY <2>2, ElsewhereDir DEF Base
  <2> QED BY <2>1, <2>2
<1> QED BY <1>1 DEF Base

(* The blocks of a directory *)
LEMMA DirBlocks ==
  ASSUME NEW V, Base(V), NEW d \in Inodes, V.node[d].mode = "dir"
  PROVE  /\ V.node[d].size \in 1 .. DIRECT /\ Full(V, d) = 0 .. V.node[d].size - 1
         /\ DOMAIN DirOf(V, d) = 0 .. V.node[d].size - 1
         /\ \A i \in 0 .. V.node[d].size - 1 :
              /\ i \in Slots /\ i \in Cells /\ i \in 0 .. DIRECT - 1
              /\ Ptr(V, d, i) = V.node[d].direct[i] /\ Ptr(V, d, i) # 0
              /\ DirOf(V, d)[i] = V.data[Ptr(V, d, i)]
<1>1. NodeShape(V, d) /\ Core(V)
  BY DEF Base
<1>2. V.node[d].size \in 1 .. DIRECT /\ Full(V, d) = 0 .. V.node[d].size - 1
  BY <1>1 DEF NodeShape
<1>3. DOMAIN DirOf(V, d) = 0 .. V.node[d].size - 1
  BY DEF DirOf
<1>4. ASSUME NEW i \in 0 .. V.node[d].size - 1
      PROVE  /\ i \in Slots /\ i \in Cells /\ i \in 0 .. DIRECT - 1
             /\ Ptr(V, d, i) = V.node[d].direct[i] /\ Ptr(V, d, i) # 0
             /\ DirOf(V, d)[i] = V.data[Ptr(V, d, i)]
  <2>1. i \in Slots /\ i \in Cells /\ i \in 0 .. DIRECT - 1
    BY <1>2, TreeAssumption DEF Slots, Cells
  <2>2. Ptr(V, d, i) = V.node[d].direct[i]
    <3>1. VolumeOK(V) /\ IndirectOK(V)
      BY <1>1, CoreType
    <3> QED BY <2>1, <3>1, PtrIs
  <2>3. Ptr(V, d, i) # 0
    BY <1>2 DEF Full
  <2> QED BY <2>1, <2>2, <2>3 DEF DirOf, RecordsOf
<1> QED BY <1>2, <1>3, <1>4

(* A block of a directory is written. *)
DirPutOK(V, W, d, i, Z) ==
  /\ Core(W) /\ Elsewhere(V, W, d) /\ W.ok = V.ok /\ W.hint = V.hint /\ NodeShape(W, d)
  /\ W.node[d] = V.node[d] /\ OneBlock(DirOf(V, d), DirOf(W, d), i) /\ DirOf(W, d)[i] = Z

LEMMA DirPut ==
  ASSUME NEW V, Base(V), NEW d \in Inodes, V.node[d].mode = "dir", NEW i \in DOMAIN DirOf(V, d), NEW Z,
         NEW W, W = SetRecords(V, d, i, Z)
  PROVE  DirPutOK(V, W, d, i, Z)
<1> DEFINE b == Ptr(V, d, i)
           z == V.node[d].size
<1>1. /\ DOMAIN DirOf(V, d) = 0 .. z - 1 /\ z \in 1 .. DIRECT /\ Full(V, d) = 0 .. z - 1
      /\ \A k \in 0 .. z - 1 : /\ k \in Slots /\ k \in Cells /\ Ptr(V, d, k) = V.node[d].direct[k] /\ Ptr(V, d, k) # 0
                               /\ DirOf(V, d)[k] = V.data[Ptr(V, d, k)]
  BY DirBlocks
<1>2. i \in 0 .. z - 1 /\ i \in Slots /\ b = V.node[d].direct[i] /\ b # 0
  BY <1>1
<1>3. Core(V) /\ NodeShape(V, d)
  BY DEF Base
<1> HIDE DEF b, z
<1>4. W = [V EXCEPT !.data = [V.data EXCEPT ![b] = Z]]
  BY <1>2 DEF SetRecords
<1>5. Put(V, W, b, Z)
  BY <1>4 DEF Put
<1>6. /\ Core(W) /\ Elsewhere(V, W, d) /\ W.ok = V.ok /\ W.node[d] = V.node[d]
      /\ \A j \in Cells : Ptr(W, d, j) = Ptr(V, d, j)
      /\ W.data[b] = Z /\ W.hint = V.hint
      /\ \A j \in Slots : j # i /\ Ptr(V, d, j) # 0 => W.data[Ptr(V, d, j)] = V.data[Ptr(V, d, j)]
  <2>1. b = Ptr(V, d, i)
    BY DEF b
  <2> QED BY <1>2, <1>3, <1>5, <2>1, PutBlock
<1>7. NodeShape(W, d)
  <2>1. Full(W, d) = Full(V, d)
    BY <1>6 DEF Full
  <2> QED BY <1>3, <1>6, <2>1 DEF NodeShape, Elsewhere
<1>8. DOMAIN DirOf(W, d) = 0 .. z - 1 /\ \A k \in 0 .. z - 1 : DirOf(W, d)[k] = W.data[Ptr(V, d, k)]
  <2>1. W.node[d] = V.node[d]
    BY <1>6
  <2>2. \A k \in 0 .. z - 1 : V.node[d].direct[k] = Ptr(V, d, k)
    BY <1>1
  <2> QED BY <2>1, <2>2 DEF DirOf, RecordsOf, z
<1>9. DirOf(W, d)[i] = Z
  BY <1>2, <1>6, <1>8 DEF b
<1>10. OneBlock(DirOf(V, d), DirOf(W, d), i)
  BY <1>1, <1>2, <1>6, <1>8 DEF OneBlock
<1> QED BY <1>6, <1>7, <1>9, <1>10 DEF DirPutOK

(* Further fields of an inode that has been changed *)
WithOn(A, Q, n, N, D) ==
  /\ Q.node[n] = N /\ Q.data = D /\ Q.node = [A.node EXCEPT ![n] = N]
  /\ \A M : [Q EXCEPT !.node = [Q.node EXCEPT ![n] = M]] = With(A, n, M, D)
  /\ \A E : [Q EXCEPT !.data = E] = With(A, n, N, E)

LEMMA WithNode ==
  ASSUME NEW A, VolumeOK(A), NEW n \in Inodes, NEW N \in NodeSet, NEW D, NEW Q, Q = With(A, n, N, D)
  PROVE  WithOn(A, Q, n, N, D)
<1>1. Q = [A EXCEPT !.node = [A.node EXCEPT ![n] = N], !.data = D]
  BY DEF With
<1>2. Q.node = [A.node EXCEPT ![n] = N] /\ Q.data = D
  BY <1>1 DEF VolumeOK
<1>3. Q.node[n] = N
  BY <1>2 DEF VolumeOK
<1>4. ASSUME NEW M PROVE [Q EXCEPT !.node = [Q.node EXCEPT ![n] = M]] = With(A, n, M, D)
  <2>1. [Q.node EXCEPT ![n] = M] = [A.node EXCEPT ![n] = M]
    BY <1>2 DEF VolumeOK
  <2>2. [Q EXCEPT !.node = [Q.node EXCEPT ![n] = M]] = [Q EXCEPT !.node = [A.node EXCEPT ![n] = M]]
    BY <2>1
  <2> QED BY <1>1, <2>2 DEF With, VolumeOK
<1>5. ASSUME NEW E PROVE [Q EXCEPT !.data = E] = With(A, n, N, E)
  BY <1>1 DEF With, VolumeOK
<1> QED BY <1>2, <1>3, <1>4, <1>5 DEF WithOn

(* The inode of a directory with a further block b, and that block *)
LongerNode(N, z, b) ==
  [N EXCEPT !.direct = [N.direct EXCEPT ![z] = b], !.size = z + 1, !.blocks = N.blocks + 1]
OneRecord(n, a) == <<Record(n, DIR_SPACE, a)>>

Extended(A, W, d, a, n) ==
  W = With(A, d, LongerNode(A.node[d], A.node[d].size, A.ret), [A.data EXCEPT ![A.ret] = OneRecord(n, a)])

LEMMA ExtendIs ==
  ASSUME NEW A, VolumeOK(A), A.ok = TRUE, NEW d \in Inodes, A.ret \in 0 .. BLOCKS - 1, NEW a, NEW n
  PROVE  Extended(A, Extend(A, d, a, n), d, a, n)
<1> DEFINE W == Extend(A, d, a, n)
           z == A.node[d].size
           N0 == A.node[d]
           N1 == [N0 EXCEPT !.direct = [N0.direct EXCEPT ![z] = A.ret]]
           N2 == [N1 EXCEPT !.size = z + 1]
           N3 == [N2 EXCEPT !.blocks = N0.blocks + 1]
           R == <<Record(n, DIR_SPACE, a)>>
           Q1 == [A EXCEPT !.node[d].direct[z] = A.ret]
           Q2 == [Q1 EXCEPT !.node[d].size = z + 1]
           Q3 == [Q2 EXCEPT !.node[d].blocks = N0.blocks + 1]
<1>1. W = [Q3 EXCEPT !.data[A.ret] = R]
  BY DEF Extend
<1>0. N0 \in NodeSet /\ z \in Nat /\ N0.blocks \in Int
  BY DEF VolumeOK, NodeSet
<1>2. N1 \in NodeSet
  BY <1>0 DEF NodeSet
<1>3. N2 \in NodeSet
  <2>1. z + 1 \in Nat
    <3> HIDE DEF z
    <3> QED BY <1>0
  <2> HIDE DEF N1, N0, z
  <2> QED BY <1>2, <2>1 DEF NodeSet
<1>4. Q1 = With(A, d, N1, A.data)
  <2>1. Q1 = [A EXCEPT !.node = [A.node EXCEPT ![d] = N1]]
    BY DEF VolumeOK
  <2> QED BY <2>1 DEF With, VolumeOK
<1> HIDE DEF N1, Q1
<1>5. Q2 = With(A, d, N2, A.data)
  <2>1. Q1.node[d] = N1 /\ \A M : [Q1 EXCEPT !.node = [Q1.node EXCEPT ![d] = M]] = With(A, d, M, A.data)
    <3>1. WithOn(A, Q1, d, N1, A.data)
      BY <1>2, <1>4, WithNode
    <3> QED BY <3>1 DEF WithOn
  <2>2. Q2 = [Q1 EXCEPT !.node = [Q1.node EXCEPT ![d] = [Q1.node[d] EXCEPT !.size = z + 1]]]
    OBVIOUS
  <2> QED BY <2>1, <2>2
<1> HIDE DEF N2, Q2
<1>6. Q3 = With(A, d, N3, A.data)
  <2>1. Q2.node[d] = N2 /\ \A M : [Q2 EXCEPT !.node = [Q2.node EXCEPT ![d] = M]] = With(A, d, M, A.data)
    <3>1. WithOn(A, Q2, d, N2, A.data)
      BY <1>3, <1>5, WithNode
    <3> QED BY <3>1 DEF WithOn
  <2>2. Q3 = [Q2 EXCEPT !.node = [Q2.node EXCEPT ![d] = [Q2.node[d] EXCEPT !.blocks = N0.blocks + 1]]]
    OBVIOUS
  <2> QED BY <2>1, <2>2
<1>7. N3 \in NodeSet
  <2>1. N0.blocks + 1 \in Int
    <3> HIDE DEF N0
    <3> QED BY <1>0
  <2> HIDE DEF N0
  <2> QED BY <1>3, <2>1 DEF NodeSet
<1> HIDE DEF N3, Q3, R
<1>8. W = With(A, d, N3, [A.data EXCEPT ![A.ret] = R])
  <2>1. Q3.data = A.data /\ \A E : [Q3 EXCEPT !.data = E] = With(A, d, N3, E)
    <3>1. WithOn(A, Q3, d, N3, A.data)
      BY <1>6, <1>7, WithNode
    <3> QED BY <3>1 DEF WithOn
  <2>2. W = [Q3 EXCEPT !.data = [Q3.data EXCEPT ![A.ret] = R]]
    BY <1>1
  <2> QED BY <2>1, <2>2
<1>9. N3 = LongerNode(A.node[d], z, A.ret)
  BY DEF N1, N2, N3, LongerNode
<1> QED BY <1>8, <1>9 DEF R, OneRecord, Extended

(* A name leaves directory d, or comes into it. *)
Unlisted(V, W, d, a) ==
  /\ Base(W) /\ Elsewhere(V, W, d) /\ W.ok = V.ok /\ W.hint = V.hint
  /\ \A b, m : Has(DirOf(W, d), b, m) <=> Has(DirOf(V, d), b, m) /\ b # a
Listed(V, W, d, a, n) ==
  /\ Base(W) /\ Elsewhere(V, W, d) /\ \A m : ~Has(DirOf(V, d), a, m)
  /\ \A b, m : Has(DirOf(W, d), b, m) <=> Has(DirOf(V, d), b, m) \/ (b = a /\ m = n)

LEMMA GoneIs ==
  \A len \in Nat, a \in RecordNames :
    /\ Record(0, len, a) \in RecordSet /\ Record(0, len, a).ino = 0 /\ Record(0, len, a).len = len
BY DEF Record, RecordSet

LEMMA EraseFacts ==
  ASSUME NEW V, Base(V), NEW d \in Inodes, V.node[d].mode = "dir", NEW a, NEW m, NEW i, NEW j,
         Found(V, d, a, m, i, j), NEW W, W = Erase(V, d, a)
  PROVE  Unlisted(V, W, d, a)
<1> DEFINE B == DirOf(V, d)
           C == DirOf(W, d)
           r == B[i]
           g == Record(0, r[j].len, "")
           Z == [r EXCEPT ![j] = g]
<1>1. Shape(B)
  BY DEF Base
<1>2. Here(B, i, j) /\ i \in DOMAIN B /\ j \in 1 .. Len(r) /\ B[i][j].name = a /\ First(Hits(V, d, a)) = <<i, j>>
  BY DEF Found, Here
<1>3. BlockShape(r)
  BY <1>1, <1>2 DEF Shape
<1>4. RecordsOf(V, d, i) = r
  <2>1. <<i, j>> \in Places(V, d)
    BY <1>1, <1>2, PlacesAre
  <2>2. RecordsOf(V, d, <<i, j>>[1]) = B[<<i, j>>[1]]
    BY <1>1, <2>1, PlacesAre
  <2> QED BY <2>2
<1>5. W = SetRecords(V, d, i, Z)
  <2>1. W = SetRecords(V, d, <<i, j>>[1], [RecordsOf(V, d, <<i, j>>[1]) EXCEPT ![<<i, j>>[2]] = Record(0, @.len, "")])
    BY <1>2, Zenon DEF Erase, EraseAt
  <2>2. <<i, j>>[1] = i /\ <<i, j>>[2] = j
    OBVIOUS
  <2>3. W = SetRecords(V, d, i, [RecordsOf(V, d, i) EXCEPT ![j] = Record(0, @.len, "")])
    BY <2>1, <2>2, Zenon
  <2>4. W = SetRecords(V, d, i, [r EXCEPT ![j] = Record(0, @.len, "")])
    BY <1>4, <2>3, Zenon
  <2> QED BY <2>4, Zenon
<1>6. r \in Seq(RecordSet) /\ r[j].len \in Nat /\ r[j] \in RecordSet
  BY <1>2, <1>3, RecordType DEF BlockShape
<1>7. g \in RecordSet /\ g.ino = 0 /\ g.len = r[j].len
  <2>1. "" \in RecordNames
    BY Zenon DEF RecordNames
  <2>2. PICK e \in RecordNames : e = ""
    BY <2>1, Zenon
  <2>3. PICK x : x = Record(0, r[j].len, e)
    OBVIOUS
  <2>4. x \in RecordSet /\ x.ino = 0 /\ x.len = r[j].len
    BY <1>6, <2>3, GoneIs
  <2>5. g = x
    BY <2>2, <2>3, Zenon
  <2> HIDE DEF g
  <2> QED BY <2>4, <2>5
<1> HIDE DEF g
<1>8. Z \in Seq(RecordSet) /\ Len(Z) = Len(r) /\ Z[j] = g /\ \A k \in 1 .. Len(r) : k # j => Z[k] = r[k]
  BY <1>2, <1>6, <1>7
<1> HIDE DEF Z
<1>9. DirPutOK(V, W, d, i, Z)
  BY <1>2, <1>5, DirPut
<1>10. C[i] = Z /\ OneBlock(B, C, i)
  BY <1>9 DEF DirPutOK
<1>11. Erased(B, C, i, j)
  <2>1. C[i] \in Seq(RecordSet) /\ Len(C[i]) = Len(B[i]) /\ C[i][j].ino = 0 /\ C[i][j].len = B[i][j].len
    BY <1>7, <1>8, <1>10
  <2>2. \A k \in 1 .. Len(B[i]) : k # j => C[i][k] = B[i][k]
    BY <1>8, <1>10
  <2>3. DOMAIN C = DOMAIN B /\ \A k \in DOMAIN B : k # i => C[k] = B[k]
    BY <1>10 DEF OneBlock
  <2> HIDE DEF B, C
  <2> QED BY <2>1, <2>2, <2>3 DEF Erased
<1>12. Shape(C) /\ \A b, x : Has(C, b, x) <=> Has(B, b, x) /\ b # a
  <2>1. Shape(C) /\ \A b, x : Has(C, b, x) <=> Has(B, b, x) /\ b # B[i][j].name
    BY <1>1, <1>2, <1>11, EraseData
  <2> QED BY <1>2, <2>1
<1>13. Base(W)
  BY <1>9, <1>12, ElsewhereBase DEF DirPutOK
<1> QED BY <1>9, <1>12, <1>13 DEF Unlisted, DirPutOK

LEMMA SplitAtFacts ==
  ASSUME NEW V, Base(V), NEW d \in Inodes, V.node[d].mode = "dir", NEW a \in AllNames, NEW n \in Inodes, n # 0,
         \A m : ~Has(DirOf(V, d), a, m), NEW p \in Places(V, d),
         At(V, d, p).len - Used(At(V, d, p)) >= Size(a), NEW W, W = SplitAt(V, d, p, a, n)
  PROVE  Listed(V, W, d, a, n) /\ W.ok = V.ok /\ W.hint = V.hint
<1> DEFINE B == DirOf(V, d)
           C == DirOf(W, d)
           i == p[1]
           j == p[2]
           r == B[i]
           Z == SubSeq(r, 1, j - 1) \o Split(r[j], a, n) \o SubSeq(r, j + 1, Len(r))
<1>1. Shape(B)
  BY DEF Base
<1>2. i \in DOMAIN B /\ j \in 1 .. Len(r) /\ At(V, d, p) = r[j] /\ RecordsOf(V, d, i) = r
  BY <1>1, PlacesAre
<1>3. r[j].len - Used(r[j]) >= Size(a)
  BY <1>2
<1>4. W = SetRecords(V, d, i, Z)
  <2>1. W = SetRecords(V, d, i, SubSeq(RecordsOf(V, d, i), 1, j - 1) \o Split(RecordsOf(V, d, i)[j], a, n)
                                  \o SubSeq(RecordsOf(V, d, i), j + 1, Len(RecordsOf(V, d, i))))
    BY Zenon DEF SplitAt
  <2> QED BY <1>2, <2>1, Zenon
<1> HIDE DEF Z
<1>5. DirPutOK(V, W, d, i, Z)
  BY <1>2, <1>4, DirPut
<1>6. C[i] = Z /\ OneBlock(B, C, i)
  BY <1>5 DEF DirPutOK
<1>7. Inserted(B, C, a, n)
  <2>1. C[i] = SubSeq(B[i], 1, j - 1) \o Split(B[i][j], a, n) \o SubSeq(B[i], j + 1, Len(B[i]))
    BY <1>6, Zenon DEF Z
  <2> HIDE DEF B, C, i, j
  <2>2. \A m : ~Has(B, a, m)
    BY DEF B
  <2> QED BY <1>1, <1>2, <1>3, <1>6, <2>1, <2>2, SplitData, Zenon
<1>8. Base(W)
  BY <1>5, <1>7, ElsewhereBase DEF DirPutOK, Inserted
<1> QED BY <1>5, <1>7, <1>8 DEF Listed, DirPutOK, Inserted

LEMMA ExtendFacts ==
  ASSUME NEW V, Base(V), NEW d \in Inodes, V.node[d].mode = "dir", V.node[d].size # DIRECT,
         NEW a \in AllNames, NEW n \in Inodes, n # 0, \A m : ~Has(DirOf(V, d), a, m),
         NEW W, W = Extend(Allocate(V, "block"), d, a, n)
  PROVE  VolumeOK(W) /\ (W.ok => Listed(V, W, d, a, n) /\ W.ok = V.ok)
<1> DEFINE A == Allocate(V, "block")
           z == V.node[d].size
           N0 == V.node[d]
           b == A.ret
           R == OneRecord(n, a)
           N == LongerNode(N0, z, b)
           D == [A.data EXCEPT ![b] = R]
<1>1. Core(V) /\ NodeShape(V, d)
  BY DEF Base
<1>2. VolumeOK(A) /\ (A.ok => GotBlock(V, A))
  BY <1>1, AllocateBlock
<1>3. CASE ~A.ok
  <2>1. W = A
    BY <1>3 DEF Extend
  <2> QED BY <1>2, <1>3, <2>1
<1>4. CASE A.ok
  <2>1. GotBlock(V, A)
    BY <1>2, <1>4
  <2>2. /\ A.node = V.node /\ b \in Blocks /\ b \in 0 .. BLOCKS - 1
        /\ A.data = [c \in Blocks |-> A.data[c]]
        /\ \A c \in Blocks : c # b => A.data[c] = V.data[c]
    <3>1. A.node = V.node /\ b \in Blocks /\ A.data = [V.data EXCEPT ![b] = ZeroBlock]
      BY <2>1 DEF GotBlock
    <3>2. b \in 0 .. BLOCKS - 1
      BY <3>1 DEF Blocks
    <3>3. V.data = [c \in Blocks |-> V.data[c]]
      BY <1>1, CoreType
    <3>4. A.data = [c \in Blocks |-> A.data[c]]
      BY <3>1, <3>3
    <3>5. \A c \in Blocks : c # b => A.data[c] = V.data[c]
      BY <3>1, <3>3
    <3> QED BY <3>1, <3>2, <3>4, <3>5
  <2>3. W = With(A, d, N, D)
    <3>1. z = A.node[d].size /\ N0 = A.node[d]
      BY <2>2
    <3>2. W = With(A, d, LongerNode(A.node[d], z, A.ret), [A.data EXCEPT ![A.ret] = OneRecord(n, a)])
      <4>1. VolumeOK(A) /\ A.ok = TRUE
        BY <1>2, <1>4 DEF VolumeOK
      <4>2. A.ret \in 0 .. BLOCKS - 1
        BY <2>2
      <4>3. Extended(A, Extend(A, d, a, n), d, a, n)
        BY <4>1, <4>2, ExtendIs
      <4> QED BY <3>1, <4>3 DEF Extended
    <3> QED BY <3>1, <3>2, Zenon
  <2>4. /\ z \in 1 .. DIRECT /\ Full(V, d) = 0 .. z - 1 /\ DOMAIN DirOf(V, d) = 0 .. z - 1
        /\ \A i \in 0 .. z - 1 : /\ i \in Slots /\ i \in Cells /\ i \in 0 .. DIRECT - 1
                                 /\ Ptr(V, d, i) = V.node[d].direct[i] /\ Ptr(V, d, i) # 0
                                 /\ DirOf(V, d)[i] = V.data[Ptr(V, d, i)]
    BY DirBlocks
  <2>5. z \in 1 .. DIRECT /\ z # DIRECT
    BY <2>4
  <2>6. N0 \in NodeSet
    BY <1>1, CoreType
  <2> HIDE DEF z, A
  <2>7. z \in Nat /\ z < DIRECT /\ DIRECT \in Nat /\ WORDS \in Nat \ {0} /\ z \in 0 .. DIRECT - 1
    BY <2>5, TreeAssumption
  <2>8. z \in Cells /\ z # DIRECT + WORDS /\ ~(z >= DIRECT) /\ z \in Slots
    BY <2>7 DEF Cells, Slots
  <2>9. Ptr(V, d, z) = 0
    <3>1. z \notin Full(V, d)
      BY <2>4, <2>7
    <3> QED BY <2>8, <3>1 DEF Full
  <2> HIDE DEF N0, b
  <2>10. N0.blocks + 1 \in Int /\ N0.direct \in [0 .. DIRECT - 1 -> 0 .. BLOCKS - 1]
    <3>1. N0.blocks \in Int /\ N0.direct \in [0 .. DIRECT - 1 -> 0 .. BLOCKS - 1]
      BY <2>6 DEF NodeSet
    <3> QED BY <3>1
  <2>11. /\ N \in NodeSet /\ N.mode = N0.mode /\ N.links = N0.links /\ N.blocks = N0.blocks + 1
         /\ N.direct = [N0.direct EXCEPT ![z] = b] /\ N.indirect = N0.indirect /\ N.size = z + 1
    <3>1. z + 1 \in Nat
      BY <2>7
    <3>2. [N0.direct EXCEPT ![z] = b] \in [0 .. DIRECT - 1 -> 0 .. BLOCKS - 1]
      BY <2>2, <2>10 DEF b
    <3>3. PICK F \in [0 .. DIRECT - 1 -> 0 .. BLOCKS - 1] : F = [N0.direct EXCEPT ![z] = b]
      BY <3>2
    <3>4. PICK s \in Nat : s = z + 1
      BY <3>1
    <3>5. PICK u \in Int : u = N0.blocks + 1
      BY <2>10
    <3>6. N = [N0 EXCEPT !.direct = F, !.size = s, !.blocks = u]
      BY <3>3, <3>4, <3>5 DEF LongerNode
    <3> HIDE DEF N
    <3>7. /\ N \in NodeSet /\ N.mode = N0.mode /\ N.links = N0.links /\ N.blocks = u
          /\ N.direct = F /\ N.indirect = N0.indirect /\ N.size = s
      BY <2>6, <3>6 DEF NodeSet
    <3> QED BY <3>3, <3>4, <3>5, <3>7
  <2>12. \A j \in 0 .. DIRECT - 1 : N.direct[j] = IF j = z THEN b ELSE N0.direct[j]
    BY <2>10, <2>11
  <2> HIDE DEF N, R
  <2>13. D = [c \in Blocks |-> D[c]] /\ D[b] = R /\ \A c \in Blocks : c # b => D[c] = V.data[c]
    BY <2>2 DEF b
  <2> HIDE DEF D
  <2>14. Attached(V, A, d, z, N, D)
    BY <2>7, <2>8, <2>11, <2>12, <2>13 DEF Attached, N0, b
  <2>15. /\ Core(W) /\ Elsewhere(V, W, d) /\ W.ok = V.ok /\ W.node[d] = N /\ W.data = D
         /\ \A j \in Cells : Ptr(W, d, j) = IF j = z THEN A.ret ELSE Ptr(V, d, j)
         /\ \A j \in Slots : Ptr(V, d, j) # 0 => W.data[Ptr(V, d, j)] = V.data[Ptr(V, d, j)]
    BY <1>1, <2>1, <2>3, <2>8, <2>9, <2>14, AttachCore
  <2>16. Full(W, d) = 0 .. z
    <3>1. A.ret # 0
      <4>1. A.ret \in Blocks
        BY <2>2 DEF b
      <4> QED BY <4>1 DEF Blocks
    <3>2. \A j \in Cells : j \in Full(W, d) <=> j = z \/ j \in Full(V, d)
      BY <2>15, <3>1 DEF Full
    <3>3. \A j : j \in 0 .. z <=> j = z \/ j \in 0 .. z - 1
      BY <2>7
    <3>4. 0 .. z - 1 \subseteq Cells
      BY <2>4
    <3>5. Full(W, d) \subseteq Cells
      BY DEF Full
    <3> QED BY <2>4, <2>8, <3>2, <3>3, <3>4, <3>5
  <2>17. NodeShape(W, d)
    <3>1. W.node[d].mode = "dir" /\ W.node[d].links = V.node[d].links /\ W.used["inode"] = V.used["inode"]
      BY <2>15 DEF Elsewhere
    <3>2. W.node[d].size = z + 1 /\ z + 1 \in 1 .. DIRECT /\ (z + 1) - 1 = z
      BY <2>7, <2>11, <2>15
    <3> QED BY <1>1, <2>16, <3>1, <3>2 DEF NodeShape
  <2>18. DOMAIN DirOf(W, d) = 0 .. z /\ \A i \in 0 .. z : DirOf(W, d)[i] = D[N.direct[i]]
    <3>1. W.node[d].size - 1 = z
      BY <2>7, <2>11, <2>15
    <3> QED BY <2>15, <3>1 DEF DirOf, RecordsOf
  <2>19. Inserted(DirOf(V, d), DirOf(W, d), a, n)
    <3> DEFINE B == DirOf(V, d)
               C == DirOf(W, d)
    <3>1. z \notin DOMAIN B /\ DOMAIN C = DOMAIN B \cup {z}
      <4>1. \A j : j \in 0 .. z <=> j = z \/ j \in 0 .. z - 1
        BY <2>7
      <4>2. z \notin 0 .. z - 1
        BY <2>7
      <4> QED BY <2>4, <2>18, <4>1, <4>2
    <3>2. C[z] = <<Record(n, DIR_SPACE, a)>>
      <4>1. N.direct[z] = b /\ z \in 0 .. z
        BY <2>7, <2>12
      <4> QED BY <2>13, <2>18, <4>1 DEF R, OneRecord
    <3>3. \A k \in DOMAIN B : C[k] = B[k]
      <4> SUFFICES ASSUME NEW k \in DOMAIN B PROVE C[k] = B[k]
        OBVIOUS
      <4>1. k \in 0 .. z - 1 /\ k \in 0 .. z /\ k # z
        BY <2>4, <2>7
      <4>2. N.direct[k] = N0.direct[k]
        BY <2>4, <2>12, <4>1
      <4>3. C[k] = W.data[Ptr(V, d, k)]
        BY <2>4, <2>15, <2>18, <4>1, <4>2 DEF N0
      <4> QED BY <2>4, <2>15, <4>1, <4>3
    <3>4. Shape(B) /\ \A m : ~Has(B, a, m)
      BY DEF Base
    <3> HIDE DEF B, C
    <3>5. Inserted(B, C, a, n)
      BY <3>1, <3>2, <3>3, <3>4, ExtendData, Zenon
    <3> QED BY <3>5 DEF B, C
  <2>20. Base(W)
    BY <2>15, <2>17, <2>19, ElsewhereBase DEF Inserted
  <2>21. VolumeOK(W)
    BY <2>15 DEF Core
  <2> QED BY <2>15, <2>19, <2>20, <2>21 DEF Listed, Inserted
<1> QED BY <1>3, <1>4

(* insert *)
LEMMA InsertFacts ==
  ASSUME NEW V, Base(V), V.ok = TRUE, NEW d \in Inodes, V.node[d].mode = "dir", NEW a \in AllNames, NEW n \in Inodes,
         NEW W, W = Insert(V, d, a, n)
  PROVE  VolumeOK(W) /\ (W.ok => Listed(V, W, d, a, n))
<1> DEFINE room == {p \in Places(V, d) : At(V, d, p).len - Used(At(V, d, p)) >= Size(a)}
<1>0. VolumeOK(V) /\ n # 0
  <2>1. VolumeOK(V)
    BY DEF Base, Core
  <2>2. n # 0
    BY DEF Inodes
  <2> QED BY <2>1, <2>2
<1>1. CASE Lookup(V, d, a) # -1
  <2>1. W = Failed(V)
    BY <1>1 DEF Insert
  <2> QED BY <1>0, <2>1, FailedOK
<1>2. CASE Lookup(V, d, a) = -1
  <2>1. W = InsertInto(V, d, a, n, room)
    BY <1>2 DEF Insert
  <2>2. \A m : ~Has(DirOf(V, d), a, m)
    <3>1. ASSUME NEW i, NEW j, Found(V, d, a, -1, i, j) PROVE FALSE
      BY <3>1 DEF Found, Inodes
    <3>2. ~\E i, j : Found(V, d, a, Lookup(V, d, a), i, j)
      BY <1>2, <3>1
    <3> QED BY <3>2, LookupIs
  <2>3. CASE room # {}
    <3>1. room \in SUBSET (Nat \X Nat)
      BY PlacesAre DEF Base
    <3>2. First(room) \in room
      BY <2>3, <3>1, FirstIn
    <3>3. PICK p : p = First(room)
      OBVIOUS
    <3>4. p \in Places(V, d) /\ At(V, d, p).len - Used(At(V, d, p)) >= Size(a)
      BY <3>2, <3>3
    <3>5. W = SplitAt(V, d, p, a, n)
      BY <2>1, <2>3, <3>3 DEF InsertInto
    <3>6. Listed(V, W, d, a, n)
      BY <1>0, <2>2, <3>4, <3>5, SplitAtFacts
    <3> QED BY <3>6, CoreType DEF Listed, Base, Core
  <2>4. CASE room = {} /\ V.node[d].size = DIRECT
    <3>1. W = Failed(V)
      BY <2>1, <2>4 DEF InsertInto
    <3> QED BY <1>0, <3>1, FailedOK
  <2>5. CASE room = {} /\ V.node[d].size # DIRECT
    <3>1. W = Extend(Allocate(V, "block"), d, a, n)
      BY <2>1, <2>5 DEF InsertInto
    <3> QED BY <1>0, <2>2, <2>5, <3>1, ExtendFacts
  <2> QED BY <2>3, <2>4, <2>5
<1> QED BY <1>1, <1>2

LEMMA MaxFile == MAX_FILE \in Nat
<1>1. DIRECT + WORDS \in Nat /\ WORDS \in Nat
  BY TreeAssumption
<1> QED BY <1>1, Multiples DEF MAX_FILE

-----------------------------------------------------------------------------
(* Room for an overwrite *)

FreeBlocks(V) == Blocks \ V.used["block"]

(* The free count of the superblock is the number of free blocks. *)
LEMMA FreeTotal ==
  ASSUME NEW V, Core(V)
  PROVE  IsFiniteSet(FreeBlocks(V)) /\ V.sb["block"] = Cardinality(FreeBlocks(V)) /\ V.sb["block"] \in Nat
<1> DEFINE U == V.used["block"]
           s == [g \in 1 .. GROUPS |-> V.gd[g - 1]["block"]]
           Low(k) == {b \in FreeBlocks(V) : GroupOf("block", b) < k}
<1>1. /\ \A g \in Groups : V.gd[g]["block"] = Cardinality(Candidates("block", g) \ U)
      /\ V.sb["block"] = SumTo(s, GROUPS)
  BY DEF Core, Counted, Kinds
<1>2. GROUPS \in Nat /\ Groups = 0 .. GROUPS - 1 /\ BLOCKS \in Nat
  BY GroupsAre, TreeAssumption DEF Groups
<1>3. IsFiniteSet(FreeBlocks(V))
  <2>1. IsFiniteSet(Blocks)
    BY <1>2, FS_Interval DEF Blocks
  <2> QED BY <2>1, FS_Subset DEF FreeBlocks
<1>4. \A b \in FreeBlocks(V) : b \in Blocks /\ b \notin U /\ GroupOf("block", b) \in Groups
  BY BlockGroup DEF FreeBlocks
<1>5. \A g \in Groups : \A b : b \in Candidates("block", g) \ U <=> b \in FreeBlocks(V) /\ GroupOf("block", b) = g
  BY BlockGroup, BlockOfGroup DEF FreeBlocks
<1> HIDE DEF U
<1>6. \A k \in 0 .. GROUPS : IsFiniteSet(Low(k)) /\ Cardinality(Low(k)) \in Nat
  <2> SUFFICES ASSUME NEW k \in 0 .. GROUPS PROVE IsFiniteSet(Low(k)) /\ Cardinality(Low(k)) \in Nat
    OBVIOUS
  <2>1. IsFiniteSet(Low(k))
    BY <1>3, FS_Subset
  <2> QED BY <2>1, FS_CardinalityType
<1> DEFINE Bad == {k \in 0 .. GROUPS : SumTo(s, k) # Cardinality(Low(k))}
<1>7. Bad = {}
  <2> SUFFICES ASSUME Bad # {} PROVE FALSE
    OBVIOUS
  <2>1. PICK k \in Bad : \A h \in Bad : k <= h
    <3>1. Bad \in SUBSET Nat
      BY <1>2
    <3> QED BY <3>1, LeastNat
  <2>2. k \in 0 .. GROUPS /\ SumTo(s, k) # Cardinality(Low(k))
    BY <2>1
  <2>3. k # 0
    <3>1. Low(0) = {}
      <4>1. \A b \in FreeBlocks(V) : ~(GroupOf("block", b) < 0)
        BY <1>2, <1>4
      <4> QED BY <4>1
    <3>2. SumTo(s, 0) = 0 /\ Cardinality({}) = 0
      BY SumNext, FS_EmptySet
    <3> QED BY <2>2, <3>1, <3>2, Zenon
  <2> DEFINE h == k - 1
  <2>4. h \in Nat /\ h + 1 = k /\ h \in 0 .. GROUPS /\ h \in Groups /\ ~(k <= h) /\ k \in 1 .. GROUPS
    BY <1>2, <2>2, <2>3
  <2> HIDE DEF h
  <2>5. SumTo(s, h) = Cardinality(Low(h))
    BY <2>1, <2>4
  <2> DEFINE C == Candidates("block", h) \ U
  <2>6. SumTo(s, k) = SumTo(s, h) + Cardinality(C)
    <3>1. SumTo(s, h + 1) = SumTo(s, h) + s[h + 1]
      BY <2>4, SumNext
    <3>2. s[k] = V.gd[h]["block"]
      BY <2>4 DEF h
    <3> QED BY <1>1, <2>4, <3>1, <3>2
  <2>7. Low(k) = Low(h) \cup C /\ Low(h) \cap C = {}
    <3>1. \A b \in FreeBlocks(V) : GroupOf("block", b) < k <=> GroupOf("block", b) < h \/ GroupOf("block", b) = h
      <4> SUFFICES ASSUME NEW b \in FreeBlocks(V)
                   PROVE  GroupOf("block", b) < k <=> GroupOf("block", b) < h \/ GroupOf("block", b) = h
        OBVIOUS
      <4>1. GroupOf("block", b) \in Nat
        BY <1>2, <1>4
      <4> QED BY <2>4, <4>1
    <3>2. \A b : b \in C <=> b \in FreeBlocks(V) /\ GroupOf("block", b) = h
      BY <1>5, <2>4
    <3>3. ~(h < h)
      BY <2>4
    <3> HIDE DEF C
    <3> QED BY <3>1, <3>2, <3>3
  <2>8. IsFiniteSet(C)
    BY <2>4, CandidatesAre, FS_Difference DEF Kinds
  <2> HIDE DEF C
  <2>9. Cardinality(Low(h) \cup C) = Cardinality(Low(h)) + Cardinality(C)
    <3> DEFINE L == Low(h)
    <3>1. IsFiniteSet(L) /\ L \cap C = {} /\ Cardinality(L) \in Nat
      BY <1>6, <2>4, <2>7
    <3> HIDE DEF L
    <3>2. Cardinality(L \cup C) = Cardinality(L) + Cardinality(C) - Cardinality(L \cap C)
      BY <2>8, <3>1, FS_Union
    <3>3. Cardinality(L \cap C) = 0 /\ Cardinality(C) \in Nat
      BY <2>8, <3>1, FS_EmptySet, FS_CardinalityType
    <3>4. Cardinality(L \cup C) = Cardinality(L) + Cardinality(C)
      BY <3>1, <3>2, <3>3
    <3> QED BY <3>4 DEF L
  <2> HIDE DEF Low
  <2> QED BY <2>2, <2>5, <2>6, <2>7, <2>9
<1>8. Low(GROUPS) = FreeBlocks(V)
  <2>1. \A b \in FreeBlocks(V) : GroupOf("block", b) < GROUPS
    BY <1>2, <1>4
  <2> QED BY <2>1
<1>9. SumTo(s, GROUPS) = Cardinality(FreeBlocks(V))
  <2>1. GROUPS \in 0 .. GROUPS
    BY <1>2
  <2>2. SumTo(s, GROUPS) = Cardinality(Low(GROUPS))
    BY <1>7, <2>1
  <2> QED BY <1>8, <2>2, Zenon
<1> QED BY <1>1, <1>3, <1>9, FS_CardinalityType

(* Other inodes keep their blocks: what n gives back is free. *)
LEMMA RoomKept ==
  ASSUME NEW V, Core(V), NEW W, Core(W), NEW n \in Inodes, Elsewhere(V, W, n)
  PROVE  V.sb["block"] + Cardinality(Full(V, n)) = W.sb["block"] + Cardinality(Full(W, n))
<1> DEFINE Mine(b) == \A m \in Inodes, i \in Cells : m # n => Ptr(V, m, i) # b
<1>1. ASSUME NEW X, Core(X), \A m \in Inodes, i \in Cells : m # n => Ptr(X, m, i) = Ptr(V, m, i)
      PROVE  /\ X.sb["block"] + Cardinality(Full(X, n)) = Cardinality({b \in Blocks : DataBlock(b) /\ Mine(b)})
  <2> DEFINE M == {b \in Blocks : DataBlock(b) /\ Mine(b)}
             F == FreeBlocks(X)
             H == Held(X, n)
  <2>1. IsFiniteSet(F) /\ X.sb["block"] = Cardinality(F) /\ X.sb["block"] \in Nat
    BY <1>1, FreeTotal
  <2>2. H = {Ptr(X, n, i) : i \in Full(X, n)} /\ Cardinality(H) = Cardinality(Full(X, n)) /\ IsFiniteSet(Full(X, n))
    BY <1>1, HeldIs, CellsFinite
  <2>3. IsFiniteSet(H)
    <3>1. IsFiniteSet(Blocks)
      BY TreeAssumption, FS_Interval DEF Blocks
    <3>2. H \in SUBSET Blocks
      BY <1>1, HeldIs DEF DataBlock
    <3> QED BY <3>1, <3>2, FS_Subset
  <2>4. /\ \A m \in Inodes, i \in Cells : Ptr(X, m, i) # 0 => DataBlock(Ptr(X, m, i)) /\ Ptr(X, m, i) \in X.used["block"]
        /\ \A l, m \in Inodes, i, j \in Cells : Ptr(X, l, i) = Ptr(X, m, j) /\ Ptr(X, l, i) # 0 => l = m /\ i = j
        /\ \A b \in X.used["block"] : b \in Blocks /\ (DataBlock(b) => \E m \in Inodes, i \in Cells : Ptr(X, m, i) = b)
        /\ \A b \in Blocks : ~DataBlock(b) => b \in X.used["block"]
    BY <1>1 DEF Core, Owned
  <2>5. \A b : b \in H <=> \E i \in Cells : Ptr(X, n, i) # 0 /\ b = Ptr(X, n, i)
    BY <2>2 DEF Full
  <2>6. \A b : b \in F <=> b \in Blocks /\ b \notin X.used["block"]
    BY DEF FreeBlocks
  <2>7. \A b \in Blocks : b # 0
    BY DEF Blocks
  <2> HIDE DEF F, H
  <2>8. F \cap H = {}
    BY <2>4, <2>5, <2>6
  <2>9. ASSUME NEW b \in F PROVE b \in M
    <3>1. b \in Blocks /\ DataBlock(b) /\ b # 0
      BY <2>4, <2>6, <2>7
    <3>2. ASSUME NEW m \in Inodes, NEW i \in Cells, m # n, Ptr(V, m, i) = b PROVE FALSE
      <4>1. Ptr(X, m, i) = b
        BY <1>1, <3>2
      <4> QED BY <2>4, <2>6, <3>1, <4>1
    <3> QED BY <3>1, <3>2
  <2>10. ASSUME NEW b \in H PROVE b \in M
    <3>1. PICK i \in Cells : Ptr(X, n, i) # 0 /\ b = Ptr(X, n, i)
      BY <2>5
    <3>2. b \in Blocks /\ DataBlock(b)
      BY <2>4, <3>1
    <3>3. ASSUME NEW m \in Inodes, NEW j \in Cells, m # n, Ptr(V, m, j) = b PROVE FALSE
      <4>1. Ptr(X, m, j) = b
        BY <1>1, <3>3
      <4> QED BY <2>4, <3>1, <3>3, <4>1
    <3> QED BY <3>2, <3>3
  <2>11. ASSUME NEW b \in M, b \notin F PROVE b \in H
    <3>1. b \in Blocks /\ DataBlock(b) /\ b \in X.used["block"] /\ b # 0
      BY <2>6, <2>7, <2>11
    <3>2. PICK m \in Inodes, i \in Cells : Ptr(X, m, i) = b
      BY <2>4, <3>1
    <3>3. m = n
      <4>1. CASE m # n
        <5>1. Ptr(V, m, i) = b
          BY <1>1, <3>2, <4>1
        <5> QED BY <4>1, <5>1
      <4> QED BY <4>1
    <3> QED BY <2>5, <3>1, <3>2, <3>3
  <2>12. M = F \cup H
    BY <2>9, <2>10, <2>11
  <2> HIDE DEF M
  <2>13. Cardinality(F \cup H) = Cardinality(F) + Cardinality(H) - Cardinality(F \cap H)
    BY <2>1, <2>3, FS_Union
  <2>14. Cardinality(F \cap H) = 0 /\ Cardinality(F) \in Nat /\ Cardinality(H) \in Nat
    BY <2>1, <2>3, <2>8, FS_EmptySet, FS_CardinalityType
  <2>15. Cardinality(M) = X.sb["block"] + Cardinality(Full(X, n))
    BY <2>1, <2>2, <2>12, <2>13, <2>14
  <2> QED BY <2>15 DEF M
<1>2. \A m \in Inodes, i \in Cells : m # n => Ptr(W, m, i) = Ptr(V, m, i)
  BY ElsewherePtr
<1> HIDE DEF Mine
<1>3. V.sb["block"] + Cardinality(Full(V, n)) = Cardinality({b \in Blocks : DataBlock(b) /\ Mine(b)})
  BY <1>1
<1>4. W.sb["block"] + Cardinality(Full(W, n)) = Cardinality({b \in Blocks : DataBlock(b) /\ Mine(b)})
  BY <1>1, <1>2
<1> QED BY <1>3, <1>4, Zenon

-----------------------------------------------------------------------------
(* A free block is found *)

LEMMA TakeWorks ==
  ASSUME NEW V, VolumeOK(V), NEW k \in Kinds, NEW g \in Groups, NEW n, V.sb[k] # 0, k = "block" => DataBlock(n)
  PROVE  Take(V, k, g, n).ok = V.ok
<1> DEFINE W == Take(V, k, g, n)
           N == IF k = "inode" THEN [V.node EXCEPT ![n] = ZeroNode] ELSE V.node
           D == IF k = "block" THEN [V.data EXCEPT ![n] = ZeroBlock] ELSE V.data
           U == [V.used EXCEPT ![k] = @ \cup {n}]
           S == [V.sb EXCEPT ![k] = @ - 1]
           G == [V.gd EXCEPT ![g][k] = @ - 1]
           H == [V.hint EXCEPT ![k] = g]
<1>1. W = [V EXCEPT !.used = U, !.sb = S, !.gd = G, !.hint = H, !.ret = n, !.node = N, !.data = D]
  BY DEF Take
<1> HIDE DEF N, D, U, S, G, H
<1> QED BY <1>1 DEF VolumeOK

(* Every group is a number of steps behind the hint. *)
LEMMA StepsTo ==
  ASSUME NEW q \in Groups, NEW h \in Groups
  PROVE  \E s \in Groups : (q + s) % GROUPS = h
<1>1. GROUPS \in Nat \ {0} /\ q \in Nat /\ h \in Nat /\ q < GROUPS /\ h < GROUPS
  BY GroupsAre
<1>2. CASE q <= h
  <2> DEFINE s == h - q
  <2>1. s \in Groups /\ q + s = h
    BY <1>1, <1>2 DEF Groups
  <2>2. h \div GROUPS = 0
    <3>1. 0 * GROUPS = 0 /\ 0 \in Nat
      BY <1>1
    <3>2. 0 * GROUPS <= h /\ h < 0 * GROUPS + GROUPS
      BY <1>1, <3>1
    <3> QED BY <1>1, <3>1, <3>2, DivUnique
  <2>3. h % GROUPS = h
    <3>1. h = (h \div GROUPS) * GROUPS + (h % GROUPS) /\ h % GROUPS \in 0 .. GROUPS - 1
      BY <1>1, DivFact
    <3>2. (h \div GROUPS) * GROUPS = 0
      BY <1>1, <2>2
    <3> QED BY <1>1, <3>1, <3>2
  <2> QED BY <2>1, <2>3
<1>3. CASE ~(q <= h)
  <2> DEFINE s == h - q + GROUPS
             x == h + GROUPS
  <2>1. s \in Groups /\ q + s = x /\ x \in Nat
    BY <1>1, <1>3 DEF Groups
  <2>2. x \div GROUPS = 1
    <3>1. 1 * GROUPS = GROUPS /\ 1 \in Nat
      BY <1>1
    <3>2. 1 * GROUPS <= x /\ x < 1 * GROUPS + GROUPS
      BY <1>1, <3>1
    <3> QED BY <1>1, <2>1, <3>1, <3>2, DivUnique
  <2>3. x % GROUPS = h
    <3>1. x = (x \div GROUPS) * GROUPS + (x % GROUPS) /\ x % GROUPS \in 0 .. GROUPS - 1
      BY <1>1, <2>1, DivFact
    <3>2. (x \div GROUPS) * GROUPS = GROUPS
      BY <1>1, <2>2
    <3> QED BY <1>1, <3>1, <3>2
  <2> QED BY <2>1, <2>3
<1> QED BY <1>2, <1>3

(* allocate does not fail while the superblock counts a free block. *)
LEMMA AllocateRoom ==
  ASSUME NEW V, Core(V), V.sb["block"] # 0
  PROVE  Allocate(V, "block").ok = V.ok
<1> DEFINE q == V.hint["block"]
           rich == {s \in Groups : V.gd[(q + s) % GROUPS]["block"] # 0}
           g == (q + Min(rich)) % GROUPS
           spare == Candidates("block", g) \ V.used["block"]
           n == Min(spare)
<1>1. VolumeOK(V) /\ Counted(V) /\ Owned(V) /\ "block" \in Kinds
  BY DEF Core, Kinds
<1>2. q \in Groups /\ Groups \in SUBSET Nat
  BY <1>1, GroupsAre DEF VolumeOK
<1>3. \A h \in Groups : V.gd[h]["block"] = Cardinality(Candidates("block", h) \ V.used["block"])
  BY <1>1 DEF Counted
<1>4. PICK b \in Blocks : b \notin V.used["block"]
  <2>1. FreeBlocks(V) # {}
    <3>1. V.sb["block"] = Cardinality(FreeBlocks(V))
      BY FreeTotal
    <3> QED BY <3>1, FS_EmptySet
  <2> QED BY <2>1 DEF FreeBlocks
<1>5. PICK h \in Groups : b \in Candidates("block", h)
  BY BlockGroup
<1>6. V.gd[h]["block"] # 0
  <2> DEFINE C == Candidates("block", h) \ V.used["block"]
  <2>1. IsFiniteSet(C)
    BY <1>1, CandidatesAre, FS_Difference
  <2>2. C # {}
    BY <1>4, <1>5
  <2> QED BY <1>3, <2>1, <2>2, FS_EmptySet
<1>7. rich # {}
  <2>1. PICK s \in Groups : (q + s) % GROUPS = h
    BY <1>2, StepsTo
  <2> QED BY <1>6, <2>1
<1>8. rich \in SUBSET Nat /\ rich \subseteq Groups
  <2>1. \A s \in rich : s \in Groups
    OBVIOUS
  <2> HIDE DEF rich
  <2> QED BY <1>2, <2>1
<1>9. Min(rich) \in rich
  <2> HIDE DEF rich
  <2> QED BY <1>7, <1>8, LeastIn
<1>10. V.gd[g]["block"] # 0 /\ Min(rich) \in Nat
  <2>1. \A s \in rich : V.gd[(q + s) % GROUPS]["block"] # 0
    OBVIOUS
  <2> HIDE DEF rich
  <2> QED BY <1>8, <1>9, <2>1
<1>a. Allocate(V, "block") = AllocateIn(V, "block", g)
  BY <1>7 DEF Allocate
<1> HIDE DEF rich
<1>11. g \in Groups
  <2> DEFINE x == q + Min(rich)
  <2>1. x \in Nat
    <3>1. q \in Nat
      BY <1>2
    <3> HIDE DEF q
    <3> QED BY <1>10, <3>1
  <2> HIDE DEF x
  <2>2. x % GROUPS \in 0 .. GROUPS - 1
    BY <2>1, GroupsAre
  <2> QED BY <2>2 DEF Groups, x
<1> HIDE DEF g
<1>12. spare # {}
  BY <1>3, <1>10, <1>11, FS_EmptySet
<1>13. spare \in SUBSET Nat
  BY <1>11, BlockOfGroup DEF Blocks
<1>14. n \in spare
  BY <1>12, <1>13, LeastIn
<1>15. Allocate(V, "block") = Take(V, "block", g, n)
  BY <1>a, <1>12 DEF AllocateIn, TakeFirst
<1> HIDE DEF n
<1>16. DataBlock(n)
  <2>1. n \in Blocks /\ n \notin V.used["block"]
    BY <1>11, <1>14, BlockOfGroup
  <2> QED BY <1>1, <2>1 DEF Owned
<1>17. Take(V, "block", g, n).ok = V.ok
  BY <1>1, <1>11, <1>16, TakeWorks
<1> QED BY <1>15, <1>17

LEMMA WithFlag == ASSUME NEW V, VolumeOK(V), NEW n, NEW N, NEW D PROVE With(V, n, N, D).ok = V.ok
  BY DEF With, VolumeOK

LEMMA NeedIndirectRoom ==
  ASSUME NEW V, Core(V), V.ok = TRUE, NEW n \in Inodes, NEW i,
         i < DIRECT \/ V.node[n].indirect # 0 \/ V.sb["block"] # 0
  PROVE  NeedIndirect(V, n, i).ok = TRUE
<1> DEFINE A == Allocate(V, "block")
<1>1. CASE i < DIRECT \/ V.node[n].indirect # 0
  <2>1. NeedIndirect(V, n, i) = V
    BY <1>1 DEF NeedIndirect
  <2> QED BY <2>1
<1>2. CASE ~(i < DIRECT \/ V.node[n].indirect # 0)
  <2>1. NeedIndirect(V, n, i) = AttachIndirect(A, n)
    BY <1>2 DEF NeedIndirect
  <2>2. VolumeOK(A) /\ A.ok = TRUE
    BY <1>2, AllocateBlock, AllocateRoom
  <2> HIDE DEF A
  <2>3. PICK N, D : AttachIndirect(A, n) = With(A, n, N, D)
    BY <2>2, AttachIndirectIs, Zenon
  <2>4. With(A, n, N, D).ok = TRUE
    BY <2>2, WithFlag
  <2> QED BY <2>1, <2>3, <2>4
<1> QED BY <1>1, <1>2

LEMMA NeedBlockRoom ==
  ASSUME NEW V, Core(V), V.ok = TRUE, NEW n \in Inodes, NEW i, FileBlock(V, n, i) # 0 \/ V.sb["block"] # 0
  PROVE  NeedBlock(V, n, i).ok = TRUE
<1> DEFINE A == Allocate(V, "block")
<1>1. CASE FileBlock(V, n, i) # 0
  <2>1. NeedBlock(V, n, i) = V
    BY <1>1 DEF NeedBlock
  <2> QED BY <2>1
<1>2. CASE FileBlock(V, n, i) = 0
  <2>1. NeedBlock(V, n, i) = AttachBlock(A, n, i)
    BY <1>2 DEF NeedBlock
  <2>2. VolumeOK(A) /\ A.ok = TRUE
    BY <1>2, AllocateBlock, AllocateRoom
  <2> HIDE DEF A
  <2>3. PICK N, D : AttachBlock(A, n, i) = With(A, n, N, D)
    <3>1. CASE i < DIRECT
      BY <2>2, <3>1, AttachDirectIs, Zenon
    <3>2. CASE ~(i < DIRECT)
      <4>1. PICK x : x = A.node[n].indirect
        OBVIOUS
      <4>2. AttachBlock(A, n, i) = With(A, n, [A.node[n] EXCEPT !.blocks = A.node[n].blocks + 1],
                                        [A.data EXCEPT ![x] = [A.data[x] EXCEPT ![i - DIRECT] = A.ret]])
        BY <2>2, <3>2, <4>1, AttachSlotIs, Zenon
      <4> QED BY <4>2, Zenon
    <3> QED BY <3>1, <3>2
  <2>4. With(A, n, N, D).ok = TRUE
    BY <2>2, WithFlag
  <2> QED BY <2>1, <2>3, <2>4
<1> QED BY <1>1, <1>2

(* Inode n points from cells in T only, and may get a block in each of them. *)
Fits(X, n, T) ==
  /\ Core(X) /\ Full(X, n) \subseteq T /\ T \subseteq Cells
  /\ X.sb["block"] + Cardinality(Full(X, n)) >= Cardinality(T)

LEMMA FitsOn ==
  ASSUME NEW X, NEW n \in Inodes, NEW T, Fits(X, n, T), NEW W, Core(W), Elsewhere(X, W, n),
         NEW S, S \subseteq T, Grown(X, W, n, S)
  PROVE  Fits(W, n, T)
<1>1. Full(W, n) \subseteq T
  BY DEF Fits, Full, Grown
<1>2. X.sb["block"] + Cardinality(Full(X, n)) = W.sb["block"] + Cardinality(Full(W, n))
  BY RoomKept DEF Fits
<1> QED BY <1>1, <1>2 DEF Fits

LEMMA FitsSpare ==
  ASSUME NEW X, NEW n \in Inodes, NEW T, Fits(X, n, T), NEW c \in T, Ptr(X, n, c) = 0
  PROVE  X.sb["block"] # 0
<1> DEFINE F == Full(X, n)
<1>1. IsFiniteSet(Cells) /\ T \in SUBSET Cells /\ F \in SUBSET T /\ c \notin F
  BY CellsFinite DEF Fits, Full
<1>2. X.sb["block"] \in Nat /\ X.sb["block"] + Cardinality(F) >= Cardinality(T)
  BY FreeTotal DEF Fits
<1> HIDE DEF F
<1>3. IsFiniteSet(T)
  BY <1>1, FS_Subset
<1>4. IsFiniteSet(F) /\ Cardinality(F) <= Cardinality(T) /\ Cardinality(F) # Cardinality(T)
  BY <1>1, <1>3, FS_Subset
<1>5. Cardinality(F) \in Nat /\ Cardinality(T) \in Nat
  BY <1>3, <1>4, FS_CardinalityType
<1> QED BY <1>2, <1>4, <1>5

LEMMA WriteBlockRoom ==
  ASSUME NEW V, NEW X, X.ok = TRUE, NEW n \in Inodes, NEW i \in Slots, NEW offset, NEW text, NEW first \in Nat,
         first <= i, WroteTo(V, X, n, offset, text, first, i), NEW T, Fits(X, n, T), Way(i) \subseteq T
  PROVE  LET W == WriteBlock(X, n, i, offset, text)
         IN  W.ok = TRUE /\ WroteTo(V, W, n, offset, text, first, i + 1) /\ Fits(W, n, T)
<1> DEFINE W == WriteBlock(X, n, i, offset, text)
           I == NeedIndirect(X, n, i)
           B == NeedBlock(I, n, i)
           e == DIRECT + WORDS
<1>1. Core(X) /\ i \in T /\ (~(i < DIRECT) => e \in T) /\ i # e
  BY TreeAssumption DEF Fits, Way, Slots
<1>2. i < DIRECT \/ X.node[n].indirect # 0 \/ X.sb["block"] # 0
  <2>1. ASSUME ~(i < DIRECT), X.node[n].indirect = 0 PROVE X.sb["block"] # 0
    <3>1. Ptr(X, n, e) = 0
      BY <2>1 DEF Ptr
    <3> QED BY <1>1, <2>1, <3>1, FitsSpare
  <2> QED BY <2>1
<1>3. I.ok = TRUE
  BY <1>1, <1>2, NeedIndirectRoom
<1>4. Kept(X, I, n) /\ (~(i < DIRECT) => I.node[n].indirect # 0) /\ Grown(X, I, n, Way(i))
  BY <1>1, <1>3, NeedIndirectFacts
<1>5. W = CopyChunk(B, n, i, offset, text)
  BY DEF WriteBlock
<1> HIDE DEF I
<1>6. Core(I) /\ Fits(I, n, T)
  BY <1>4, FitsOn DEF Kept
<1>7. FileBlock(I, n, i) # 0 \/ I.sb["block"] # 0
  <2>1. Ptr(I, n, i) = FileBlock(I, n, i)
    BY <1>1 DEF Ptr
  <2> QED BY <1>1, <1>6, <2>1, FitsSpare
<1>8. B.ok = TRUE
  BY <1>3, <1>6, <1>7, NeedBlockRoom
<1>9. Core(B) /\ Ptr(B, n, i) # 0 /\ Kept(I, B, n)
  BY <1>3, <1>4, <1>6, <1>8, NeedBlockFacts DEF Kept
<1> HIDE DEF B
<1>10. W.ok = TRUE /\ Elsewhere(B, W, n)
  <2> HIDE DEF W
  <2>1. Copied(B, W, n, i, offset, text)
    BY <1>5, <1>8, <1>9, CopyChunkFacts
  <2> QED BY <1>8, <2>1 DEF Copied
<1>11. WroteTo(V, W, n, offset, text, first, i + 1) /\ Grown(X, W, n, Way(i))
  BY <1>10, WriteBlockFacts
<1> HIDE DEF W
<1>12. Core(W) /\ Full(W, n) \subseteq T
  BY <1>11 DEF WroteTo, Full, Grown, Fits
<1>13. W.sb["block"] + Cardinality(Full(W, n)) = X.sb["block"] + Cardinality(Full(X, n))
  <2>1. Elsewhere(X, W, n)
    <3>1. Elsewhere(X, B, n)
      BY <1>4, <1>9, ElsewhereThen DEF Kept
    <3> QED BY <1>10, <3>1, ElsewhereThen
  <2> QED BY <1>1, <1>12, <2>1, RoomKept
<1>14. Fits(W, n, T)
  BY <1>12, <1>13 DEF Fits
<1> QED BY <1>10, <1>11, <1>14 DEF W

LEMMA PutsRoom ==
  ASSUME NEW V, Core(V), V.ok = TRUE, NEW n \in Inodes, NEW offset, NEW text, NEW first \in Nat,
         NEW e \in 0 .. DIRECT + WORDS, NEW F, Puts(F, V, n, offset, text, first, e),
         NEW T, Fits(V, n, T), \A i \in Slots : i < e => Way(i) \subseteq T
  PROVE  F[e].ok = TRUE
<1> DEFINE P(i) == F[i].ok = TRUE /\ WroteTo(V, F[i], n, offset, text, first, i) /\ Fits(F[i], n, T)
<1>0. DIRECT + WORDS \in Nat /\ e \in Nat /\ \A i \in Nat : i < DIRECT + WORDS => i \in Slots
  BY TreeAssumption DEF Slots
<1>1. \A i \in 0 .. e : F[i] = IF i <= first THEN V ELSE WriteBlock(F[i - 1], n, i - 1, offset, text)
  BY DEF Puts
<1>3. \A i \in 0 .. e : i <= first => P(i)
  <2> SUFFICES ASSUME NEW i \in 0 .. e, i <= first PROVE WroteTo(V, V, n, offset, text, first, i)
    BY <1>1
  <2>1. \A j \in Slots : ~(first <= j /\ j < i)
    BY <1>0 DEF Slots
  <2> QED BY <2>1, ElsewhereSame DEF WroteTo
<1>4. P(e)
  <2> DEFINE Bad == {i \in 0 .. e : ~P(i)}
  <2>1. SUFFICES ASSUME Bad # {} PROVE FALSE
    <3>1. e \in 0 .. e
      BY <1>0
    <3> HIDE DEF P
    <3> QED BY <3>1
  <2>2. PICK i \in Bad : \A k \in Bad : i <= k
    <3>1. Bad \in SUBSET Nat
      BY <1>0
    <3> QED BY <2>1, <3>1, LeastNat
  <2>3. ~(i <= first) /\ i \in 0 .. e
    BY <1>3, <2>2
  <2>4. i - 1 \in 0 .. e /\ ~(i <= i - 1) /\ i - 1 \in Slots /\ first <= i - 1 /\ (i - 1) + 1 = i /\ i - 1 < e
    BY <1>0, <2>3
  <2>5. P(i - 1)
    BY <2>2, <2>4
  <2> DEFINE X == F[i - 1]
             Y == WriteBlock(X, n, i - 1, offset, text)
  <2>6. F[i] = Y
    BY <1>1, <2>3
  <2>7. X.ok = TRUE /\ WroteTo(V, X, n, offset, text, first, i - 1) /\ Fits(X, n, T) /\ Way(i - 1) \subseteq T
    BY <2>4, <2>5
  <2> HIDE DEF X
  <2>8. Y.ok = TRUE /\ WroteTo(V, Y, n, offset, text, first, (i - 1) + 1) /\ Fits(Y, n, T)
    BY <2>4, <2>7, WriteBlockRoom
  <2>9. P(i)
    BY <2>4, <2>6, <2>8
  <2> QED BY <2>2, <2>9
<1> QED BY <1>4

(* The cells of a file of so many blocks without holes *)
Target(keep) == 0 .. keep - 1 \cup (IF keep > DIRECT THEN {DIRECT + WORDS} ELSE {})

LEMMA TargetIs ==
  ASSUME NEW keep \in 0 .. DIRECT + WORDS
  PROVE  /\ Target(keep) \subseteq Cells /\ Cardinality(Target(keep)) = keep + (IF keep > DIRECT THEN 1 ELSE 0)
         /\ \A i \in Slots : i < keep => Way(i) \subseteq Target(keep)
         /\ \A i \in Slots : i < keep => i \in Target(keep)
<1>1. DIRECT \in Nat /\ WORDS \in Nat /\ keep \in Nat /\ keep - 1 \in Int /\ keep <= DIRECT + WORDS
  BY TreeAssumption
<1>2. Target(keep) \subseteq Cells
  BY <1>1 DEF Target, Cells
<1>3. \A i \in Slots : i < keep => Way(i) \subseteq Target(keep) /\ i \in Target(keep)
  BY <1>1 DEF Target, Way, Slots
<1>4. IsFiniteSet(0 .. keep - 1) /\ Cardinality(0 .. keep - 1) = keep
  <2>1. IsFiniteSet(0 .. keep - 1) /\ Cardinality(0 .. keep - 1) = IF 0 > keep - 1 THEN 0 ELSE (keep - 1) - 0 + 1
    BY <1>1, FS_Interval
  <2> QED BY <1>1, <2>1
<1>5. Cardinality(Target(keep)) = keep + (IF keep > DIRECT THEN 1 ELSE 0)
  <2>1. CASE keep > DIRECT
    <3>1. DIRECT + WORDS \notin 0 .. keep - 1
      BY <1>1
    <3>2. Target(keep) = 0 .. keep - 1 \cup {DIRECT + WORDS}
      BY <2>1 DEF Target
    <3>3. Cardinality(0 .. keep - 1 \cup {DIRECT + WORDS}) = keep + 1
      BY <1>4, <3>1, FS_AddElement
    <3> QED BY <2>1, <3>2, <3>3
  <2>2. CASE ~(keep > DIRECT)
    <3>1. Target(keep) = 0 .. keep - 1
      BY <2>2 DEF Target
    <3> QED BY <1>1, <1>4, <2>2, <3>1
  <2> QED BY <2>1, <2>2
<1> QED BY <1>2, <1>3, <1>5

(* The last block of a text, as write_range and as write_file compute it *)
LEMMA KeepIs ==
  ASSUME NEW len \in Nat, len <= MAX_FILE
  PROVE  /\ (len + WORDS - 1) \div WORDS \in 0 .. DIRECT + WORDS
         /\ (len + WORDS - 1) \div WORDS = IF len = 0 THEN 0 ELSE (len - 1) \div WORDS + 1
<1> DEFINE keep == (len + WORDS - 1) \div WORDS
           last == IF len = 0 THEN 0 ELSE (len - 1) \div WORDS + 1
<1>1. WORDS \in Nat \ {0} /\ DIRECT + WORDS \in Nat
  BY TreeAssumption
<1>2. 0 \div WORDS = 0
  <2>1. 0 * WORDS = 0
    BY <1>1
  <2>2. 0 \in Nat /\ 0 * WORDS <= 0 /\ 0 < 0 * WORDS + WORDS
    BY <1>1, <2>1
  <2> QED BY <1>1, <2>2, DivUnique
<1>3. last \in 0 .. DIRECT + WORDS
  <2>1. last = IF len = 0 THEN 0 ELSE (0 + len - 1) \div WORDS + 1
    OBVIOUS
  <2>2. 0 + len <= MAX_FILE /\ 0 \in Nat
    BY MaxFile
  <2> HIDE DEF last
  <2> QED BY <1>2, <2>1, <2>2, RangeBlocks
<1>4. CASE len = 0
  <2>1. 0 * WORDS = 0
    BY <1>1
  <2>2. WORDS - 1 \in Nat /\ 0 \in Nat /\ 0 * WORDS <= WORDS - 1 /\ WORDS - 1 < 0 * WORDS + WORDS
    BY <1>1, <2>1
  <2>3. (WORDS - 1) \div WORDS = 0
    BY <1>1, <2>2, DivUnique
  <2>4. len + WORDS - 1 = WORDS - 1
    BY <1>1, <1>4
  <2> QED BY <1>3, <1>4, <2>3, <2>4
<1>5. CASE len # 0
  <2> DEFINE p == len - 1
             q == p \div WORDS
  <2>1. p \in Nat
    BY <1>5
  <2>2. q \in Nat /\ p % WORDS \in 0 .. WORDS - 1 /\ p = q * WORDS + (p % WORDS)
    BY <1>1, <2>1, DivFact
  <2>3. len + WORDS - 1 = p + WORDS
    BY <1>1
  <2> HIDE DEF p
  <2> DEFINE r == p % WORDS
  <2>4. r \in Nat /\ r < WORDS /\ p = q * WORDS + r
    BY <1>1, <2>2
  <2> HIDE DEF q, r
  <2>5. (q + 1) * WORDS = q * WORDS + WORDS /\ q * WORDS \in Nat
    BY <1>1, <2>2
  <2>6. q + 1 \in Nat /\ p + WORDS \in Nat /\ (q + 1) * WORDS <= p + WORDS /\ p + WORDS < (q + 1) * WORDS + WORDS
    <3>1. PICK y \in Nat : y = q * WORDS
      BY <2>5
    <3>2. (q + 1) * WORDS = y + WORDS /\ p = y + r
      BY <2>4, <2>5, <3>1
    <3> QED BY <1>1, <2>1, <2>2, <2>4, <3>1, <3>2
  <2>7. (p + WORDS) \div WORDS = q + 1
    BY <1>1, <2>6, DivUnique
  <2>8. keep = last
    BY <1>5, <2>3, <2>7 DEF q, p
  <2> QED BY <1>3, <2>8
<1> QED BY <1>4, <1>5

(* After the cut the file points from the cells that the text needs. *)
LEMMA TruncatedFits ==
  ASSUME NEW V, Core(V), NEW n \in Inodes, NEW keep \in 0 .. DIRECT + WORDS,
         keep + (IF keep > DIRECT THEN 1 ELSE 0) <= V.node[n].blocks
  PROVE  Fits(TruncateBlocks(V, n, keep), n, Target(keep))
<1> DEFINE T == TruncateBlocks(V, n, keep)
<1>1. keep \in Nat /\ DIRECT + WORDS \in Nat
  BY TreeAssumption
<1>2. /\ Core(T) /\ Elsewhere(V, T, n)
      /\ T.node[n].indirect = IF keep > DIRECT THEN V.node[n].indirect ELSE 0
      /\ \A j \in Slots : Ptr(T, n, j) = IF keep <= j THEN 0 ELSE Ptr(V, n, j)
  BY <1>1, TruncateFacts
<1> HIDE DEF T
<1>3. ASSUME NEW j \in Full(T, n) PROVE j \in Target(keep)
  <2>1. j \in Cells /\ Ptr(T, n, j) # 0
    BY <1>3 DEF Full
  <2>2. CASE j = DIRECT + WORDS
    <3>1. T.node[n].indirect # 0
      BY <2>1, <2>2 DEF Ptr
    <3> QED BY <1>2, <2>2, <3>1 DEF Target
  <2>3. CASE j # DIRECT + WORDS
    <3>1. j \in Slots /\ j \in Nat
      BY <1>1, <2>1, <2>3, TreeAssumption DEF Cells, Slots
    <3>2. j < keep
      BY <1>1, <1>2, <2>1, <3>1
    <3> QED BY <1>1, <3>1, <3>2 DEF Target
  <2> QED BY <2>2, <2>3
<1>4. V.sb["block"] + Cardinality(Full(V, n)) = T.sb["block"] + Cardinality(Full(T, n))
  BY <1>2, RoomKept
<1>5. V.sb["block"] \in Nat /\ V.node[n].blocks = Cardinality(Full(V, n)) /\ Cardinality(Full(V, n)) \in Nat
  BY FreeTotal, HeldIs, CellsFinite, FS_CardinalityType
<1>6. T.sb["block"] + Cardinality(Full(T, n)) >= Cardinality(Target(keep))
  BY <1>1, <1>4, <1>5, TargetIs
<1>7. Target(keep) \subseteq Cells
  BY TargetIs
<1>8. Fits(T, n, Target(keep))
  BY <1>2, <1>3, <1>6, <1>7 DEF Fits
<1> QED BY <1>8 DEF T

(* write_range at the beginning of a file whose cells are there to take *)
LEMMA WriteRangeRoom ==
  ASSUME NEW V, Core(V), V.ok = TRUE, NEW n \in Inodes, NEW S, NEW text \in Seq(S), Len(text) <= MAX_FILE,
         NEW keep, keep = (Len(text) + WORDS - 1) \div WORDS, Fits(V, n, Target(keep))
  PROVE  WriteRange(V, n, 0, text).ok = TRUE
<1> DEFINE end == 0 + Len(text)
           first == 0 \div WORDS
           last == IF text = <<>> THEN first ELSE (end - 1) \div WORDS + 1
           F == CHOOSE f : Puts(f, V, n, 0, text, first, last)
           X == F[last]
<1>1. Len(text) \in Nat /\ (text = <<>> <=> Len(text) = 0)
  OBVIOUS
<1>2. WriteRange(V, n, 0, text) = GrowTo(F[last], n, end)
  BY DEF WriteRange, Puts
<1>3. first = 0
  <2>1. WORDS \in Nat \ {0} /\ 0 * WORDS = 0
    BY TreeAssumption
  <2>2. 0 \in Nat /\ 0 * WORDS <= 0 /\ 0 < 0 * WORDS + WORDS
    BY <2>1
  <2> QED BY <2>1, <2>2, DivUnique
<1> HIDE DEF first
<1>4. last = keep /\ keep \in 0 .. DIRECT + WORDS
  <2>1. PICK len \in Nat : len = Len(text)
    BY <1>1
  <2>2. /\ keep \in 0 .. DIRECT + WORDS
        /\ keep = IF len = 0 THEN 0 ELSE (len - 1) \div WORDS + 1
    BY <2>1, KeepIs
  <2>3. end - 1 = len - 1
    BY <2>1
  <2> QED BY <1>1, <1>3, <2>1, <2>2, <2>3
<1> HIDE DEF last
<1>5. last \in Nat /\ first \in Nat /\ last \in 0 .. DIRECT + WORDS
  BY <1>3, <1>4, TreeAssumption
<1>6. Puts(F, V, n, 0, text, first, last)
  BY <1>5, PutsExist
<1> HIDE DEF F
<1>7. \A i \in Slots : i < last => Way(i) \subseteq Target(keep)
  BY <1>4, TargetIs
<1>8. X.ok = TRUE
  BY <1>5, <1>6, <1>7, PutsRoom
<1>9. VolumeOK(X)
  BY <1>5, <1>6, PutsFacts
<1> HIDE DEF X
<1>10. GrowTo(X, n, end).ok = TRUE
  BY <1>8, <1>9 DEF GrowTo, VolumeOK
<1> QED BY <1>2, <1>10 DEF X

LEMMA RewriteRoom ==
  ASSUME NEW V, Core(V), V.ok = TRUE, NEW n \in Inodes, Supported(V, n, "file"),
         NEW S, NEW text \in Seq(S), Len(text) <= MAX_FILE,
         NEW keep, keep = (Len(text) + WORDS - 1) \div WORDS,
         keep + (IF keep > DIRECT THEN 1 ELSE 0) <= V.node[n].blocks
  PROVE  Rewrite(V, n, text).ok = TRUE
<1> DEFINE W == Rewrite(V, n, text)
           T == TruncateBlocks(V, n, keep)
           R == WriteRange(T, n, 0, text)
<1>1. n > 0 /\ n \in Nat
  BY DEF Inodes
<1>2. W = CutAt(R, n, Len(text))
  BY <1>1 DEF Rewrite
<1>3. Len(text) \in Nat
  OBVIOUS
<1>4. keep \in 0 .. DIRECT + WORDS /\ keep \in Nat
  <2>1. PICK len \in Nat : len = Len(text)
    BY <1>3
  <2>2. keep \in 0 .. DIRECT + WORDS
    BY <2>1, KeepIs
  <2> QED BY <2>2
<1>5. Fits(T, n, Target(keep))
  BY <1>4, TruncatedFits
<1>6. Core(T) /\ T.ok = TRUE
  BY <1>4, TruncateFacts
<1> HIDE DEF T
<1>7. R.ok = TRUE
  BY <1>5, <1>6, WriteRangeRoom
<1>8. Core(R)
  <2>1. 0 \in Nat /\ 0 + Len(text) <= MAX_FILE
    BY <1>3
  <2> QED BY <1>6, <1>7, <2>1, WriteRangeFacts DEF Wrote
<1> HIDE DEF R, W
<1>9. Ended(R, W, n, Len(text))
  BY <1>2, <1>3, <1>7, <1>8, CutAtFacts
<1> QED BY <1>7, <1>9 DEF Ended, W
=============================================================================
