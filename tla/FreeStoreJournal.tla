----------------------------- MODULE FreeStoreJournal -----------------------------
(***************************************************************************)
(* In-place edits of 4-KB blocks: the journal that stageBlock and commit   *)
(* write, and the recovery in ensureIntegrity and applyJournal, with       *)
(* crashes between any two system calls, also during the recovery.         *)
(*                                                                         *)
(* A file has a view (what processes read) and, for each part, the         *)
(* candidates: what a machine crash may leave of it.  A write adds the new *)
(* content and "torn" to the candidates, a sync reduces them to the view.  *)
(* When only the process dies, the view stays as it is.                    *)
(*                                                                         *)
(* One process at a time holds the write lock; FreeStoreOpen models how it *)
(* gets there.  Content is a version, the number of the commit attempt     *)
(* that wrote it.  A journal counts as valid only if it has a header and   *)
(* is whole: a checksum never matches by accident.                         *)
(***************************************************************************)
EXTENDS Naturals, Functions

CONSTANTS Blocks,              \* the blocks that are edited in place
          MaxAttempts,         \* bound: commits begun
          MaxCrashes,          \* bound: crashes
          CrashMixes,          \* which kinds of crash, "process" or "machine",
                               \* one history may have: a set of sets
          UnprotectedCrashes   \* do crashes damage commits that no journal
                               \* protects?  (see Unprotected)

ASSUME BoundsAssumption == MaxAttempts \in Nat /\ MaxCrashes \in Nat
ASSUME CrashAssumption ==
  CrashMixes \subseteq SUBSET {"process", "machine"} /\ UnprotectedCrashes \in BOOLEAN

Torn    == [kind |-> "torn"]
Blank   == [kind |-> "blank"]      \* a header of zeroes
None    == [kind |-> "none"]       \* no journal file
Garbage == [kind |-> "garbage"]    \* a journal that verifyJournal rejects
NoHeader == [kind |-> "noHeader"]  \* the journal buffer before the first reset
Header(id, version) == [kind |-> "header", id |-> id, version |-> version]
Block(version) == [kind |-> "block", version |-> version]
Sealed(header, blocks) == [kind |-> "sealed", header |-> header, blocks |-> blocks]

NoBlocks == [b \in {} |-> Torn]
With(contents, b, content) ==
  [x \in DOMAIN contents \cup {b} |-> IF x = b THEN content ELSE contents[x]]
Without(contents, b) == Restrict(contents, DOMAIN contents \ {b})

VARIABLES
  header, blocks, journal,              \* the view of the store file and the journal
  headerDisk, blocksDisk, journalDisk,  \* what a machine crash may leave of them
  phase,       \* what the process that has the store open does next
  created,     \* store_.created_
  header_,     \* the transaction's header_
  buf,         \* the journal's buffer: its header and the blocks staged
  todo,        \* editedBlocks_ still to be written (or blocks of the journal
               \* still to be applied)
  attempts,    \* commits begun
  batch,       \* blocks edited by the last of them
  stable,      \* content of the last commit that nothing undoes any more: it is
               \* durable, or a crash has left it
  crashes,     \* crashes so far
  crashKinds   \* the kinds of crash in this history

fileVars == <<header, blocks, headerDisk, blocksDisk>>
journalVars == <<journal, journalDisk>>
txVars == <<created, header_, buf, todo>>
ghostVars == <<attempts, batch, stable, crashes, crashKinds>>
vars == <<fileVars, journalVars, phase, txVars, ghostVars>>

-----------------------------------------------------------------------------
(* Recovery as a function of what is in the files *)

\* ensureIntegrity applies the journal: it is valid, and it belongs to the
\* commit that the header does not have yet, or the header is invalid.
Applicable(h, j) ==
  /\ j.kind = "sealed"
  /\ h.kind = "header" => j.header.id = h.id

\* The content that opening the store will find.
Outcome(h, bs, j) ==
  IF Applicable(h, j)
  THEN [version |-> j.header.version,
        blocks  |-> [b \in Blocks |-> IF b \in DOMAIN j.blocks
                                      THEN j.blocks[b] ELSE bs[b]]]
  ELSE [version |-> IF h.kind = "header" THEN h.version ELSE 0, blocks |-> bs]

-----------------------------------------------------------------------------
\* A new file: the store is to be created.
Init ==
  /\ header = Blank /\ headerDisk = {Blank}
  /\ blocks = [b \in Blocks |-> Block(0)]
  /\ blocksDisk = [b \in Blocks |-> {Block(0)}]
  /\ journal = None /\ journalDisk = {None}
  /\ phase = "closed"
  /\ created = FALSE
  /\ header_ = Blank
  /\ buf = [header |-> NoHeader, blocks |-> NoBlocks]
  /\ todo = NoBlocks
  /\ attempts = 0
  /\ batch = {}
  /\ stable = [version |-> 0, blocks |-> [b \in Blocks |-> Block(0)]]
  /\ crashes = 0
  /\ crashKinds \in CrashMixes

WriteHeaderAs(h) ==
  /\ header' = h
  /\ headerDisk' = headerDisk \cup {h, Torn}

WriteBlockAs(b, content) ==
  /\ blocks' = [blocks EXCEPT ![b] = content]
  /\ blocksDisk' = [blocksDisk EXCEPT ![b] = @ \cup {content, Torn}]

WriteJournal(j) ==
  /\ journal' = j
  /\ journalDisk' = journalDisk \cup {j, Garbage}

\* File::syncData on the store file.
SyncFile ==
  /\ headerDisk' = {header}
  /\ blocksDisk' = [b \in Blocks |-> {blocks[b]}]
  /\ UNCHANGED <<header, blocks>>

-----------------------------------------------------------------------------
(* The transaction *)

\* begin(): the journal is opened, not reset: its buffer has no header yet.
Begin ==
  /\ phase = "opened"
  /\ phase' = "open"
  /\ header_' = header
  /\ buf' = [header |-> NoHeader, blocks |-> NoBlocks]
  /\ todo' = NoBlocks
  /\ IF ~ created /\ journal = None THEN WriteJournal(Garbage)
     ELSE UNCHANGED journalVars
  /\ UNCHANGED <<fileVars, created, ghostVars>>

\* stageBlock, followed by the caller's edit.  If the buffer is full, what is
\* in it goes to the file, over the journal of the previous commit.
StageBlock(b, full) ==
  /\ phase = "open"
  /\ ~ created
  /\ attempts < MaxAttempts
  /\ b \notin DOMAIN todo
  /\ buf' = [buf EXCEPT !.blocks = With(@, b, blocks[b])]
  /\ todo' = With(todo, b, Block(attempts + 1))
  /\ IF full THEN WriteJournal(Garbage) ELSE UNCHANGED journalVars
  /\ UNCHANGED <<fileVars, phase, created, header_, ghostVars>>

NextId == IF header_.kind = "header" THEN header_.id + 1 ELSE 1

\* commit: a new header, and (except in a new store) the journal is sealed.
Commit ==
  /\ phase = "open"
  /\ attempts < MaxAttempts
  /\ attempts' = attempts + 1
  /\ batch' = DOMAIN todo
  /\ header_' = Header(NextId, attempts + 1)
  /\ IF created
     THEN /\ phase' = "journaled"
          /\ UNCHANGED journalVars
     ELSE /\ phase' = "sealed"
          /\ WriteJournal(IF buf.header = NoHeader THEN Garbage
                          ELSE Sealed(buf.header, buf.blocks))
  /\ UNCHANGED <<fileVars, created, buf, todo, stable, crashes, crashKinds>>

\* Wrong: the blocks are overwritten before the journal is durable.
SyncJournalSkipped ==
  /\ phase = "sealed"
  /\ phase' = "journaled"
  /\ UNCHANGED <<fileVars, journalVars, txVars, ghostVars>>

\* The end of Journal::seal.
SyncJournal ==
  /\ phase = "sealed"
  /\ phase' = "journaled"
  /\ journalDisk' = {journal}
  /\ UNCHANGED <<fileVars, journal, txVars, ghostVars>>

\* The hash map's order: any.
WriteBlock(b) ==
  /\ phase = "journaled"
  /\ WriteBlockAs(b, todo[b])
  /\ todo' = Without(todo, b)
  /\ UNCHANGED <<header, headerDisk, journalVars, phase, created, header_, buf,
                 ghostVars>>

\* Wrong: what was staged for this commit stays in the buffer.
ResetJournalBlocksKept ==
  /\ phase = "journaled"
  /\ todo = NoBlocks
  /\ SyncFile
  /\ IF created THEN UNCHANGED buf
     ELSE buf' = [buf EXCEPT !.header = header_]
  /\ phase' = "synced"
  /\ UNCHANGED <<journalVars, created, header_, todo, ghostVars>>

\* Journal::reset for the next commit, with the header that is not written
\* yet, and the sync of the blocks.
ResetJournal ==
  /\ phase = "journaled"
  /\ todo = NoBlocks
  /\ SyncFile
  /\ IF created THEN UNCHANGED buf
     ELSE buf' = [header |-> header_, blocks |-> NoBlocks]
  /\ phase' = "synced"
  /\ UNCHANGED <<journalVars, created, header_, todo, ghostVars>>

WriteHeader ==
  /\ phase = "synced"
  /\ WriteHeaderAs(header_)
  /\ phase' = "headerWritten"
  /\ UNCHANGED <<blocks, blocksDisk, journalVars, txVars, ghostVars>>

SyncHeader ==
  /\ phase = "headerWritten"
  /\ SyncFile
  /\ stable' = Outcome(header, blocks, journal)
  /\ phase' = "open"
  /\ UNCHANGED <<journalVars, txVars, attempts, batch, crashes, crashKinds>>

\* std::remove may fail, and its effect is not durable.
Remove(kept) ==
  /\ journal' = IF kept THEN journal ELSE None
  /\ journalDisk' = journalDisk \cup {journal'}

\* end(): edits since the last commit are dropped.
EndTransaction(kept) ==
  /\ phase = "open"
  /\ IF created THEN UNCHANGED journalVars ELSE Remove(kept)
  /\ phase' = IF created THEN "closed" ELSE "opened"
  /\ created' = FALSE
  /\ header_' = Blank
  /\ buf' = [header |-> NoHeader, blocks |-> NoBlocks]
  /\ todo' = NoBlocks
  /\ UNCHANGED <<fileVars, ghostVars>>

Close ==
  /\ phase = "opened" /\ ~ created
  /\ phase' = "closed"
  /\ UNCHANGED <<fileVars, journalVars, txVars, ghostVars>>

-----------------------------------------------------------------------------
(* open() and ensureIntegrity, in a process that has the write lock *)

\* There is no journal.
OpenClean ==
  /\ phase = "closed"
  /\ journal = None
  /\ phase' = IF header = Torn THEN "rejected" ELSE "opened"
  /\ created' = (header = Blank)
  /\ UNCHANGED <<fileVars, journalVars, header_, buf, todo, ghostVars>>

\* There is one, but it is not applied.
OpenIgnoring(kept) ==
  /\ phase = "closed"
  /\ journal # None
  /\ ~ Applicable(header, journal)
  /\ Remove(kept)
  /\ phase' = IF header.kind = "header" THEN "opened" ELSE "damaged"
  /\ UNCHANGED <<fileVars, txVars, ghostVars>>

\* Wrong: whether the journal belongs to the header is not checked.
OpenApplyingAny ==
  /\ phase = "closed"
  /\ journal.kind = "sealed"
  /\ phase' = "applying"
  /\ todo' = journal.blocks
  /\ UNCHANGED <<fileVars, journalVars, created, header_, buf, ghostVars>>

OpenApplying ==
  /\ phase = "closed"
  /\ Applicable(header, journal)
  /\ phase' = "applying"
  /\ todo' = journal.blocks
  /\ UNCHANGED <<fileVars, journalVars, created, header_, buf, ghostVars>>

ApplyBlock(b) ==
  /\ phase = "applying"
  /\ WriteBlockAs(b, todo[b])
  /\ todo' = Without(todo, b)
  /\ UNCHANGED <<header, headerDisk, journalVars, phase, created, header_, buf,
                 ghostVars>>

\* Wrong: the header is written in the same sync phase as the blocks.
ApplySyncSkipped ==
  /\ phase = "applying"
  /\ todo = NoBlocks
  /\ phase' = "applied"
  /\ UNCHANGED <<fileVars, journalVars, txVars, ghostVars>>

ApplySync ==
  /\ phase = "applying"
  /\ todo = NoBlocks
  /\ SyncFile
  /\ phase' = "applied"
  /\ UNCHANGED <<journalVars, txVars, ghostVars>>

\* Wrong: the header gets the commit ID that it had.
ApplyHeaderSameId ==
  /\ phase = "applied"
  /\ WriteHeaderAs(journal.header)
  /\ phase' = "appliedHeader"
  /\ UNCHANGED <<blocks, blocksDisk, journalVars, txVars, ghostVars>>

\* With the next commit ID, so that the journal is not applied again if it
\* cannot be deleted.
ApplyHeader ==
  /\ phase = "applied"
  /\ WriteHeaderAs(Header(journal.header.id + 1, journal.header.version))
  /\ phase' = "appliedHeader"
  /\ UNCHANGED <<blocks, blocksDisk, journalVars, txVars, ghostVars>>

\* The last sync, the removal of the journal; open() starts over.
ApplyDone(kept) ==
  /\ phase = "appliedHeader"
  /\ SyncFile
  /\ Remove(kept)
  /\ phase' = "closed"
  /\ UNCHANGED <<txVars, ghostVars>>

-----------------------------------------------------------------------------
\* The first commit of a transaction is under way, whose journal has no header,
\* or any commit of a new store, which has no journal.
Unprotected ==
  /\ phase \in {"journaled", "synced", "headerWritten"}
  /\ journal \in {None, Garbage}

Crash ==
  /\ crashes < MaxCrashes
  /\ crashes' = crashes + 1
  /\ phase \notin {"rejected", "damaged"}
  /\ phase' = "closed"
  /\ created' = FALSE
  /\ header_' = Blank
  /\ buf' = [header |-> NoHeader, blocks |-> NoBlocks]
  /\ todo' = NoBlocks
  /\ UNCHANGED <<attempts, batch, crashKinds>>
  /\ \/ /\ "process" \in crashKinds
        /\ UNCHANGED <<fileVars, journalVars>>
     \/ /\ "machine" \in crashKinds
        /\ header' \in headerDisk
        /\ \E left \in [Blocks -> UNION Range(blocksDisk)] :
             /\ \A b \in Blocks : left[b] \in blocksDisk[b]
             /\ blocks' = left
        /\ journal' \in journalDisk
        /\ headerDisk' = {header'}
        /\ blocksDisk' = [b \in Blocks |-> {blocks'[b]}]
        /\ journalDisk' = {journal'}
  /\ stable' = Outcome(header', blocks', journal')
  /\ Unprotected =>
       \/ UnprotectedCrashes
       \/ batch = {} /\ (header' = Torn => stable.version = 0)

\* A new store whose header is torn, or one that was opened with a torn header.
Stuck ==
  /\ phase \in {"rejected", "damaged"}
  /\ UNCHANGED vars

Open ==
  \/ OpenClean \/ OpenApplying \/ ApplySync \/ ApplyHeader
  \/ \E kept \in BOOLEAN : OpenIgnoring(kept) \/ ApplyDone(kept)
  \/ \E b \in DOMAIN todo : ApplyBlock(b)

Transact ==
  \/ Begin \/ Commit \/ SyncJournal \/ ResetJournal \/ WriteHeader \/ SyncHeader
  \/ \E b \in Blocks, full \in BOOLEAN : StageBlock(b, full)
  \/ \E b \in DOMAIN todo : WriteBlock(b)
  \/ \E kept \in BOOLEAN : EndTransaction(kept)
  \/ Close

Next == Open \/ Transact \/ Crash \/ Stuck

\* A process that opens the store goes on until the store is open.
Spec == Init /\ [][Next]_vars /\ WF_vars(Open)
-----------------------------------------------------------------------------
Versions == 0 .. MaxAttempts
ValidHeader == [kind : {"header"}, id : Nat \ {0}, version : Versions \ {0}]
ValidBlock == [kind : {"block"}, version : Versions]

\* Also: while a transaction is open the journal's buffer has just the blocks
\* that are staged, so that each block is journaled once per commit.
TypeOK ==
  /\ header \in ValidHeader \cup {Blank, Torn}
  /\ header \in headerDisk /\ headerDisk \subseteq ValidHeader \cup {Blank, Torn}
  /\ \A b \in Blocks :
       /\ blocks[b] \in blocksDisk[b]
       /\ blocksDisk[b] \subseteq ValidBlock \cup {Torn}
  /\ journal \in journalDisk
  /\ phase \in {"closed", "opened", "open", "sealed", "journaled", "synced",
                "headerWritten", "applying", "applied", "appliedHeader",
                "rejected", "damaged"}
  /\ header_ \in ValidHeader \cup {Blank}
  /\ DOMAIN todo \subseteq Blocks /\ Range(todo) \subseteq ValidBlock
  /\ phase = "open" => DOMAIN todo = DOMAIN buf.blocks

\* Once a store is open, the last commit that was begun is there as a whole,
\* its header and every block it edited, or not at all.
AllOrNothing ==
  phase = "opened" /\ header.kind = "header" =>
    LET done == header.version = attempts
    IN  \A b \in Blocks :
          /\ blocks[b] # Torn
          /\ b \in batch => (done <=> blocks[b] = Block(attempts))

\* A store that open() accepts has a valid header (FreeStore.h:128: result 0
\* means that no journaling is needed).
AcceptedHeaderValid == phase # "damaged"

\* What opening the store would find; while blocks are overwritten that no
\* journal protects (and no crash is considered), what it found before.
Content ==
  IF Unprotected /\ phase # "headerWritten" THEN stable
  ELSE Outcome(header, blocks, journal)

\* The journal, the sync phases and the recovery make commits atomic: what
\* opening the store finds changes from commit to commit only.
Atomic ==
  INSTANCE AtomicStore WITH
    current <- Content,
    Contents <- [version : Versions, blocks : [Blocks -> ValidBlock \cup {Torn}]],
    Initial <- [version |-> 0, blocks |-> [b \in Blocks |-> Block(0)]]

ImplementsAtomicStore == Atomic!Spec

\* Opening a store ends, even if the journal can never be deleted: it is not
\* applied over and over.
OpeningEnds == phase = "closed" ~> phase \in {"opened", "rejected", "damaged"}

\* Both: opening applies the journal or not as an atomic commit would, and ends.
RecoveryCorrect == ImplementsAtomicStore /\ OpeningEnds
=============================================================================
