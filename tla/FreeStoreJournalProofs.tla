------------------------- MODULE FreeStoreJournalProofs -------------------------
(***************************************************************************)
(* The journal makes commits atomic, for every set of blocks and any       *)
(* number of commits and crashes.  Excluded are the crashes that the       *)
(* journal does not protect against: during the first commit of a          *)
(* transaction that edits blocks in place, and machine crashes in a        *)
(* history in which a process has died as well.                            *)
(*                                                                         *)
(* Inv says, for each phase, what a crash may find in the files: the       *)
(* content of the last commit, either there or restored by the journal,    *)
(* and, while the header is being written, the content of the next.        *)
(***************************************************************************)
EXTENDS FreeStoreJournal, TLAPS

-----------------------------------------------------------------------------
(* What a crash may find *)

Headers == IF "machine" \in crashKinds THEN headerDisk ELSE {header}
Held(b) == IF "machine" \in crashKinds THEN blocksDisk[b] ELSE {blocks[b]}
Journals == IF "machine" \in crashKinds THEN journalDisk ELSE {journal}

VersionOf(h) == IF h.kind = "header" THEN h.version ELSE 0

\* A journal whose application restores the last commit.
Restores(j) ==
  /\ j.kind = "sealed"
  /\ j.header \in ValidHeader /\ j.header.version = stable.version
  /\ DOMAIN j.blocks \subseteq Blocks
  /\ \A b \in DOMAIN j.blocks : j.blocks[b] = stable.blocks[b]

NoneApplies == \A j \in Journals : ~ Applicable(header, j)

\* The blocks are those of the last commit.
BlocksSettled == blocks = stable.blocks /\ \A b \in Blocks : Held(b) = {blocks[b]}
HeaderSettled == Headers = {header} /\ VersionOf(header) = stable.version
Settled == HeaderSettled /\ BlocksSettled

\* What the commit under way leads to.
New ==
  [version |-> attempts,
   blocks  |-> [b \in Blocks |-> IF b \in batch THEN Block(attempts) ELSE stable.blocks[b]]]

-----------------------------------------------------------------------------
(* The inductive invariant *)

InFlight == {"sealed", "journaled", "synced", "headerWritten"}

FilesTyped ==
  /\ crashKinds \in {{"process"}, {"machine"}}
  /\ header \in ValidHeader \cup {Blank, Torn}
  /\ header \in headerDisk /\ headerDisk \subseteq ValidHeader \cup {Blank, Torn}
  /\ blocks \in [Blocks -> ValidBlock \cup {Torn}]
  /\ blocksDisk \in [Blocks -> SUBSET (ValidBlock \cup {Torn})]
  /\ \A b \in Blocks : blocks[b] \in blocksDisk[b]
  /\ journal \in journalDisk
  /\ attempts \in 0 .. MaxAttempts
  /\ batch \subseteq Blocks
  /\ created \in BOOLEAN

\* The last commit, and the one under way.
StableInv ==
  /\ stable \in [version : Versions, blocks : [Blocks -> ValidBlock]]
  /\ stable.version =< attempts
  /\ \A b \in Blocks : stable.blocks[b].version =< attempts
  /\ IF phase \in InFlight
     THEN stable.version < attempts /\ \A b \in Blocks : stable.blocks[b].version < attempts
     ELSE \A b \in batch : stable.version = attempts <=> stable.blocks[b].version = attempts

ClosedInv ==
  /\ created = FALSE /\ header_ = Blank /\ todo = NoBlocks
  /\ Headers = {header} /\ \A b \in Blocks : Held(b) = {blocks[b]}
  /\ header = Blank => Journals = {None}
  /\ \/ /\ Applicable(header, journal) /\ Journals = {journal} /\ Restores(journal)
        /\ \A b \in Blocks : b \notin DOMAIN journal.blocks => blocks[b] = stable.blocks[b]
     \/ /\ NoneApplies /\ Settled
        /\ header = Torn => Journals = {None}

\* A store with a header, or one that is being created.
OpenedInv ==
  /\ Settled /\ NoneApplies
  /\ IF created THEN header # Torn /\ Journals = {None} ELSE header.kind = "header"

\* What is staged: the blocks as they were and as they are to be.
Staged(version) ==
  /\ DOMAIN todo \subseteq Blocks /\ DOMAIN buf.blocks = DOMAIN todo
  /\ \A b \in DOMAIN todo : /\ version \in Versions
                            /\ todo[b] = Block(version) /\ buf.blocks[b] = stable.blocks[b]

BufferOf(h) ==
  IF created THEN buf = [header |-> NoHeader, blocks |-> NoBlocks]
  ELSE buf = [header |-> h, blocks |-> NoBlocks]

OpenInv ==
  /\ OpenedInv /\ Staged(attempts + 1)
  /\ header_ = header
  /\ buf = [header |-> buf.header, blocks |-> buf.blocks]
  /\ buf.header \in {NoHeader, header}
  /\ created => buf = [header |-> NoHeader, blocks |-> NoBlocks]

NextHeader == header_ = Header(IF header.kind = "header" THEN header.id + 1 ELSE 1, attempts)

SealedInv ==
  /\ ~ created /\ header.kind = "header" /\ NextHeader
  /\ Settled
  /\ DOMAIN todo = batch /\ Staged(attempts)
  /\ journal \in {Garbage, Sealed(header, buf.blocks)}
  /\ \A j \in Journals : Applicable(header, j) => j = Sealed(header, buf.blocks)

\* The journal of the commit under way; h is the header before it.
Protects(h) ==
  /\ Journals = {journal}
  /\ IF created THEN journal = None /\ batch = {} /\ h # Torn
     ELSE /\ h.kind = "header"
          /\ \/ journal = Garbage
             \/ Restores(journal) /\ journal.header = h /\ DOMAIN journal.blocks = batch

JournaledInv ==
  /\ NextHeader /\ HeaderSettled /\ Protects(header)
  /\ created => buf = [header |-> NoHeader, blocks |-> NoBlocks]
  /\ DOMAIN todo \subseteq batch
  /\ \A b \in DOMAIN todo : todo[b] = Block(attempts)
  /\ \A b \in Blocks :
       /\ b \notin batch => Held(b) = {stable.blocks[b]}
       /\ blocks[b] = IF b \in batch /\ b \notin DOMAIN todo THEN Block(attempts)
                      ELSE stable.blocks[b]

Overwritten == blocks = New.blocks /\ \A b \in Blocks : Held(b) = {blocks[b]}

SyncedInv ==
  /\ NextHeader /\ HeaderSettled /\ Protects(header)
  /\ Overwritten /\ todo = NoBlocks /\ BufferOf(header_)

HeaderWrittenInv ==
  /\ header = header_ /\ header.kind = "header" /\ header.version = attempts
  /\ Overwritten /\ todo = NoBlocks /\ BufferOf(header_)
  /\ \E old \in headerDisk \ {Torn} :
       /\ Headers \subseteq {old, header, Torn}
       /\ VersionOf(old) = stable.version
       /\ old.kind = "header" => header.id = old.id + 1
       /\ Protects(old)

\* The journal is being applied.
Applies ==
  /\ created = FALSE /\ header_ = Blank
  /\ Journals = {journal} /\ Restores(journal)

ApplyingInv ==
  /\ Applies /\ Applicable(header, journal) /\ header # Blank /\ Headers = {header}
  /\ DOMAIN todo \subseteq DOMAIN journal.blocks
  /\ \A b \in DOMAIN todo : todo[b] = journal.blocks[b]
  /\ \A b \in Blocks :
       /\ b \notin DOMAIN journal.blocks => Held(b) = {stable.blocks[b]}
       /\ b \notin DOMAIN todo => blocks[b] = stable.blocks[b]

AppliedInv ==
  /\ Applies /\ Applicable(header, journal) /\ header # Blank /\ Headers = {header}
  /\ BlocksSettled /\ todo = NoBlocks

AppliedHeaderInv ==
  /\ Applies /\ BlocksSettled /\ todo = NoBlocks
  /\ header = Header(journal.header.id + 1, journal.header.version)
  /\ \A h \in Headers : h # Blank /\ (h = header \/ Applicable(h, journal))

RejectedInv == Settled /\ journal = None /\ todo = NoBlocks /\ header_ = Blank

PhaseInv ==
  CASE phase = "closed" -> ClosedInv
    [] phase = "opened" -> OpenedInv /\ todo = NoBlocks /\ header_ = Blank
    [] phase = "open" -> OpenInv
    [] phase = "sealed" -> SealedInv
    [] phase = "journaled" -> JournaledInv
    [] phase = "synced" -> SyncedInv
    [] phase = "headerWritten" -> HeaderWrittenInv
    [] phase = "applying" -> ApplyingInv
    [] phase = "applied" -> AppliedInv
    [] phase = "appliedHeader" -> AppliedHeaderInv
    [] phase = "rejected" -> RejectedInv
    [] OTHER -> FALSE

Inv == FilesTyped /\ StableInv /\ PhaseInv

-----------------------------------------------------------------------------
(* Headers, blocks and journals as values *)

\* What distinguishes the kinds of header, block and journal.
LEMMA Kinds ==
  /\ \A id, v : /\ Header(id, v).kind = "header"
                /\ Header(id, v).id = id /\ Header(id, v).version = v
                /\ Header(id, v) \notin {Blank, Torn, NoHeader}
  /\ \A h \in ValidHeader : /\ h.kind = "header" /\ h.id \in Nat \ {0}
                            /\ h.version \in Versions \ {0} /\ h \notin {Blank, Torn, NoHeader}
  /\ Blank.kind # "header" /\ Torn.kind # "header" /\ Blank # Torn
  /\ \A h, bs : /\ Sealed(h, bs).kind = "sealed"
                /\ Sealed(h, bs).header = h /\ Sealed(h, bs).blocks = bs
                /\ Sealed(h, bs) \notin {None, Garbage}
  /\ None.kind # "sealed" /\ Garbage.kind # "sealed" /\ None # Garbage
  /\ \A v \in Versions : Block(v) \in ValidBlock
  /\ \A v : Block(v).version = v /\ Block(v) # Torn
  /\ \A c \in ValidBlock : c = Block(c.version) /\ c # Torn /\ c.version \in Versions
  /\ Torn \notin ValidBlock
<1>1. \A v : Block(v).version = v /\ Block(v) # Torn
  BY DEF Block, Torn
<1>2. \A c \in ValidBlock : c = Block(c.version) /\ c.version \in Versions
  BY DEF ValidBlock, Block
<1>. QED
  BY <1>1, <1>2 DEF Header, Blank, Torn, NoHeader, ValidHeader, Sealed, None, Garbage, Block, ValidBlock

\* Where a journal does not apply, opening finds what is in the file.
LEMMA Outcomes ==
  ASSUME NEW h, NEW bs \in [Blocks -> ValidBlock \cup {Torn}], NEW j
  PROVE  /\ ~ Applicable(h, j) => Outcome(h, bs, j) = [version |-> VersionOf(h), blocks |-> bs]
         /\ Applicable(h, j) =>
              Outcome(h, bs, j) =
                [version |-> j.header.version,
                 blocks  |-> [b \in Blocks |-> IF b \in DOMAIN j.blocks THEN j.blocks[b] ELSE bs[b]]]
  BY DEF Outcome, VersionOf

\* A journal that restores the last commit does so whatever is in the blocks
\* it has.
LEMMA Restored ==
  ASSUME NEW h, NEW bs \in [Blocks -> ValidBlock \cup {Torn}], NEW j, Inv,
         Applicable(h, j), Restores(j),
         \A b \in Blocks : b \notin DOMAIN j.blocks => bs[b] = stable.blocks[b]
  PROVE  Outcome(h, bs, j) = stable
<1>1. stable \in [version : Versions, blocks : [Blocks -> ValidBlock]]
  BY DEF Inv, StableInv
<1>. DEFINE found == [b \in Blocks |-> IF b \in DOMAIN j.blocks THEN j.blocks[b] ELSE bs[b]]
<1>2. found = stable.blocks
  BY <1>1 DEF Restores
<1>3. j.header.version = stable.version
  BY DEF Restores
<1>4. Outcome(h, bs, j) = [version |-> j.header.version, blocks |-> found]
  BY DEF Outcome
<1>5. Outcome(h, bs, j) = [version |-> stable.version, blocks |-> stable.blocks]
  BY <1>2, <1>3, <1>4, Zenon
<1>. QED BY <1>1, <1>5

\* The next commit is not the last one.
LEMMA NewTyped ==
  ASSUME Inv, phase \in InFlight
  PROVE  /\ New \in [version : Versions, blocks : [Blocks -> ValidBlock]]
         /\ attempts > 0
         /\ \A b \in Blocks : New.blocks[b].version =< attempts
         /\ \A b \in batch : New.blocks[b].version = attempts
<1>1. attempts \in 0 .. MaxAttempts /\ stable.version \in Versions /\ stable.version < attempts
  BY DEF Inv, FilesTyped, StableInv
<1>2. attempts \in Versions /\ attempts > 0
  BY <1>1, BoundsAssumption DEF Versions
<1>3. Block(attempts) \in ValidBlock /\ Block(attempts).version = attempts
  BY <1>2, Kinds
<1>. QED BY <1>1, <1>2, <1>3 DEF New, Inv, StableInv, FilesTyped

-----------------------------------------------------------------------------
(* What writes and syncs do to the files *)

\* Without a write or a sync a crash finds the same in the store file.
LEMMA FilesKept ==
  ASSUME FilesTyped, UNCHANGED <<fileVars, crashKinds>>
  PROVE  Headers' = Headers /\ \A b : Held(b)' = Held(b)
  BY DEF fileVars, Headers, Held

\* The same for the journal.
LEMMA JournalKept ==
  ASSUME UNCHANGED <<journalVars, crashKinds>>
  PROVE  Journals' = Journals
  BY DEF journalVars, Journals

\* What processes read is among what a crash may find.
LEMMA InFiles ==
  ASSUME FilesTyped
  PROVE  /\ header \in Headers /\ journal \in Journals /\ Headers \subseteq headerDisk
         /\ \A b \in Blocks : blocks[b] \in Held(b) /\ Held(b) \subseteq ValidBlock \cup {Torn}
  BY DEF FilesTyped, Headers, Journals, Held

\* A written header may be found as it was, as it is, or torn.
LEMMA HeaderWrite ==
  ASSUME FilesTyped, NEW h \in ValidHeader, WriteHeaderAs(h), UNCHANGED <<blocks, blocksDisk, crashKinds>>
  PROVE  /\ header' = h /\ Headers' \subseteq Headers \cup {h, Torn}
         /\ \A b : Held(b)' = Held(b)
         /\ header' \in ValidHeader \cup {Blank, Torn}
         /\ header' \in headerDisk' /\ headerDisk' \subseteq ValidHeader \cup {Blank, Torn}
         /\ headerDisk \subseteq headerDisk'
  BY DEF FilesTyped, WriteHeaderAs, Headers, Held

\* So may a written block; the other blocks stay as they are.
LEMMA BlockWrite ==
  ASSUME FilesTyped, NEW b \in Blocks, NEW content \in ValidBlock, WriteBlockAs(b, content),
         UNCHANGED <<header, headerDisk, crashKinds>>
  PROVE  /\ Headers' = Headers
         /\ blocks' = [blocks EXCEPT ![b] = content]
         /\ \A c \in Blocks \ {b} : Held(c)' = Held(c) /\ blocks'[c] = blocks[c]
         /\ blocks'[b] = content
         /\ blocks' \in [Blocks -> ValidBlock \cup {Torn}]
         /\ blocksDisk' \in [Blocks -> SUBSET (ValidBlock \cup {Torn})]
         /\ \A c \in Blocks : blocks'[c] \in blocksDisk'[c]
  BY DEF FilesTyped, WriteBlockAs, Headers, Held

\* After a sync of the store file a crash finds what processes read.
LEMMA FileSync ==
  ASSUME FilesTyped, SyncFile, UNCHANGED crashKinds
  PROVE  /\ Headers' = {header} /\ \A b \in Blocks : Held(b)' = {blocks[b]}
         /\ header' = header /\ blocks' = blocks
         /\ header' \in headerDisk' /\ headerDisk' \subseteq ValidHeader \cup {Blank, Torn}
         /\ blocksDisk' \in [Blocks -> SUBSET (ValidBlock \cup {Torn})]
         /\ \A b \in Blocks : blocks'[b] \in blocksDisk'[b]
  BY DEF FilesTyped, SyncFile, Headers, Held

\* A written journal may be found as it was, as it is, or damaged.
LEMMA JournalWrite ==
  ASSUME NEW j, WriteJournal(j), UNCHANGED crashKinds
  PROVE  /\ journal' = j /\ Journals' \subseteq Journals \cup {j, Garbage}
         /\ journal' \in journalDisk'
  BY DEF WriteJournal, Journals

\* A removed journal may come back, a kept one may be lost.
LEMMA JournalRemoved ==
  ASSUME FilesTyped, NEW kept, Remove(kept), UNCHANGED crashKinds
  PROVE  /\ journal' \in {journal, None} /\ Journals' \subseteq Journals \cup {None}
         /\ journal' \in journalDisk'
  BY DEF FilesTyped, Remove, Journals

-----------------------------------------------------------------------------
(* Steps of the transaction *)

\* Steps that leave the last commit, the one under way and the crashes alone.
LEMMA StableKept ==
  ASSUME Inv, UNCHANGED ghostVars, (phase' \in InFlight) <=> (phase \in InFlight)
  PROVE  StableInv'
  BY DEF Inv, StableInv, ghostVars

\* A file that is not written stays settled.
LEMMA Settling ==
  ASSUME UNCHANGED ghostVars, UNCHANGED <<header, blocks>>, Headers' = Headers,
         \A b \in Blocks : Held(b)' = Held(b)
  PROVE  /\ HeaderSettled' <=> HeaderSettled
         /\ BlocksSettled' <=> BlocksSettled
         /\ Settled' <=> Settled
  BY DEF HeaderSettled, BlocksSettled, Settled, ghostVars

\* begin() keeps the invariant: the journal it creates never applies.
LEMMA BeginStep ==
  ASSUME Inv, Begin
  PROVE  Inv'
<1>. USE DEF Begin
<1>1. FilesTyped /\ StableInv /\ OpenedInv
  BY DEF Inv, PhaseInv
<1>2. phase' = "open" /\ phase = "opened" /\ UNCHANGED <<fileVars, created, ghostVars>>
  OBVIOUS
<1>3. journal' \in journalDisk' /\ Journals' \subseteq Journals \cup {Garbage} /\ (created => UNCHANGED journalVars)
  BY <1>1, JournalWrite, InFiles DEF ghostVars, FilesTyped, journalVars, Journals
<1>4. FilesTyped'
  BY <1>1, <1>2, <1>3 DEF FilesTyped, fileVars, ghostVars
<1>5. StableInv'
  BY <1>2, StableKept DEF InFlight
<1>6. header' = header /\ Settled'
  BY <1>1, <1>2, FilesKept, Settling DEF OpenedInv, fileVars, ghostVars
<1>7. NoneApplies'
  BY <1>1, <1>3, <1>6, Kinds DEF NoneApplies, OpenedInv, Applicable
<1>8. header_' = header /\ header \in ValidHeader \cup {Blank}
  BY <1>1, Kinds DEF OpenedInv, FilesTyped
<1>9. OpenedInv'
  BY <1>1, <1>2, <1>3, <1>6, <1>7, <1>8, JournalKept DEF OpenedInv, ghostVars
<1>10. buf' = [header |-> NoHeader, blocks |-> NoBlocks] /\ todo' = NoBlocks
  OBVIOUS
<1>11. OpenInv'
  BY <1>6, <1>8, <1>9, <1>10 DEF OpenInv, Staged, NoBlocks
<1>. QED BY <1>2, <1>4, <1>5, <1>11 DEF Inv, PhaseInv

\* stageBlock keeps it: what it stages is the block of the last commit.
LEMMA StageBlockStep ==
  ASSUME Inv, NEW b \in Blocks, NEW full \in BOOLEAN, StageBlock(b, full)
  PROVE  Inv'
<1>1. FilesTyped /\ StableInv /\ OpenInv /\ OpenedInv /\ Staged(attempts + 1)
  BY DEF Inv, PhaseInv, StageBlock, OpenInv
<1>2. /\ phase' = phase /\ phase = "open" /\ created = FALSE
      /\ buf' = [buf EXCEPT !.blocks = With(@, b, blocks[b])]
      /\ todo' = With(todo, b, Block(attempts + 1))
      /\ UNCHANGED <<fileVars, created, header_, ghostVars>>
  BY <1>1 DEF StageBlock, FilesTyped
<1>3. journal' \in journalDisk' /\ Journals' \subseteq Journals \cup {Garbage}
  BY <1>1, JournalWrite, InFiles DEF StageBlock, ghostVars, FilesTyped, journalVars, Journals
<1>4. FilesTyped'
  BY <1>1, <1>2, <1>3 DEF FilesTyped, fileVars, ghostVars
<1>5. StableInv'
  BY <1>2, StableKept
<1>6. header' = header /\ Settled'
  BY <1>1, <1>2, FilesKept, Settling DEF OpenedInv, fileVars, ghostVars
<1>7. NoneApplies'
  BY <1>1, <1>3, <1>6, Kinds DEF NoneApplies, OpenedInv, Applicable
<1>8. OpenedInv'
  BY <1>1, <1>2, <1>6, <1>7 DEF OpenedInv
<1>9. /\ buf'.header = buf.header /\ buf'.blocks = With(buf.blocks, b, blocks[b])
      /\ buf' = [header |-> buf'.header, blocks |-> buf'.blocks]
  BY <1>1, <1>2 DEF OpenInv
<1>10. blocks[b] = stable.blocks[b] /\ stable' = stable /\ attempts' = attempts
  BY <1>1, <1>2 DEF OpenedInv, Settled, BlocksSettled, ghostVars
<1>11. Staged(attempts + 1)'
  <2>1. attempts + 1 \in Versions
    BY <1>1, BoundsAssumption DEF StageBlock, FilesTyped, Versions
  <2>. QED BY <1>1, <1>2, <1>9, <1>10, <2>1 DEF Staged, With, Versions
<1>12. OpenInv'
  BY <1>1, <1>2, <1>6, <1>8, <1>9, <1>11 DEF OpenInv
<1>. QED BY <1>2, <1>4, <1>5, <1>12 DEF Inv, PhaseInv

\* The seal of the journal keeps it: the header in it is that of the last commit.
LEMMA CommitStep ==
  ASSUME Inv, Commit
  PROVE  Inv'
<1>1. FilesTyped /\ StableInv /\ OpenInv /\ OpenedInv /\ Staged(attempts + 1)
  BY DEF Inv, PhaseInv, Commit, OpenInv
<1>2. /\ phase = "open" /\ attempts < MaxAttempts
      /\ attempts' = attempts + 1 /\ batch' = DOMAIN todo
      /\ header_' = Header(NextId, attempts + 1)
      /\ UNCHANGED <<fileVars, created, buf, todo, stable, crashes, crashKinds>>
      /\ phase' \in InFlight
  BY DEF Commit, InFlight
<1>3. attempts \in Nat /\ attempts' \in 0 .. MaxAttempts /\ attempts < attempts'
  BY <1>1, <1>2, BoundsAssumption DEF FilesTyped
<1>4. /\ header' = header /\ blocks' = blocks /\ Headers' = Headers
      /\ \A b \in Blocks : Held(b)' = Held(b)
  BY <1>1, <1>2, FilesKept DEF fileVars
<1>5. Settled'
  BY <1>1, <1>2, <1>4 DEF OpenedInv, Settled, HeaderSettled, BlocksSettled
<1>6. journal' \in journalDisk'
  BY <1>1 DEF Commit, journalVars, FilesTyped, WriteJournal
<1>7. FilesTyped'
  BY <1>1, <1>2, <1>3, <1>6 DEF FilesTyped, fileVars, Staged
<1>8. StableInv'
  <2>1. stable \in [version : Versions, blocks : [Blocks -> ValidBlock]]
    BY <1>1 DEF StableInv
  <2>2. stable.version \in Nat /\ \A b \in Blocks : stable.blocks[b].version \in Nat
    BY <2>1, Kinds DEF Versions
  <2>. QED BY <1>1, <1>2, <1>3, <2>1, <2>2 DEF StableInv
<1>9. NextHeader'
  BY <1>1, <1>2, <1>4 DEF NextHeader, NextId, OpenInv
<1>10. CASE created
  <2>1. phase' = "journaled" /\ UNCHANGED journalVars
    BY <1>10 DEF Commit
  <2>2. todo = NoBlocks /\ DOMAIN todo = {} /\ buf = [header |-> NoHeader, blocks |-> NoBlocks]
    BY <1>1, <1>10 DEF OpenInv, Staged, NoBlocks
  <2>3. Protects(header)'
    <3>1. journal = None /\ Journals = {None} /\ header # Torn
      BY <1>1, <1>10, InFiles DEF OpenedInv
    <3>. QED BY <3>1, <2>1, <2>2, <1>10, <1>2, <1>4, JournalKept DEF Protects, journalVars
  <2>4. JournaledInv'
    BY <1>1, <1>2, <1>4, <1>5, <1>9, <1>10, <2>2, <2>3
       DEF JournaledInv, Settled, BlocksSettled, Staged
  <2>. QED BY <2>1, <2>4, <1>7, <1>8 DEF Inv, PhaseInv
<1>11. CASE ~ created
  <2>1. /\ phase' = "sealed"
        /\ WriteJournal(IF buf.header = NoHeader THEN Garbage ELSE Sealed(buf.header, buf.blocks))
    BY <1>11 DEF Commit
  <2>2. header.kind = "header" /\ buf.header \in {NoHeader, header}
    BY <1>1, <1>11 DEF OpenInv, OpenedInv
  <2>3. journal' \in {Garbage, Sealed(header, buf.blocks)} /\ Journals' \subseteq Journals \cup {journal', Garbage}
    BY <1>2, <2>1, <2>2, JournalWrite
  <2>4. \A j \in Journals' : Applicable(header, j) => j = Sealed(header, buf.blocks)
    BY <1>1, <2>3, Kinds DEF OpenedInv, NoneApplies, Applicable
  <2>5. Staged(attempts)'
    BY <1>1, <1>2 DEF Staged
  <2>6. SealedInv'
    BY <1>2, <1>4, <1>5, <1>9, <1>11, <2>2, <2>3, <2>4, <2>5 DEF SealedInv
  <2>. QED BY <2>1, <2>6, <1>7, <1>8 DEF Inv, PhaseInv
<1>. QED BY <1>10, <1>11

\* The sync of the journal keeps it.
LEMMA SyncJournalStep ==
  ASSUME Inv, SyncJournal
  PROVE  Inv'
<1>1. FilesTyped /\ StableInv /\ SealedInv
  BY DEF Inv, PhaseInv, SyncJournal
<1>2. /\ phase' = "journaled" /\ phase = "sealed"
      /\ journalDisk' = {journal} /\ journal' = journal
      /\ UNCHANGED <<fileVars, txVars, ghostVars>>
  BY DEF SyncJournal
<1>3. FilesTyped' /\ Journals' = {journal}
  BY <1>1, <1>2 DEF FilesTyped, fileVars, txVars, ghostVars, Journals
<1>4. StableInv'
  BY <1>2, StableKept DEF InFlight
<1>5. /\ Settled /\ Settled' /\ header' = header /\ blocks' = blocks
      /\ \A b \in Blocks : Held(b)' = Held(b)
  BY <1>1, <1>2, FilesKept, Settling DEF SealedInv, fileVars, ghostVars
<1>6. header \in ValidHeader
  BY <1>1, Kinds DEF SealedInv, FilesTyped
<1>7. Protects(header)'
  <2>1. journal = Sealed(header, buf.blocks) => Restores(journal) /\ DOMAIN journal.blocks = batch
    BY <1>1, <1>6, <1>5, Kinds DEF Restores, SealedInv, Staged, Settled, HeaderSettled, VersionOf
  <2>2. Restores(journal) => Restores(journal)'
    BY <1>2 DEF Restores, ghostVars
  <2>. QED BY <1>1, <1>2, <1>3, <1>5, <2>1, <2>2, Kinds DEF Protects, SealedInv, txVars, ghostVars
<1>8. JournaledInv'
  <2>1. UNCHANGED <<created, header_, buf, todo, attempts, batch, stable>>
    BY <1>2 DEF txVars, ghostVars
  <2>2. NextHeader'
    BY <1>1, <1>5, <2>1 DEF SealedInv, NextHeader
  <2>. QED BY <1>1, <1>5, <1>7, <2>1, <2>2 DEF JournaledInv, SealedInv, Settled, BlocksSettled, Staged
<1>. QED BY <1>2, <1>3, <1>4, <1>8 DEF Inv, PhaseInv

\* Overwriting a block keeps it: the durable journal has its old content.
LEMMA WriteBlockStep ==
  ASSUME Inv, NEW b \in DOMAIN todo, WriteBlock(b)
  PROVE  Inv'
<1>1. FilesTyped /\ StableInv /\ JournaledInv
  BY DEF Inv, PhaseInv, WriteBlock
<1>2. /\ phase = "journaled" /\ phase' = phase /\ todo' = Without(todo, b)
      /\ WriteBlockAs(b, todo[b])
      /\ UNCHANGED <<header, headerDisk, journalVars, created, header_, buf, ghostVars>>
  BY DEF WriteBlock
<1>3. b \in Blocks /\ b \in batch /\ todo[b] = Block(attempts) /\ todo[b] \in ValidBlock
  BY <1>1, Kinds DEF JournaledInv, FilesTyped, Versions
<1>4. /\ Headers' = Headers /\ blocks' = [blocks EXCEPT ![b] = todo[b]]
      /\ \A c \in Blocks \ {b} : Held(c)' = Held(c) /\ blocks'[c] = blocks[c]
      /\ blocks'[b] = todo[b]
      /\ blocks' \in [Blocks -> ValidBlock \cup {Torn}]
      /\ blocksDisk' \in [Blocks -> SUBSET (ValidBlock \cup {Torn})]
      /\ \A c \in Blocks : blocks'[c] \in blocksDisk'[c]
  BY <1>1, <1>2, <1>3, BlockWrite DEF ghostVars
<1>5. FilesTyped'
  BY <1>1, <1>2, <1>4 DEF FilesTyped, journalVars, ghostVars
<1>6. StableInv'
  BY <1>2, StableKept
<1>7. Journals' = Journals
  BY <1>2, JournalKept DEF ghostVars
<1>8. Protects(header)'
  BY <1>1, <1>2, <1>7 DEF JournaledInv, Protects, Restores, journalVars, ghostVars
<1>9. DOMAIN todo' = DOMAIN todo \ {b} /\ \A c \in DOMAIN todo' : todo'[c] = todo[c]
  BY <1>2 DEF Without, Restrict
<1>10. HeaderSettled' /\ NextHeader'
  BY <1>1, <1>2, <1>4 DEF JournaledInv, HeaderSettled, NextHeader, ghostVars
<1>11. JournaledInv'
  <2>1. UNCHANGED <<created, buf, attempts, batch, stable>>
    BY <1>2 DEF ghostVars
  <2>. QED BY <1>1, <1>3, <1>4, <1>8, <1>9, <1>10, <2>1 DEF JournaledInv
<1>. QED BY <1>2, <1>5, <1>6, <1>11 DEF Inv, PhaseInv

\* The sync of the blocks and the reset of the buffer keep it.
LEMMA ResetJournalStep ==
  ASSUME Inv, ResetJournal
  PROVE  Inv'
<1>1. FilesTyped /\ StableInv /\ JournaledInv
  BY DEF Inv, PhaseInv, ResetJournal
<1>2. /\ phase = "journaled" /\ phase' = "synced" /\ todo = NoBlocks /\ SyncFile
      /\ UNCHANGED <<journalVars, created, header_, todo, ghostVars>>
      /\ IF created THEN UNCHANGED buf ELSE buf' = [header |-> header_, blocks |-> NoBlocks]
  BY DEF ResetJournal
<1>3. /\ Headers' = {header} /\ \A b \in Blocks : Held(b)' = {blocks[b]}
      /\ header' = header /\ blocks' = blocks
      /\ header' \in headerDisk' /\ headerDisk' \subseteq ValidHeader \cup {Blank, Torn}
      /\ blocksDisk' \in [Blocks -> SUBSET (ValidBlock \cup {Torn})]
      /\ \A b \in Blocks : blocks'[b] \in blocksDisk'[b]
  BY <1>1, <1>2, FileSync DEF ghostVars
<1>4. FilesTyped'
  BY <1>1, <1>2, <1>3 DEF FilesTyped, journalVars, ghostVars
<1>5. StableInv'
  BY <1>2, StableKept DEF InFlight
<1>6. Protects(header)'
  <2>1. Journals' = Journals
    BY <1>2, JournalKept DEF ghostVars
  <2>. QED BY <1>1, <1>2, <1>3, <2>1 DEF JournaledInv, Protects, Restores, journalVars, ghostVars
<1>7. HeaderSettled' /\ NextHeader'
  BY <1>1, <1>2, <1>3 DEF JournaledInv, HeaderSettled, NextHeader, ghostVars
<1>8. Overwritten'
  <2>1. UNCHANGED <<attempts, batch, stable>> /\ New' = New
    BY <1>2 DEF ghostVars, New
  <2>2. New.blocks = [b \in Blocks |-> IF b \in batch THEN Block(attempts) ELSE stable.blocks[b]]
    BY DEF New
  <2>3. \A b \in Blocks : blocks[b] = IF b \in batch THEN Block(attempts) ELSE stable.blocks[b]
    BY <1>1, <1>2 DEF JournaledInv, NoBlocks
  <2>4. blocks = New.blocks
    BY <1>1, <2>2, <2>3 DEF FilesTyped
  <2>. QED BY <2>1, <2>4, <1>3 DEF Overwritten
<1>9. SyncedInv'
  BY <1>1, <1>2, <1>6, <1>7, <1>8 DEF SyncedInv, JournaledInv, BufferOf
<1>. QED BY <1>2, <1>4, <1>5, <1>9 DEF Inv, PhaseInv

\* Writing the header keeps it: a crash finds the old or the new commit.
LEMMA WriteHeaderStep ==
  ASSUME Inv, WriteHeader
  PROVE  Inv'
<1>1. FilesTyped /\ StableInv /\ SyncedInv
  BY DEF Inv, PhaseInv, WriteHeader
<1>2. /\ phase = "synced" /\ phase' = "headerWritten" /\ WriteHeaderAs(header_)
      /\ UNCHANGED <<blocks, blocksDisk, journalVars, txVars, ghostVars>>
  BY DEF WriteHeader
<1>3. header # Torn
  BY <1>1, Kinds DEF SyncedInv, Protects
<1>4. header_ \in ValidHeader /\ header_.version = attempts
  <2>1. attempts \in Versions \ {0}
    BY <1>2, NewTyped, BoundsAssumption, <1>1 DEF InFlight, FilesTyped, Versions
  <2>2. header \in ValidHeader \cup {Blank, Torn}
    BY <1>1 DEF FilesTyped
  <2>3. header.kind = "header" => header.id \in Nat
    BY <2>2, Kinds
  <2>. QED BY <1>1, <2>1, <2>3 DEF SyncedInv, NextHeader, Header, ValidHeader
<1>5. /\ header' = header_ /\ Headers' \subseteq Headers \cup {header_, Torn}
      /\ \A b : Held(b)' = Held(b)
      /\ header' \in ValidHeader \cup {Blank, Torn}
      /\ header' \in headerDisk' /\ headerDisk' \subseteq ValidHeader \cup {Blank, Torn}
      /\ headerDisk \subseteq headerDisk'
  BY <1>1, <1>2, <1>4, HeaderWrite DEF ghostVars
<1>6. FilesTyped'
  BY <1>1, <1>2, <1>5 DEF FilesTyped, journalVars, txVars, ghostVars
<1>7. StableInv'
  BY <1>2, StableKept DEF InFlight
<1>8. UNCHANGED <<created, header_, buf, todo, attempts, batch, stable, journal, blocks>> /\ Journals' = Journals
  BY <1>2, JournalKept DEF txVars, ghostVars, journalVars
<1>9. Overwritten' /\ BufferOf(header_)'
  BY <1>1, <1>5, <1>8 DEF SyncedInv, Overwritten, New, BufferOf
<1>10. \E old \in headerDisk' \ {Torn} :
          /\ Headers' \subseteq {old, header', Torn}
          /\ VersionOf(old) = stable.version
          /\ old.kind = "header" => header'.id = old.id + 1
          /\ Protects(old)'
  <2>1. header \in headerDisk' /\ Headers = {header} /\ VersionOf(header) = stable.version
    BY <1>1, <1>5 DEF FilesTyped, SyncedInv, HeaderSettled
  <2>2. header.kind = "header" => header'.id = header.id + 1
    BY <1>1, <1>5, Kinds DEF SyncedInv, NextHeader
  <2>3. ASSUME NEW old, old = header
        PROVE  Protects(old)'
    BY <1>1, <1>8, <2>3 DEF SyncedInv, Protects, Restores
  <2>. QED BY <2>1, <2>2, <2>3, <1>3, <1>5
<1>11. HeaderWrittenInv'
  BY <1>1, <1>4, <1>5, <1>8, <1>9, <1>10, Kinds DEF HeaderWrittenInv, SyncedInv
<1>. QED BY <1>2, <1>6, <1>7, <1>11 DEF Inv, PhaseInv

\* Once the header is written, no journal applies: opening finds the commit.
LEMMA HeaderTakes ==
  ASSUME Inv, phase = "headerWritten"
  PROVE  /\ \A j \in Journals : ~ Applicable(header, j)
         /\ Outcome(header, blocks, journal) = New
<1>1. FilesTyped /\ HeaderWrittenInv
  BY DEF Inv, PhaseInv
<1>2. PICK old \in headerDisk \ {Torn} :
         /\ VersionOf(old) = stable.version
         /\ old.kind = "header" => header.id = old.id + 1
         /\ Protects(old)
  BY <1>1 DEF HeaderWrittenInv
<1>3. header \in ValidHeader /\ header.kind = "header" /\ header.version = attempts
  BY <1>1, Kinds DEF HeaderWrittenInv, FilesTyped
<1>4. \A j \in Journals : ~ Applicable(header, j)
  BY <1>1, <1>2, <1>3, Kinds DEF FilesTyped, Protects, Applicable
<1>5. journal \in Journals
  BY <1>1, InFiles
<1>6. Outcome(header, blocks, journal) = [version |-> VersionOf(header), blocks |-> blocks]
  BY <1>1, <1>4, <1>5, Outcomes DEF FilesTyped
<1>7. VersionOf(header) = attempts /\ blocks = New.blocks
  BY <1>1, <1>3 DEF VersionOf, HeaderWrittenInv, Overwritten
<1>. QED BY <1>4, <1>6, <1>7 DEF New

\* The last sync keeps it and makes the commit the last one.
LEMMA SyncHeaderStep ==
  ASSUME Inv, SyncHeader
  PROVE  Inv' /\ stable' = New
<1>1. FilesTyped /\ StableInv /\ HeaderWrittenInv
  BY DEF Inv, PhaseInv, SyncHeader
<1>2. /\ phase = "headerWritten" /\ phase' = "open" /\ SyncFile
      /\ stable' = Outcome(header, blocks, journal)
      /\ UNCHANGED <<journalVars, txVars, attempts, batch, crashes, crashKinds>>
  BY DEF SyncHeader
<1>3. /\ Headers' = {header} /\ \A b \in Blocks : Held(b)' = {blocks[b]}
      /\ header' = header /\ blocks' = blocks
      /\ header' \in headerDisk' /\ headerDisk' \subseteq ValidHeader \cup {Blank, Torn}
      /\ blocksDisk' \in [Blocks -> SUBSET (ValidBlock \cup {Torn})]
      /\ \A b \in Blocks : blocks'[b] \in blocksDisk'[b]
  BY <1>1, <1>2, FileSync
<1>4. FilesTyped'
  BY <1>1, <1>2, <1>3 DEF FilesTyped, journalVars, txVars
<1>5. PICK old \in headerDisk \ {Torn} :
         /\ VersionOf(old) = stable.version
         /\ old.kind = "header" => header.id = old.id + 1
         /\ Protects(old)
  BY <1>1 DEF HeaderWrittenInv
<1>6. /\ New \in [version : Versions, blocks : [Blocks -> ValidBlock]] /\ attempts > 0
      /\ \A b \in Blocks : New.blocks[b].version =< attempts
      /\ \A b \in batch : New.blocks[b].version = attempts
  BY <1>2, NewTyped DEF InFlight
<1>7. header \in ValidHeader /\ header.kind = "header" /\ header.version = attempts
  BY <1>1, Kinds DEF HeaderWrittenInv, FilesTyped
<1>8. \A j \in Journals : ~ Applicable(header, j)
  BY <1>2, HeaderTakes
<1>9. stable' = New
  BY <1>2, HeaderTakes
<1>10. StableInv'
  <2>1. attempts' = attempts /\ batch' = batch /\ batch \subseteq Blocks /\ attempts \in Nat
    BY <1>1, <1>2 DEF FilesTyped
  <2>2. New.version = attempts
    BY DEF New
  <2>. QED BY <1>2, <1>6, <1>9, <2>1, <2>2 DEF StableInv, InFlight
<1>11. UNCHANGED <<created, header_, buf, todo, attempts, batch, journal>> /\ Journals' = Journals
  BY <1>2, JournalKept DEF txVars, journalVars
<1>12. Settled' /\ NoneApplies'
  <2>1. VersionOf(header') = attempts /\ blocks' = New.blocks
    BY <1>1, <1>3, <1>7 DEF VersionOf, HeaderWrittenInv, Overwritten
  <2>2. stable'.version = attempts /\ stable'.blocks = New.blocks
    BY <1>9 DEF New
  <2>. QED BY <1>3, <1>8, <1>11, <2>1, <2>2
       DEF Settled, HeaderSettled, BlocksSettled, NoneApplies
<1>13. header_' = header' /\ todo' = NoBlocks
  BY <1>1, <1>3, <1>11 DEF HeaderWrittenInv
<1>14. OpenedInv'
  BY <1>3, <1>5, <1>7, <1>11, <1>12, <1>13, Kinds DEF OpenedInv, Protects
<1>15. OpenInv'
  <2>1. BufferOf(header_) /\ DOMAIN NoBlocks = {}
    BY <1>1 DEF HeaderWrittenInv, NoBlocks
  <2>2. buf = [header |-> buf.header, blocks |-> buf.blocks]
    BY <2>1 DEF BufferOf
  <2>. QED BY <1>11, <1>13, <1>14, <2>1, <2>2 DEF OpenInv, BufferOf, Staged
<1>. QED BY <1>2, <1>4, <1>9, <1>10, <1>15 DEF Inv, PhaseInv

\* end() keeps it: a journal that stays does not apply.
LEMMA EndTransactionStep ==
  ASSUME Inv, NEW kept \in BOOLEAN, EndTransaction(kept)
  PROVE  Inv'
<1>1. FilesTyped /\ StableInv /\ OpenInv /\ OpenedInv
  BY DEF Inv, PhaseInv, EndTransaction, OpenInv
<1>2. /\ phase = "open" /\ phase' = IF created THEN "closed" ELSE "opened"
      /\ created' = FALSE /\ header_' = Blank /\ todo' = NoBlocks
      /\ UNCHANGED <<fileVars, ghostVars>>
      /\ IF created THEN UNCHANGED journalVars ELSE Remove(kept)
  BY DEF EndTransaction
<1>3. journal' \in journalDisk' /\ Journals' \subseteq Journals \cup {None}
  BY <1>1, <1>2, JournalRemoved, JournalKept DEF FilesTyped, ghostVars, journalVars
<1>4. FilesTyped'
  BY <1>1, <1>2, <1>3 DEF FilesTyped, fileVars, ghostVars
<1>5. StableInv'
  BY <1>2, StableKept DEF InFlight
<1>6. /\ header' = header /\ blocks' = blocks /\ Settled' /\ Headers' = Headers
      /\ \A b \in Blocks : Held(b)' = Held(b)
  BY <1>1, <1>2, FilesKept, Settling DEF OpenedInv, fileVars, ghostVars
<1>7. NoneApplies'
  BY <1>1, <1>3, <1>6, Kinds DEF NoneApplies, OpenedInv, Applicable
<1>8. CASE created
  <2>1. Journals' = {None} /\ header # Torn
    BY <1>1, <1>2, <1>8, JournalKept DEF OpenedInv, ghostVars
  <2>2. Headers = {header} /\ \A b \in Blocks : Held(b) = {blocks[b]}
    BY <1>1 DEF OpenedInv, Settled, HeaderSettled, BlocksSettled
  <2>3. ClosedInv'
    BY <1>2, <1>6, <1>7, <2>1, <2>2 DEF ClosedInv
  <2>. QED BY <1>2, <1>4, <1>5, <1>8, <2>3 DEF Inv, PhaseInv
<1>9. CASE ~ created
  <2>1. OpenedInv'
    BY <1>1, <1>2, <1>6, <1>7, <1>9 DEF OpenedInv
  <2>. QED BY <1>2, <1>4, <1>5, <1>9, <2>1 DEF Inv, PhaseInv
<1>. QED BY <1>8, <1>9

\* Closing keeps it: the store is found as it was opened.
LEMMA CloseStep ==
  ASSUME Inv, Close
  PROVE  Inv'
<1>1. FilesTyped /\ StableInv /\ OpenedInv /\ todo = NoBlocks /\ header_ = Blank
  BY DEF Inv, PhaseInv, Close
<1>2. /\ phase = "opened" /\ phase' = "closed" /\ ~ created
      /\ UNCHANGED <<fileVars, journalVars, txVars, ghostVars>>
  BY DEF Close
<1>3. FilesTyped'
  BY <1>1, <1>2 DEF FilesTyped, fileVars, journalVars, txVars, ghostVars
<1>4. StableInv'
  BY <1>2, StableKept DEF InFlight
<1>5. /\ header' = header /\ blocks' = blocks /\ Settled /\ Settled' /\ Headers' = Headers
      /\ \A b \in Blocks : Held(b)' = Held(b)
      /\ Journals' = Journals
  BY <1>1, <1>2, FilesKept, JournalKept, Settling DEF OpenedInv, fileVars, ghostVars
<1>6. NoneApplies'
  BY <1>1, <1>5 DEF NoneApplies, OpenedInv
<1>7. header.kind = "header" /\ header \notin {Blank, Torn}
  BY <1>1, <1>2, Kinds DEF OpenedInv
<1>8. ClosedInv'
  BY <1>1, <1>2, <1>5, <1>6, <1>7, Kinds
     DEF ClosedInv, FilesTyped, txVars, Settled, HeaderSettled, BlocksSettled
<1>. QED BY <1>2, <1>3, <1>4, <1>8 DEF Inv, PhaseInv

-----------------------------------------------------------------------------
(* Steps of opening a store *)

\* Opening without a journal keeps it.
LEMMA OpenCleanStep ==
  ASSUME Inv, OpenClean
  PROVE  Inv'
<1>1. FilesTyped /\ StableInv /\ ClosedInv
  BY DEF Inv, PhaseInv, OpenClean
<1>2. /\ phase = "closed" /\ journal = None
      /\ phase' = IF header = Torn THEN "rejected" ELSE "opened"
      /\ created' = (header = Blank)
      /\ UNCHANGED <<fileVars, journalVars, header_, buf, todo, ghostVars>>
  BY DEF OpenClean
<1>3. FilesTyped'
  BY <1>1, <1>2 DEF FilesTyped, fileVars, journalVars, ghostVars
<1>4. StableInv'
  BY <1>2, StableKept DEF InFlight
<1>5. NoneApplies /\ Settled
  BY <1>1, <1>2, Kinds DEF ClosedInv, Applicable
<1>6. /\ header' = header /\ blocks' = blocks /\ Settled' /\ NoneApplies'
      /\ Journals' = Journals
  BY <1>1, <1>2, <1>5, FilesKept, JournalKept, Settling DEF NoneApplies, fileVars, ghostVars
<1>7. CASE header = Torn
  BY <1>1, <1>2, <1>3, <1>4, <1>6, <1>7 DEF Inv, PhaseInv, RejectedInv, ClosedInv, journalVars
<1>8. CASE header # Torn
  <2>1. header = Blank \/ header.kind = "header"
    BY <1>1, <1>8, Kinds DEF FilesTyped
  <2>2. OpenedInv'
    BY <1>1, <1>2, <1>6, <1>8, <2>1 DEF OpenedInv, ClosedInv
  <2>. QED BY <1>1, <1>2, <1>3, <1>4, <1>8, <2>2 DEF Inv, PhaseInv, ClosedInv
<1>. QED BY <1>7, <1>8

\* Opening with a journal of an earlier commit keeps it.
LEMMA OpenIgnoringStep ==
  ASSUME Inv, NEW kept \in BOOLEAN, OpenIgnoring(kept)
  PROVE  Inv'
<1>1. FilesTyped /\ StableInv /\ ClosedInv
  BY DEF Inv, PhaseInv, OpenIgnoring
<1>2. /\ phase = "closed" /\ journal # None /\ ~ Applicable(header, journal) /\ Remove(kept)
      /\ phase' = IF header.kind = "header" THEN "opened" ELSE "damaged"
      /\ UNCHANGED <<fileVars, txVars, ghostVars>>
  BY DEF OpenIgnoring
<1>3. journal' \in journalDisk' /\ Journals' \subseteq Journals \cup {None}
  BY <1>1, <1>2, JournalRemoved DEF ghostVars
<1>4. FilesTyped'
  BY <1>1, <1>2, <1>3 DEF FilesTyped, fileVars, txVars, ghostVars
<1>5. NoneApplies /\ Settled /\ header.kind = "header"
  <2>1. NoneApplies /\ Settled
    BY <1>1, <1>2 DEF ClosedInv
  <2>2. header \notin {Torn, Blank}
    BY <1>1, <1>2, InFiles DEF ClosedInv
  <2>. QED BY <1>1, <2>1, <2>2, Kinds DEF FilesTyped
<1>6. StableInv'
  BY <1>2, <1>5, StableKept DEF InFlight
<1>7. header' = header /\ Settled'
  BY <1>1, <1>2, <1>5, FilesKept, Settling DEF fileVars, ghostVars
<1>8. NoneApplies'
  BY <1>3, <1>5, <1>7, Kinds DEF NoneApplies, Applicable
<1>9. OpenedInv'
  BY <1>1, <1>2, <1>5, <1>7, <1>8 DEF OpenedInv, ClosedInv, txVars
<1>. QED BY <1>1, <1>2, <1>4, <1>5, <1>6, <1>9 DEF Inv, PhaseInv, ClosedInv, txVars

\* Beginning to apply the journal keeps it.
LEMMA OpenApplyingStep ==
  ASSUME Inv, OpenApplying
  PROVE  Inv'
<1>1. FilesTyped /\ StableInv /\ ClosedInv
  BY DEF Inv, PhaseInv, OpenApplying
<1>2. /\ phase = "closed" /\ Applicable(header, journal)
      /\ phase' = "applying" /\ todo' = journal.blocks
      /\ UNCHANGED <<fileVars, journalVars, created, header_, buf, ghostVars>>
  BY DEF OpenApplying
<1>3. FilesTyped'
  BY <1>1, <1>2 DEF FilesTyped, fileVars, journalVars, ghostVars
<1>4. StableInv'
  BY <1>2, StableKept DEF InFlight
<1>5. /\ header' = header /\ blocks' = blocks /\ Headers' = Headers /\ Journals' = Journals
      /\ \A b \in Blocks : Held(b)' = Held(b)
  BY <1>1, <1>2, FilesKept, JournalKept DEF fileVars, ghostVars
<1>6. ~ NoneApplies
  BY <1>1, <1>2, InFiles DEF NoneApplies
<1>7. /\ Journals = {journal} /\ Restores(journal) /\ header # Blank
      /\ \A b \in Blocks : b \notin DOMAIN journal.blocks => blocks[b] = stable.blocks[b]
      /\ Headers = {header} /\ \A b \in Blocks : Held(b) = {blocks[b]}
      /\ created = FALSE /\ header_ = Blank
  BY <1>1, <1>2, <1>6, Kinds DEF ClosedInv, Applicable
<1>8. UNCHANGED <<journal, stable, created, header_>>
  BY <1>2 DEF journalVars, ghostVars
<1>9. Applies'
  BY <1>5, <1>7, <1>8 DEF Applies, Restores
<1>10. ApplyingInv'
  BY <1>2, <1>5, <1>7, <1>8, <1>9 DEF ApplyingInv
<1>. QED BY <1>2, <1>3, <1>4, <1>10 DEF Inv, PhaseInv

\* Restoring a block keeps it: the journal applies again after a crash.
LEMMA ApplyBlockStep ==
  ASSUME Inv, NEW b \in DOMAIN todo, ApplyBlock(b)
  PROVE  Inv'
<1>1. FilesTyped /\ StableInv /\ ApplyingInv /\ Applies /\ Restores(journal)
  BY DEF Inv, PhaseInv, ApplyBlock, ApplyingInv, Applies
<1>2. /\ phase = "applying" /\ phase' = phase /\ todo' = Without(todo, b)
      /\ WriteBlockAs(b, todo[b])
      /\ UNCHANGED <<header, headerDisk, journalVars, created, header_, buf, ghostVars>>
  BY DEF ApplyBlock
<1>3. b \in Blocks /\ b \in DOMAIN journal.blocks /\ todo[b] = stable.blocks[b] /\ todo[b] \in ValidBlock
  BY <1>1 DEF ApplyingInv, Restores, StableInv
<1>4. /\ Headers' = Headers /\ blocks' = [blocks EXCEPT ![b] = todo[b]]
      /\ \A c \in Blocks \ {b} : Held(c)' = Held(c) /\ blocks'[c] = blocks[c]
      /\ blocks'[b] = todo[b]
      /\ blocks' \in [Blocks -> ValidBlock \cup {Torn}]
      /\ blocksDisk' \in [Blocks -> SUBSET (ValidBlock \cup {Torn})]
      /\ \A c \in Blocks : blocks'[c] \in blocksDisk'[c]
  BY <1>1, <1>2, <1>3, BlockWrite DEF ghostVars
<1>5. FilesTyped'
  BY <1>1, <1>2, <1>4 DEF FilesTyped, journalVars, ghostVars
<1>6. StableInv'
  BY <1>2, StableKept
<1>7. Journals' = Journals /\ UNCHANGED <<journal, created, header_, stable, header>>
  BY <1>2, JournalKept DEF journalVars, ghostVars
<1>8. Applies'
  BY <1>1, <1>7 DEF Applies, Restores
<1>9. DOMAIN todo' = DOMAIN todo \ {b} /\ \A c \in DOMAIN todo' : todo'[c] = todo[c]
  BY <1>2 DEF Without, Restrict
<1>10. ApplyingInv'
  BY <1>1, <1>3, <1>4, <1>7, <1>8, <1>9 DEF ApplyingInv
<1>. QED BY <1>2, <1>5, <1>6, <1>10 DEF Inv, PhaseInv

\* The sync of the restored blocks keeps it.
LEMMA ApplySyncStep ==
  ASSUME Inv, ApplySync
  PROVE  Inv'
<1>1. FilesTyped /\ StableInv /\ ApplyingInv /\ Applies
  BY DEF Inv, PhaseInv, ApplySync, ApplyingInv
<1>2. /\ phase = "applying" /\ phase' = "applied" /\ todo = NoBlocks /\ SyncFile
      /\ UNCHANGED <<journalVars, txVars, ghostVars>>
  BY DEF ApplySync
<1>3. /\ Headers' = {header} /\ \A b \in Blocks : Held(b)' = {blocks[b]}
      /\ header' = header /\ blocks' = blocks
      /\ header' \in headerDisk' /\ headerDisk' \subseteq ValidHeader \cup {Blank, Torn}
      /\ blocksDisk' \in [Blocks -> SUBSET (ValidBlock \cup {Torn})]
      /\ \A b \in Blocks : blocks'[b] \in blocksDisk'[b]
  BY <1>1, <1>2, FileSync DEF ghostVars
<1>4. FilesTyped'
  BY <1>1, <1>2, <1>3 DEF FilesTyped, journalVars, txVars, ghostVars
<1>5. StableInv'
  BY <1>2, StableKept DEF InFlight
<1>6. Journals' = Journals /\ UNCHANGED <<journal, created, header_, stable, todo>>
  BY <1>2, JournalKept DEF journalVars, txVars, ghostVars
<1>7. Applies'
  BY <1>1, <1>6 DEF Applies, Restores
<1>8. BlocksSettled'
  <2>1. \A b \in Blocks : blocks[b] = stable.blocks[b]
    BY <1>1, <1>2 DEF ApplyingInv, NoBlocks
  <2>2. blocks = stable.blocks
    BY <1>1, <2>1 DEF FilesTyped, StableInv
  <2>. QED BY <2>2, <1>3, <1>6 DEF BlocksSettled
<1>9. AppliedInv'
  BY <1>1, <1>2, <1>3, <1>6, <1>7, <1>8 DEF AppliedInv, ApplyingInv
<1>. QED BY <1>2, <1>4, <1>5, <1>9 DEF Inv, PhaseInv

\* Writing the restored header keeps it: the journal may apply, or not any more.
LEMMA ApplyHeaderStep ==
  ASSUME Inv, ApplyHeader
  PROVE  Inv'
<1>. DEFINE next == Header(journal.header.id + 1, journal.header.version)
<1>1. FilesTyped /\ StableInv /\ AppliedInv /\ Applies /\ Restores(journal)
  BY DEF Inv, PhaseInv, ApplyHeader, AppliedInv, Applies
<1>2. /\ phase = "applied" /\ phase' = "appliedHeader" /\ WriteHeaderAs(next)
      /\ UNCHANGED <<blocks, blocksDisk, journalVars, txVars, ghostVars>>
  BY DEF ApplyHeader
<1>3. next \in ValidHeader
  BY <1>1, Kinds DEF Restores, ValidHeader, Header
<1>4. /\ header' = next /\ Headers' \subseteq Headers \cup {next, Torn}
      /\ \A b : Held(b)' = Held(b)
      /\ header' \in ValidHeader \cup {Blank, Torn}
      /\ header' \in headerDisk' /\ headerDisk' \subseteq ValidHeader \cup {Blank, Torn}
  <2>. HIDE DEF next
  <2>. QED BY <1>1, <1>2, <1>3, HeaderWrite DEF ghostVars
<1>5. FilesTyped'
  BY <1>1, <1>2, <1>4 DEF FilesTyped, journalVars, txVars, ghostVars
<1>6. StableInv'
  BY <1>2, StableKept DEF InFlight
<1>7. Journals' = Journals /\ UNCHANGED <<journal, created, header_, stable, todo, blocks>>
  BY <1>2, JournalKept DEF journalVars, txVars, ghostVars
<1>8. Applies' /\ BlocksSettled'
  BY <1>1, <1>4, <1>7 DEF Applies, Restores, AppliedInv, BlocksSettled
<1>9. \A h \in Headers' : h # Blank /\ (h = header' \/ Applicable(h, journal))
  <2>1. Headers = {header} /\ header # Blank /\ Applicable(header, journal)
    BY <1>1 DEF AppliedInv
  <2>2. Applicable(Torn, journal) /\ Torn # Blank /\ next # Blank
    BY <1>1, Kinds DEF Restores, Applicable
  <2>. QED BY <1>4, <2>1, <2>2
<1>10. AppliedHeaderInv'
  BY <1>1, <1>4, <1>7, <1>8, <1>9 DEF AppliedHeaderInv, AppliedInv
<1>. QED BY <1>2, <1>5, <1>6, <1>10 DEF Inv, PhaseInv

\* The end of the recovery keeps it, whether the journal is gone or not.
LEMMA ApplyDoneStep ==
  ASSUME Inv, NEW kept \in BOOLEAN, ApplyDone(kept)
  PROVE  Inv'
<1>1. FilesTyped /\ StableInv /\ AppliedHeaderInv /\ Applies /\ Restores(journal)
  BY DEF Inv, PhaseInv, ApplyDone, AppliedHeaderInv, Applies
<1>2. /\ phase = "appliedHeader" /\ phase' = "closed" /\ SyncFile /\ Remove(kept)
      /\ UNCHANGED <<txVars, ghostVars>>
  BY DEF ApplyDone
<1>3. /\ Headers' = {header} /\ \A b \in Blocks : Held(b)' = {blocks[b]}
      /\ header' = header /\ blocks' = blocks
      /\ header' \in headerDisk' /\ headerDisk' \subseteq ValidHeader \cup {Blank, Torn}
      /\ blocksDisk' \in [Blocks -> SUBSET (ValidBlock \cup {Torn})]
      /\ \A b \in Blocks : blocks'[b] \in blocksDisk'[b]
  BY <1>1, <1>2, FileSync DEF ghostVars
<1>4. journal' \in journalDisk' /\ Journals' \subseteq Journals \cup {None}
  BY <1>1, <1>2, JournalRemoved DEF ghostVars
<1>5. FilesTyped'
  BY <1>1, <1>2, <1>3, <1>4 DEF FilesTyped, txVars, ghostVars
<1>6. StableInv'
  BY <1>2, StableKept DEF InFlight
<1>7. header.kind = "header" /\ header.id = journal.header.id + 1 /\ header.version = stable.version
      /\ header \notin {Blank, Torn} /\ journal.header.id \in Nat
  BY <1>1, Kinds DEF AppliedHeaderInv, Restores
<1>8. NoneApplies'
  BY <1>1, <1>3, <1>4, <1>7, Kinds DEF NoneApplies, Applies, Applicable
<1>9. Settled'
  BY <1>1, <1>2, <1>3, <1>7
     DEF Settled, HeaderSettled, BlocksSettled, VersionOf, AppliedHeaderInv, ghostVars
<1>10. ClosedInv'
  BY <1>1, <1>2, <1>3, <1>7, <1>8, <1>9 DEF ClosedInv, AppliedHeaderInv, Applies, txVars
<1>. QED BY <1>2, <1>5, <1>6, <1>10 DEF Inv, PhaseInv

-----------------------------------------------------------------------------
(* Crashes *)

\* A crash leaves some of what the files may hold.
LEMMA CrashLeaves ==
  ASSUME Inv, Crash
  PROVE  /\ FilesTyped'
         /\ header' \in Headers /\ journal' \in Journals
         /\ \A b \in Blocks : blocks'[b] \in Held(b)
         /\ Headers' = {header'} /\ Journals' = {journal'}
         /\ \A b \in Blocks : Held(b)' = {blocks'[b]}
<1>1. FilesTyped /\ UNCHANGED <<attempts, batch, crashKinds>> /\ created' = FALSE
  BY DEF Inv, Crash
<1>2. CASE "process" \in crashKinds
  <2>1. "machine" \notin crashKinds
    BY <1>1, <1>2 DEF FilesTyped
  <2>2. UNCHANGED <<fileVars, journalVars>>
    BY <2>1 DEF Crash
  <2>. QED BY <1>1, <2>1, <2>2 DEF FilesTyped, fileVars, journalVars, Headers, Held, Journals
<1>3. CASE "process" \notin crashKinds
  <2>1. "machine" \in crashKinds
    BY <1>1, <1>3 DEF FilesTyped
  <2>2. /\ header' \in headerDisk /\ journal' \in journalDisk
        /\ \E left \in [Blocks -> UNION Range(blocksDisk)] :
             /\ \A b \in Blocks : left[b] \in blocksDisk[b]
             /\ blocks' = left
        /\ headerDisk' = {header'} /\ journalDisk' = {journal'}
        /\ blocksDisk' = [b \in Blocks |-> {blocks'[b]}]
    BY <1>3 DEF Crash
  <2>3. DOMAIN blocks' = Blocks /\ \A b \in Blocks : blocks'[b] \in blocksDisk[b]
    BY <2>2
  <2>4. blocks' \in [Blocks -> ValidBlock \cup {Torn}]
    <3>1. PICK left \in [Blocks -> UNION Range(blocksDisk)] : blocks' = left
      BY <2>2
    <3>2. \A b \in Blocks : left[b] \in ValidBlock \cup {Torn}
      BY <3>1, <2>3, <1>1 DEF FilesTyped
    <3>. QED BY <3>1, <3>2
  <2>5. blocksDisk' \in [Blocks -> SUBSET (ValidBlock \cup {Torn})]
        /\ \A b \in Blocks : blocksDisk'[b] = {blocks'[b]}
    BY <2>2, <2>4
  <2>6. FilesTyped'
    BY <1>1, <2>2, <2>4, <2>5 DEF FilesTyped
  <2>. QED BY <1>1, <2>1, <2>2, <2>3, <2>5, <2>6 DEF Headers, Held, Journals
<1>. QED BY <1>2, <1>3

\* The three things that opening the store can find after a crash: a journal
\* that restores the last commit, the last commit, or the one under way.
Restoring(h, bs, j) ==
  /\ Applicable(h, j) /\ Restores(j)
  /\ \A b \in Blocks : b \notin DOMAIN j.blocks => bs[b] = stable.blocks[b]
Intact(h, bs, j) ==
  /\ ~ Applicable(h, j) /\ VersionOf(h) = stable.version /\ bs = stable.blocks
  /\ h = Torn => j = None
Done(h, bs, j) ==
  /\ phase = "headerWritten"
  /\ ~ Applicable(h, j) /\ VersionOf(h) = attempts /\ bs = New.blocks /\ h # Torn

\* A crash finds the last commit, a journal that restores it, or the next commit.
LEMMA CrashFinds ==
  ASSUME Inv, phase \notin {"rejected", "damaged"},
         NEW h \in Headers, NEW j \in Journals, NEW bs \in [Blocks -> ValidBlock \cup {Torn}],
         \A b \in Blocks : bs[b] \in Held(b),
         Unprotected => batch = {} /\ (h = Torn => stable.version = 0)
  PROVE  /\ h = Blank => j = None
         /\ Restoring(h, bs, j) \/ Intact(h, bs, j) \/ Done(h, bs, j)
<1>1. FilesTyped /\ StableInv /\ PhaseInv
  BY DEF Inv
<1>2. stable.blocks \in [Blocks -> ValidBlock] /\ blocks \in [Blocks -> ValidBlock \cup {Torn}]
  BY <1>1 DEF StableInv, FilesTyped
<1>3. ASSUME \A b \in Blocks : Held(b) = {blocks[b]}
      PROVE  bs = blocks
  BY <1>2, <1>3
<1>4. ASSUME \A b \in Blocks : Held(b) = {stable.blocks[b]}
      PROVE  bs = stable.blocks
  BY <1>2, <1>4
<1>5. CASE phase = "closed"
  <2>1. ClosedInv
    BY <1>1, <1>5 DEF PhaseInv
  <2>2. h = header /\ bs = blocks
    BY <2>1, <1>3 DEF ClosedInv
  <2>3. h = Blank => j = None
    BY <2>1, <2>2 DEF ClosedInv
  <2>4. CASE Applicable(header, journal) /\ Journals = {journal} /\ Restores(journal)
             /\ \A b \in Blocks : b \notin DOMAIN journal.blocks => blocks[b] = stable.blocks[b]
    BY <2>2, <2>3, <2>4 DEF Restoring
  <2>5. CASE NoneApplies /\ Settled /\ (header = Torn => Journals = {None})
    BY <2>2, <2>3, <2>5 DEF Intact, NoneApplies, Settled, HeaderSettled, BlocksSettled
  <2>. QED BY <2>1, <2>4, <2>5 DEF ClosedInv
<1>6. CASE phase \in {"opened", "open"}
  <2>1. OpenedInv
    BY <1>1, <1>6 DEF PhaseInv, OpenInv
  <2>2. h = header /\ bs = blocks /\ blocks = stable.blocks /\ VersionOf(h) = stable.version
    BY <2>1, <1>3 DEF OpenedInv, Settled, HeaderSettled, BlocksSettled
  <2>3. h = Blank => j = None
    BY <2>1, <2>2, Kinds DEF OpenedInv
  <2>. QED BY <2>1, <2>2, <2>3, Kinds DEF OpenedInv, NoneApplies, Intact
<1>7. CASE phase = "sealed"
  <2>1. SealedInv
    BY <1>1, <1>7 DEF PhaseInv
  <2>2. h = header /\ bs = blocks /\ blocks = stable.blocks /\ VersionOf(h) = stable.version
    BY <2>1, <1>3 DEF SealedInv, Settled, HeaderSettled, BlocksSettled
  <2>3. h.kind = "header" /\ h \in ValidHeader /\ h \notin {Blank, Torn}
    BY <1>1, <2>1, <2>2, Kinds DEF SealedInv, FilesTyped
  <2>4. Applicable(h, j) => Restores(j)
    BY <2>1, <2>2, <2>3, Kinds DEF SealedInv, Restores, Staged, VersionOf
  <2>. QED BY <2>2, <2>3, <2>4 DEF Restoring, Intact
<1>8. CASE phase \in {"journaled", "synced"}
  <2>1. /\ HeaderSettled /\ Protects(header)
        /\ \A b \in Blocks : b \notin batch => Held(b) = {stable.blocks[b]}
    BY <1>1, <1>8 DEF PhaseInv, JournaledInv, SyncedInv, Overwritten, New
  <2>2. h = header /\ VersionOf(h) = stable.version /\ j = journal
    BY <2>1 DEF HeaderSettled, Protects
  <2>3. CASE journal \in {None, Garbage}
    <3>1. batch = {}
      BY <1>8, <2>3 DEF Unprotected
    <3>2. bs = stable.blocks
      BY <2>1, <3>1, <1>4
    <3>3. (h = Torn => j = None) /\ (h = Blank => j = None)
      BY <2>1, <2>2, <2>3, Kinds DEF Protects
    <3>. QED BY <2>2, <2>3, <3>2, <3>3, Kinds DEF Intact, Applicable
  <2>4. CASE journal \notin {None, Garbage}
    <3>1. Restores(journal) /\ journal.header = header /\ DOMAIN journal.blocks = batch
          /\ header.kind = "header"
      BY <2>1, <2>4 DEF Protects
    <3>2. \A b \in Blocks : b \notin batch => bs[b] = stable.blocks[b]
      BY <2>1
    <3>. QED BY <2>2, <3>1, <3>2, Kinds DEF Restoring, Applicable, Restores
  <2>. QED BY <2>3, <2>4
<1>9. CASE phase = "headerWritten"
  <2>1. HeaderWrittenInv
    BY <1>1, <1>9 DEF PhaseInv
  <2>2. PICK old \in headerDisk \ {Torn} :
           /\ Headers \subseteq {old, header, Torn}
           /\ VersionOf(old) = stable.version
           /\ old.kind = "header" => header.id = old.id + 1
           /\ Protects(old)
    BY <2>1 DEF HeaderWrittenInv
  <2>3. bs = New.blocks /\ header.kind = "header" /\ header # Torn /\ header # Blank
        /\ VersionOf(header) = attempts /\ j = journal
    BY <2>1, <2>2, <1>3, Kinds DEF HeaderWrittenInv, Overwritten, Protects, VersionOf
  <2>4. old.kind = "header" => old \in ValidHeader
    BY <1>1, Kinds DEF FilesTyped
  <2>5. batch = {} => New.blocks = stable.blocks
    BY <1>2 DEF New
  <2>6. CASE journal \in {None, Garbage}
    <3>1. batch = {} /\ (h = Torn => stable.version = 0)
      BY <1>9, <2>6 DEF Unprotected
    <3>2. ~ Applicable(h, j)
      BY <2>3, <2>6, Kinds DEF Applicable
    <3>3. CASE h = header
      BY <3>2, <3>3, <2>3, <1>9 DEF Done
    <3>4. CASE h = old
      <4>1. h # Torn /\ (h = Blank => j = None)
        BY <3>4, <2>2, <2>3, <2>6, Kinds DEF Protects
      <4>. QED BY <3>1, <3>2, <3>4, <4>1, <2>2, <2>3, <2>5 DEF Intact
    <3>5. CASE h = Torn
      <4>1. journal = None
        BY <3>1, <3>5, <2>2, <2>4, <2>6, Kinds DEF Protects, VersionOf
      <4>2. VersionOf(h) = 0
        BY <3>5, Kinds DEF VersionOf
      <4>. QED BY <3>1, <3>2, <3>5, <4>1, <4>2, <2>3, <2>5, Kinds DEF Intact
    <3>. QED BY <3>3, <3>4, <3>5, <2>2
  <2>7. CASE journal \notin {None, Garbage}
    <3>1. Restores(journal) /\ journal.header = old /\ DOMAIN journal.blocks = batch
          /\ old.kind = "header" /\ journal.kind = "sealed"
      BY <2>2, <2>7 DEF Protects, Restores
    <3>2. \A b \in Blocks : b \notin batch => bs[b] = stable.blocks[b]
      BY <2>3 DEF New
    <3>3. CASE h = header
      <4>1. ~ Applicable(h, j)
        BY <3>1, <3>3, <2>2, <2>3, <2>4, Kinds DEF Applicable
      <4>. QED BY <3>3, <4>1, <2>3, <1>9 DEF Done
    <3>4. CASE h # header
      <4>1. Applicable(h, j) /\ h # Blank
        BY <3>1, <3>4, <2>2, <2>3, Kinds DEF Applicable
      <4>. QED BY <4>1, <3>1, <3>2, <2>3 DEF Restoring
    <3>. QED BY <3>3, <3>4
  <2>. QED BY <2>6, <2>7
<1>10. CASE phase = "applying"
  <2>1. ApplyingInv /\ Applies
    BY <1>1, <1>10 DEF PhaseInv, ApplyingInv
  <2>. QED BY <2>1 DEF ApplyingInv, Applies, Restoring
<1>11. CASE phase = "applied"
  <2>1. AppliedInv /\ Applies /\ bs = blocks
    BY <1>1, <1>11, <1>3 DEF PhaseInv, AppliedInv, BlocksSettled
  <2>. QED BY <2>1 DEF AppliedInv, Applies, BlocksSettled, Restoring
<1>12. CASE phase = "appliedHeader"
  <2>1. AppliedHeaderInv /\ Applies /\ bs = blocks
    BY <1>1, <1>12, <1>3 DEF PhaseInv, AppliedHeaderInv, BlocksSettled
  <2>2. j = journal /\ h # Blank /\ Restores(journal)
        /\ blocks = stable.blocks
    BY <2>1 DEF AppliedHeaderInv, Applies, BlocksSettled
  <2>3. CASE Applicable(h, journal)
    BY <2>2, <2>3, <2>1 DEF Restoring
  <2>4. CASE ~ Applicable(h, journal)
    <3>1. h = header /\ h.kind = "header" /\ h.version = stable.version /\ h # Torn
      BY <2>1, <2>2, <2>4, Kinds DEF AppliedHeaderInv, Restores
    <3>. QED BY <3>1, <2>1, <2>2, <2>4 DEF Intact, VersionOf
  <2>. QED BY <2>3, <2>4
<1>. QED BY <1>1, <1>5, <1>6, <1>7, <1>8, <1>9, <1>10, <1>11, <1>12 DEF PhaseInv

\* A crash keeps the invariant and undoes no commit but one under way.
LEMMA CrashStep ==
  ASSUME Inv, Crash, UnprotectedCrashes = FALSE
  PROVE  Inv' /\ (stable' = stable \/ (phase = "headerWritten" /\ stable' = New))
<1>1. FilesTyped /\ StableInv
  BY DEF Inv
<1>2. /\ phase \notin {"rejected", "damaged"} /\ phase' = "closed"
      /\ created' = FALSE /\ header_' = Blank /\ todo' = NoBlocks
      /\ stable' = Outcome(header', blocks', journal')
      /\ UNCHANGED <<attempts, batch, crashKinds>>
      /\ Unprotected => batch = {} /\ (header' = Torn => stable.version = 0)
  BY DEF Crash
<1>3. /\ FilesTyped'
      /\ header' \in Headers /\ journal' \in Journals
      /\ \A b \in Blocks : blocks'[b] \in Held(b)
      /\ Headers' = {header'} /\ Journals' = {journal'}
      /\ \A b \in Blocks : Held(b)' = {blocks'[b]}
      /\ blocks' \in [Blocks -> ValidBlock \cup {Torn}]
  BY CrashLeaves DEF FilesTyped
<1>4. /\ header' = Blank => journal' = None
      /\ Restoring(header', blocks', journal') \/ Intact(header', blocks', journal')
         \/ Done(header', blocks', journal')
  BY <1>2, <1>3, CrashFinds
<1>5. stable \in [version : Versions, blocks : [Blocks -> ValidBlock]]
  BY <1>1 DEF StableInv
<1>6. ASSUME stable' = stable
      PROVE  StableInv'
  <2>1. stable.version \in Nat /\ \A b \in Blocks : stable.blocks[b].version \in Nat
    BY <1>5, Kinds DEF Versions
  <2>2. batch \subseteq Blocks /\ attempts \in Nat
    BY <1>1 DEF FilesTyped
  <2>. QED BY <1>1, <1>2, <1>6, <2>1, <2>2 DEF StableInv, InFlight
<1>7. CASE Restoring(header', blocks', journal')
  <2>1. stable' = stable
    BY <1>2, <1>3, <1>7, Restored DEF Restoring
  <2>2. ClosedInv'
    BY <1>2, <1>3, <1>4, <1>7, <2>1 DEF ClosedInv, Restoring, Restores
  <2>. QED BY <1>2, <1>3, <1>6, <2>1, <2>2 DEF Inv, PhaseInv
<1>8. CASE Intact(header', blocks', journal')
  <2>1. stable' = [version |-> stable.version, blocks |-> stable.blocks]
    BY <1>2, <1>3, <1>8, Outcomes DEF Intact
  <2>2. stable' = stable
    BY <1>5, <2>1
  <2>3. ClosedInv'
    BY <1>2, <1>3, <1>4, <1>8, <2>2
       DEF ClosedInv, Intact, NoneApplies, Settled, HeaderSettled, BlocksSettled
  <2>. QED BY <1>2, <1>3, <1>6, <2>2, <2>3 DEF Inv, PhaseInv
<1>9. CASE Done(header', blocks', journal')
  <2>1. stable' = [version |-> attempts, blocks |-> New.blocks]
    BY <1>2, <1>3, <1>9, Outcomes DEF Done
  <2>2. stable' = New /\ phase = "headerWritten"
    BY <2>1, <1>9 DEF New, Done
  <2>3. /\ New \in [version : Versions, blocks : [Blocks -> ValidBlock]]
        /\ \A b \in Blocks : New.blocks[b].version =< attempts
        /\ \A b \in batch : New.blocks[b].version = attempts
        /\ New.version = attempts
    BY <2>2, NewTyped DEF InFlight, New
  <2>4. StableInv'
    <3>1. batch \subseteq Blocks /\ attempts \in Nat
      BY <1>1 DEF FilesTyped
    <3>. QED BY <1>2, <2>2, <2>3, <3>1 DEF StableInv, InFlight
  <2>5. ClosedInv'
    BY <1>2, <1>3, <1>4, <1>9, <2>2, <2>3
       DEF ClosedInv, Done, NoneApplies, Settled, HeaderSettled, BlocksSettled
  <2>. QED BY <1>2, <1>3, <2>2, <2>4, <2>5 DEF Inv, PhaseInv
<1>. QED BY <1>4, <1>7, <1>8, <1>9

-----------------------------------------------------------------------------
(* The theorems *)

\* The crashes that the journal is there for.
Protectable == UnprotectedCrashes = FALSE /\ CrashMixes \subseteq {{"process"}, {"machine"}}

\* A new store satisfies the invariant.
LEMMA InitInv ==
  ASSUME Init, Protectable
  PROVE  Inv
<1>1. attempts = 0 /\ batch = {} /\ created = FALSE /\ header = Blank /\ phase = "closed"
      /\ journal = None /\ crashKinds \in {{"process"}, {"machine"}}
      /\ 0 \in Versions
  BY BoundsAssumption DEF Init, Protectable, Versions
<1>2. Block(0) \in ValidBlock /\ Block(0).version = 0
  BY <1>1, Kinds
<1>3. FilesTyped
  <2>1. blocks = [b \in Blocks |-> Block(0)] /\ blocksDisk = [b \in Blocks |-> {Block(0)}]
    BY DEF Init
  <2>2. /\ blocks \in [Blocks -> ValidBlock \cup {Torn}]
        /\ blocksDisk \in [Blocks -> SUBSET (ValidBlock \cup {Torn})]
        /\ \A b \in Blocks : blocks[b] \in blocksDisk[b]
    BY <1>2, <2>1
  <2>3. headerDisk = {Blank} /\ journalDisk = {None}
    BY DEF Init
  <2>4. attempts \in 0 .. MaxAttempts /\ batch \subseteq Blocks /\ created \in BOOLEAN
    BY <1>1 DEF Versions
  <2>5. /\ header \in ValidHeader \cup {Blank, Torn}
        /\ header \in headerDisk /\ headerDisk \subseteq ValidHeader \cup {Blank, Torn}
        /\ journal \in journalDisk
    BY <1>1, <2>3
  <2>. QED BY <1>1, <2>2, <2>4, <2>5 DEF FilesTyped
<1>4. StableInv
  BY <1>1, <1>2 DEF Init, StableInv, InFlight
<1>5. /\ Headers = {Blank} /\ Journals = {None} /\ VersionOf(Blank) = 0
      /\ \A b \in Blocks : Held(b) = {blocks[b]}
  BY Kinds DEF Init, Headers, Journals, Held, VersionOf
<1>6. NoneApplies /\ Settled
  BY <1>1, <1>5, Kinds DEF Init, NoneApplies, Applicable, Settled, HeaderSettled, BlocksSettled
<1>7. ClosedInv
  BY <1>1, <1>5, <1>6 DEF Init, ClosedInv
<1>. QED BY <1>1, <1>3, <1>4, <1>7 DEF Inv, PhaseInv

\* So does a state in which nothing has changed.
LEMMA StutterInv ==
  ASSUME Inv, UNCHANGED vars
  PROVE  Inv'
<1>. USE DEF vars, fileVars, journalVars, txVars, ghostVars
<1>1. FilesTyped' /\ StableInv'
  BY DEF Inv, FilesTyped, StableInv
<1>2. UNCHANGED <<Headers, Journals>> /\ \A b : Held(b)' = Held(b)
  BY DEF Headers, Journals, Held
<1>3. UNCHANGED <<HeaderSettled, BlocksSettled, Settled, NoneApplies, New, Overwritten, NextHeader>>
  BY <1>2 DEF HeaderSettled, BlocksSettled, Settled, NoneApplies, New, Overwritten, NextHeader
<1>4. UNCHANGED <<OpenedInv, ClosedInv, RejectedInv>>
  BY <1>2, <1>3 DEF OpenedInv, ClosedInv, RejectedInv, Restores
<1>5. UNCHANGED <<OpenInv, SealedInv, JournaledInv, SyncedInv, HeaderWrittenInv>>
  BY <1>2, <1>3, <1>4 DEF OpenInv, Staged, SealedInv, JournaledInv, SyncedInv, HeaderWrittenInv,
                          Protects, Restores, BufferOf
<1>6. UNCHANGED <<ApplyingInv, AppliedInv, AppliedHeaderInv>>
  BY <1>2, <1>3 DEF Applies, ApplyingInv, AppliedInv, AppliedHeaderInv, Restores
<1>7. PhaseInv'
  BY <1>4, <1>5, <1>6 DEF Inv, PhaseInv
<1>. QED BY <1>1, <1>7 DEF Inv

\* Every step keeps the inductive invariant.
LEMMA StepInv ==
  ASSUME Inv, [Next]_vars, Protectable
  PROVE  Inv'
<1>1. UnprotectedCrashes = FALSE
  BY DEF Protectable
<1>2. CASE Open
  <2>1. CASE \E kept \in BOOLEAN : OpenIgnoring(kept) \/ ApplyDone(kept)
    BY <2>1, OpenIgnoringStep, ApplyDoneStep
  <2>2. CASE \E b \in DOMAIN todo : ApplyBlock(b)
    BY <2>2, ApplyBlockStep
  <2>. QED BY <1>2, <2>1, <2>2, OpenCleanStep, OpenApplyingStep, ApplySyncStep, ApplyHeaderStep
           DEF Open
<1>3. CASE Transact
  <2>1. CASE \E b \in Blocks, full \in BOOLEAN : StageBlock(b, full)
    BY <2>1, StageBlockStep
  <2>2. CASE \E b \in DOMAIN todo : WriteBlock(b)
    BY <2>2, WriteBlockStep
  <2>3. CASE \E kept \in BOOLEAN : EndTransaction(kept)
    BY <2>3, EndTransactionStep
  <2>. QED BY <1>3, <2>1, <2>2, <2>3, BeginStep, CommitStep, SyncJournalStep, ResetJournalStep,
              WriteHeaderStep, SyncHeaderStep, CloseStep
           DEF Transact
<1>4. CASE Crash
  BY <1>1, <1>4, CrashStep
<1>5. CASE Stuck \/ UNCHANGED vars
  BY <1>5, StutterInv DEF Stuck
<1>. QED BY <1>2, <1>3, <1>4, <1>5 DEF Next

\* The files hold the last commit, or what restores it, in every reachable
\* state.
THEOREM CommitRecoverable == Protectable => (Spec => []Inv)
<1>. SUFFICES ASSUME Protectable PROVE Spec => []Inv
  OBVIOUS
<1>1. Init => Inv
  BY InitInv
<1>2. Inv /\ [Next]_vars => Inv'
  BY StepInv
<1>. QED BY <1>1, <1>2, PTL DEF Spec

\* An opened store has its last commit as a whole, header and blocks, or not
\* at all.
THEOREM CommitsWhole == Protectable => (Spec => []AllOrNothing)
<1>. SUFFICES ASSUME Protectable PROVE Spec => []AllOrNothing
  OBVIOUS
<1>1. Inv => AllOrNothing
  <2>. SUFFICES ASSUME Inv, phase = "opened", header.kind = "header", NEW b \in Blocks
                PROVE  /\ blocks[b] # Torn
                       /\ b \in batch => (header.version = attempts <=> blocks[b] = Block(attempts))
    BY DEF AllOrNothing
  <2>1. StableInv /\ Settled /\ attempts \in 0 .. MaxAttempts
    BY DEF Inv, PhaseInv, OpenedInv, FilesTyped
  <2>2. blocks[b] = stable.blocks[b] /\ header.version = stable.version
    BY <2>1 DEF Settled, BlocksSettled, HeaderSettled, VersionOf
  <2>3. stable.blocks[b] \in ValidBlock
    BY <2>1 DEF StableInv
  <2>4. blocks[b] # Torn /\ (blocks[b] = Block(attempts) <=> stable.blocks[b].version = attempts)
    BY <2>2, <2>3 DEF ValidBlock, Torn, Block
  <2>5. b \in batch => (stable.version = attempts <=> stable.blocks[b].version = attempts)
    BY <2>1 DEF StableInv, InFlight
  <2>. QED BY <2>2, <2>4, <2>5
<1>2. Spec => []Inv
  BY CommitRecoverable
<1>. QED BY <1>1, <1>2, PTL

\* open() never accepts a store with a torn header: whatever a crash leaves,
\* either the journal restores the header or the store is recognized as new.
THEOREM AcceptedStoreHasHeader == Protectable => (Spec => []AcceptedHeaderValid)
<1>. SUFFICES ASSUME Protectable PROVE Spec => []AcceptedHeaderValid
  OBVIOUS
<1>1. Inv => AcceptedHeaderValid
  BY DEF Inv, PhaseInv, AcceptedHeaderValid
<1>2. Spec => []Inv
  BY CommitRecoverable
<1>. QED BY <1>1, <1>2, PTL

\* Type correctness: no header, block or journal is ever of another kind, and
\* an open transaction has staged exactly the blocks that it has edited.
THEOREM FilesAndBuffersTyped == Protectable => (Spec => []TypeOK)
<1>. SUFFICES ASSUME Protectable PROVE Spec => []TypeOK
  OBVIOUS
<1>1. Inv => TypeOK
  <2>. SUFFICES ASSUME Inv PROVE TypeOK
    OBVIOUS
  <2>1. FilesTyped /\ StableInv /\ PhaseInv
    BY DEF Inv
  <2>2. /\ DOMAIN NoBlocks = {} /\ attempts \in Versions
        /\ \A v \in Versions : Block(v) \in ValidBlock
        /\ \A b \in Blocks : stable.blocks[b] \in ValidBlock
    BY <2>1, Kinds DEF FilesTyped, StableInv, Versions, NoBlocks
  <2>3. phase \in InFlight => attempts \in Nat \ {0}
    BY <2>1, NewTyped DEF FilesTyped
  <2>4. ASSUME header \in ValidHeader \cup {Blank, Torn}, NextHeader, phase \in InFlight
        PROVE  header_ \in ValidHeader
    <3>1. (IF header.kind = "header" THEN header.id + 1 ELSE 1) \in Nat \ {0}
      BY <2>4, Kinds DEF ValidHeader
    <3>. QED BY <2>2, <2>3, <2>4, <3>1 DEF NextHeader, Header, ValidHeader
  <2>5. header_ \in ValidHeader \cup {Blank}
    <3>1. CASE phase = "open"
      BY <2>1, <3>1 DEF PhaseInv, OpenInv, OpenedInv, FilesTyped, Torn
    <3>2. CASE phase \in {"sealed", "journaled", "synced"}
      BY <2>1, <2>4, <3>2 DEF PhaseInv, SealedInv, JournaledInv, SyncedInv, FilesTyped, InFlight
    <3>3. CASE phase = "headerWritten"
      BY <2>1, <3>3 DEF PhaseInv, HeaderWrittenInv, FilesTyped, Torn
    <3>. QED BY <2>1, <3>1, <3>2, <3>3 DEF PhaseInv, ClosedInv, ApplyingInv, AppliedInv, Applies,
                                           AppliedHeaderInv, RejectedInv
  <2>6. DOMAIN todo \subseteq Blocks /\ \A b \in DOMAIN todo : todo[b] \in ValidBlock
    <3>1. CASE phase \in {"open", "sealed", "journaled"}
      <4>1. DOMAIN todo \subseteq Blocks
        BY <2>1, <3>1 DEF PhaseInv, OpenInv, SealedInv, Staged, JournaledInv, FilesTyped
      <4>2. \A b \in DOMAIN todo : \E v \in Versions : todo[b] = Block(v)
        BY <2>1, <2>2, <3>1 DEF PhaseInv, OpenInv, SealedInv, Staged, JournaledInv
      <4>. QED BY <2>2, <4>1, <4>2
    <3>2. CASE phase = "applying"
      BY <2>1, <2>2, <3>2 DEF PhaseInv, ApplyingInv, Applies, Restores
    <3>3. CASE todo = NoBlocks
      BY <2>2, <3>3
    <3>. QED BY <2>1, <3>1, <3>2, <3>3 DEF PhaseInv, ClosedInv, SyncedInv, HeaderWrittenInv,
                                           AppliedInv, AppliedHeaderInv, RejectedInv
  <2>7. Range(todo) \subseteq ValidBlock
    BY <2>6 DEF Range
  <2>8. phase = "open" => DOMAIN todo = DOMAIN buf.blocks
    BY <2>1 DEF PhaseInv, OpenInv, Staged
  <2>9. \A b \in Blocks : blocksDisk[b] \subseteq ValidBlock \cup {Torn}
    BY <2>1 DEF FilesTyped
  <2>10. phase \in {"closed", "opened", "open", "sealed", "journaled", "synced",
                    "headerWritten", "applying", "applied", "appliedHeader",
                    "rejected", "damaged"}
    BY <2>1 DEF PhaseInv
  <2>. QED BY <2>1, <2>5, <2>6, <2>7, <2>8, <2>9, <2>10 DEF FilesTyped, TypeOK
<1>2. Spec => []Inv
  BY CommitRecoverable
<1>. QED BY <1>1, <1>2, PTL

-----------------------------------------------------------------------------
(* The refinement of the atomic store *)

\* What a process that opened the store now would find is the last commit, or
\* the next once its header is written.
ContentKnown == Content = IF phase = "headerWritten" THEN New ELSE stable

\* It is so in every state of the inductive invariant.
LEMMA ContentIs ==
  ASSUME Inv
  PROVE  ContentKnown
<1>. USE DEF ContentKnown
<1>1. FilesTyped /\ StableInv
  BY DEF Inv
<1>2. /\ header \in Headers /\ journal \in Journals
      /\ blocks \in [Blocks -> ValidBlock \cup {Torn}]
      /\ \A b \in Blocks : blocks[b] \in Held(b)
      /\ stable = [version |-> stable.version, blocks |-> stable.blocks]
      /\ New = [version |-> attempts, blocks |-> New.blocks]
  BY <1>1, InFiles DEF FilesTyped, StableInv, New
<1>3. CASE Unprotected /\ phase # "headerWritten"
  BY <1>3 DEF Content
<1>4. CASE phase \in {"rejected", "damaged"}
  <2>1. header = Torn \/ header = Blank \/ header.kind = "header"
    BY <1>1, Kinds DEF FilesTyped, ValidHeader
  <2>2. journal = None /\ Settled /\ ~ Applicable(header, journal)
    BY <1>4, Kinds DEF Inv, PhaseInv, RejectedInv, Applicable
  <2>. QED BY <1>2, <1>4, <2>2, Outcomes
           DEF Content, Unprotected, Settled, HeaderSettled, BlocksSettled
<1>5. CASE phase = "headerWritten"
  BY <1>5, HeaderTakes DEF Content
<1>6. CASE ~ Unprotected /\ phase \notin {"rejected", "damaged", "headerWritten"}
  <2>1. Content = Outcome(header, blocks, journal)
    BY <1>6 DEF Content
  <2>2. Restoring(header, blocks, journal) \/ Intact(header, blocks, journal)
    BY <1>2, <1>6, CrashFinds DEF Done
  <2>3. CASE Restoring(header, blocks, journal)
    BY <1>2, <1>6, <2>1, <2>3, Restored DEF Restoring
  <2>4. CASE Intact(header, blocks, journal)
    BY <1>2, <1>6, <2>1, <2>4, Outcomes DEF Intact
  <2>. QED BY <2>2, <2>3, <2>4
<1>. QED BY <1>3, <1>4, <1>5, <1>6

\* A step of the journal is a step of the atomic store, or none.
LEMMA StepIsAtomic ==
  ASSUME Inv, [Next]_vars, Protectable, ContentKnown, ContentKnown'
  PROVE  [Atomic!Next]_(Atomic!vars)
<1>. USE DEF Atomic!vars
<1>1. /\ Content = IF phase = "headerWritten" THEN New ELSE stable
      /\ Content' = IF phase' = "headerWritten" THEN New' ELSE stable'
  BY DEF ContentKnown
<1>2. ASSUME stable' = stable, phase # "headerWritten", phase' # "headerWritten"
      PROVE  UNCHANGED <<Content, stable>>
  BY <1>1, <1>2
<1>3. CASE Open
  <2>1. stable' = stable /\ phase # "headerWritten" /\ phase' # "headerWritten"
    BY <1>3 DEF Open, OpenClean, OpenApplying, OpenIgnoring, ApplyBlock, ApplySync, ApplyHeader,
                ApplyDone, ghostVars
  <2>. QED BY <1>2, <2>1
<1>4. CASE WriteHeader
  <2>1. /\ phase = "synced" /\ phase' = "headerWritten"
        /\ stable' = stable /\ attempts' = attempts /\ batch' = batch
    BY <1>4 DEF WriteHeader, ghostVars
  <2>2. New' = New /\ New \in [version : Versions, blocks : [Blocks -> ValidBlock]]
    BY <2>1, NewTyped DEF InFlight, New
  <2>3. New \in [version : Versions, blocks : [Blocks -> ValidBlock \cup {Torn}]]
    BY <2>2
  <2>4. Content = stable /\ Content' = New
    BY <1>1, <2>1, <2>2
  <2>. QED BY <2>1, <2>3, <2>4 DEF Atomic!Next, Atomic!Commit
<1>5. CASE SyncHeader
  <2>1. phase = "headerWritten" /\ phase' = "open" /\ stable' = New
    BY <1>5, SyncHeaderStep DEF SyncHeader
  <2>2. Content = New /\ Content' = stable'
    BY <1>1, <2>1
  <2>. QED BY <2>1, <2>2 DEF Atomic!Next, Atomic!Sync
<1>6. CASE Crash
  <2>1. /\ phase' = "closed"
        /\ stable' = stable \/ (phase = "headerWritten" /\ stable' = New)
    BY <1>6, CrashStep DEF Crash, Protectable
  <2>2. Content' = stable' /\ stable' \in {Content, stable}
    BY <1>1, <2>1
  <2>. QED BY <2>2 DEF Atomic!Next, Atomic!Crash
<1>7. CASE UNCHANGED vars
  <2>1. phase' = phase /\ stable' = stable /\ New' = New
    BY <1>7 DEF vars, ghostVars, New
  <2>. QED BY <1>1, <2>1
<1>8. CASE Transact /\ ~ WriteHeader /\ ~ SyncHeader
  <2>1. stable' = stable /\ phase # "headerWritten" /\ phase' # "headerWritten"
    BY <1>8 DEF Transact, Begin, StageBlock, Commit, SyncJournal, WriteBlock, ResetJournal,
                EndTransaction, Close, ghostVars
  <2>. QED BY <1>2, <2>1
<1>. QED BY <1>3, <1>4, <1>5, <1>6, <1>7, <1>8 DEF Next, Stuck

\* The journal, its sync phases and the recovery implement the store whose
\* commits are atomic and whose durable commits survive every crash.
THEOREM JournalRefinesAtomicStore == Protectable => (Spec => ImplementsAtomicStore)
<1>. SUFFICES ASSUME Protectable PROVE Spec => ImplementsAtomicStore
  OBVIOUS
<1>1. Init => Atomic!Init
  <2>. SUFFICES ASSUME Init PROVE Content = stable
    BY DEF Atomic!Init, Init
  <2>1. Inv /\ phase # "headerWritten"
    BY InitInv DEF Init
  <2>. QED BY <2>1, ContentIs DEF ContentKnown
<1>2. Inv /\ ContentKnown /\ ContentKnown' /\ [Next]_vars => [Atomic!Next]_(Atomic!vars)
  BY StepIsAtomic
<1>3. Spec => []Inv
  BY CommitRecoverable
<1>4. Inv => ContentKnown
  BY ContentIs
<1>. QED BY <1>1, <1>2, <1>3, <1>4, PTL DEF Spec, ImplementsAtomicStore, Atomic!Spec
=============================================================================
