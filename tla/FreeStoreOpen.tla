------------------------------- MODULE FreeStoreOpen -------------------------------
(***************************************************************************)
(* Processes that open the same store: FreeStore::open and ensureIntegrity *)
(* with their locks, against writers that commit, end or die.              *)
(*                                                                         *)
(* Locks are on three bytes of the file: 0 (LOCK_OFS, the active snapshot, *)
(* shared by its readers), 1 (writing), 2 (the other snapshot, never       *)
(* active in this version).  An exclusive writer takes all three.          *)
(*                                                                         *)
(* Processes read the header through a shared mapping, so they may see it  *)
(* half written.  What the blocks hold is abstracted to a version and to   *)
(* whether some are overwritten ("mixed"); FreeStoreJournal models the     *)
(* writes in detail.  Writers have made a first commit, so that their      *)
(* journal has a header.                                                   *)
(***************************************************************************)
EXTENDS Naturals, FiniteSets

CONSTANTS Readers, Writers, ExclusiveWriters,
          TryExclusive,   \* writers that ask for exclusive use if possible
          Systems,        \* a subset of {"posix", "windows"}
          MaxCommits,     \* bound: commits begun
          MaxDeaths       \* bound: processes that die

ASSUME ProcessAssumption ==
  /\ Readers \cap (Writers \cup ExclusiveWriters \cup TryExclusive) = {}
  /\ Writers \cap (ExclusiveWriters \cup TryExclusive) = {}
  /\ ExclusiveWriters \cap TryExclusive = {}
  /\ Systems \subseteq {"posix", "windows"}
ASSUME BoundsAssumption == MaxCommits \in Nat /\ MaxDeaths \in Nat

AllWriters == Writers \cup ExclusiveWriters \cup TryExclusive
Processes == Readers \cup AllWriters

\* Values of a journal's mode; a reader acts on it.
ModifiedInactive == "inactive"
ModifiedAll == "all"
Modes == {ModifiedInactive, ModifiedAll}

NoJournal == [kind |-> "none"]
\* A journal file that begin() has created, and one that seal() has written.
\* "alone" is history, not in the file: whether its writer has the store to itself.
Empty(file) == [kind |-> "empty", file |-> file]
Sealed(file, id, version, mode, alone) ==
  [kind |-> "sealed", file |-> file, id |-> id, version |-> version, mode |-> mode,
   alone |-> alone]

VARIABLES
  system,    \* on "posix" an exclusive lock needs a handle open for writing, and
             \* closing any handle of a file drops the process's locks of it
  pc,        \* where each process is
  locks,     \* the locks held: owner, byte and whether shared
  store,     \* the file: commit ID, version, is the header's checksum right,
             \* and the mode of the writer whose overwriting is unfinished
  journal,   \* the journal file
  seen,      \* basicHeader.commitId of each reader
  headerOk,  \* isHeaderValid
  journalSeen, \* journalHeader, and the file it was read from
  asks,        \* does open()'s mode still ask for exclusive use
  exclusively, \* lockedExclusively: set once in an open, never cleared in it
  commits, deaths

vars == <<system, pc, locks, store, journal, seen, headerOk, journalSeen,
          asks, exclusively, commits, deaths>>
local == <<seen, headerOk, journalSeen>>
settings == <<system, asks, exclusively, commits, deaths>>

AsksAtFirst(p) == p \in ExclusiveWriters \cup TryExclusive

Init ==
  /\ system \in Systems
  /\ pc = [p \in Processes |-> "start"]
  /\ locks = {}
  /\ store = [id |-> 1, version |-> 0, valid |-> TRUE, mixed |-> "no"]
  /\ journal = NoJournal
  /\ seen = [p \in Processes |-> 0]
  /\ headerOk = [p \in Processes |-> FALSE]
  /\ journalSeen = [p \in Processes |-> NoJournal]
  /\ asks = [p \in Processes |-> AsksAtFirst(p)]
  /\ exclusively = [p \in Processes |-> FALSE]
  /\ commits = 0
  /\ deaths = 0

Goto(p, label) == pc' = [pc EXCEPT ![p] = label]

\* What open() had in local variables is gone.
Leave(p) ==
  /\ seen' = [seen EXCEPT ![p] = 0]
  /\ headerOk' = [headerOk EXCEPT ![p] = FALSE]
  /\ journalSeen' = [journalSeen EXCEPT ![p] = NoJournal]

\* p asks for a lock on some bytes.
CanLock(p, bytes, shared) ==
  /\ system = "posix" /\ ~ shared => p \in AllWriters
  /\ \A l \in locks :
       l.owner # p /\ l.byte \in bytes => shared /\ l.shared
LocksOf(p, bytes, shared) ==
  {[owner |-> p, byte |-> b, shared |-> shared] : b \in bytes}
Held(p) == {l \in locks : l.owner = p}

-----------------------------------------------------------------------------
(* open() *)

ReadBasicHeader(p) ==
  /\ p \in Readers
  /\ pc[p] = "start"
  /\ seen' = [seen EXCEPT ![p] = store.id]
  /\ Goto(p, "lock")
  /\ UNCHANGED <<locks, store, journal, headerOk, journalSeen, settings>>

ReaderLock(p) ==
  /\ pc[p] = "lock"
  /\ IF CanLock(p, {0}, TRUE)
     THEN locks' = locks \cup LocksOf(p, {0}, TRUE) /\ Goto(p, "compare")
     ELSE UNCHANGED locks /\ Goto(p, "failed")
  /\ UNCHANGED <<store, journal, local, settings>>

\* The commit ID in the mapping against the one read before: the latter is
\* never read again.
ReaderCompare(p) ==
  /\ pc[p] = "compare"
  /\ IF store.id = seen[p]
     THEN UNCHANGED locks /\ Goto(p, "verify")
     ELSE locks' = locks \ Held(p) /\ Goto(p, "lock")
  /\ UNCHANGED <<store, journal, local, settings>>

\* Wrong: an exclusive writer locks only the snapshots.
BytesToLockSnapshots(p) == IF asks[p] THEN {0, 2} ELSE {1}

\* Bytes a writer locks: all three if it asks for exclusive use.
BytesToLock(p) == IF asks[p] THEN {0, 1, 2} ELSE {1}

\* Wrong: a writer tries again until it gets the lock.
WriterLockSpins(p) ==
  /\ p \in AllWriters
  /\ pc[p] = "start"
  /\ IF CanLock(p, BytesToLock(p), FALSE)
     THEN locks' = locks \cup LocksOf(p, BytesToLock(p), FALSE) /\ Goto(p, "verify")
     ELSE UNCHANGED locks /\ Goto(p, "start")
  /\ UNCHANGED <<store, journal, local, settings>>

\* A writer that gets its lock remembers whether it was for exclusive use; one
\* that only tries for it goes on without, and asks no more, not even when it
\* starts over after a rollback.
WriterLock(p) ==
  /\ p \in AllWriters
  /\ pc[p] = "start"
  /\ \/ /\ CanLock(p, BytesToLock(p), FALSE)
        /\ locks' = locks \cup LocksOf(p, BytesToLock(p), FALSE)
        /\ exclusively' = [exclusively EXCEPT ![p] = @ \/ asks[p]]
        /\ Goto(p, "verify")
        /\ UNCHANGED asks
     \/ /\ ~ CanLock(p, BytesToLock(p), FALSE)
        /\ asks[p] /\ p \in TryExclusive
        /\ asks' = [asks EXCEPT ![p] = FALSE]
        /\ UNCHANGED <<pc, locks, exclusively>>
     \/ /\ ~ CanLock(p, BytesToLock(p), FALSE)
        /\ ~ (asks[p] /\ p \in TryExclusive)
        /\ Goto(p, "failed")
        /\ UNCHANGED <<locks, asks, exclusively>>
  /\ UNCHANGED <<system, store, journal, local, commits, deaths>>

-----------------------------------------------------------------------------
(* ensureIntegrity() *)

VerifyHeader(p) ==
  /\ pc[p] = "verify"
  /\ headerOk' = [headerOk EXCEPT ![p] = store.valid]
  /\ Goto(p, "journal")
  /\ UNCHANGED <<locks, store, journal, seen, journalSeen, settings>>

NoJournalFound(p) ==
  /\ pc[p] = "journal"
  /\ journal = NoJournal
  /\ Goto(p, IF headerOk[p] THEN "opened" ELSE "rejected")
  /\ Leave(p)
  /\ UNCHANGED <<locks, store, journal, settings>>

\* What the reader finds in the journal's header.  That of an empty file is not
\* initialized: its mode may be anything.
JournalHeaders ==
  IF journal.kind = "sealed" THEN {journal}
  ELSE {[kind |-> "empty", file |-> journal.file, mode |-> m] : m \in Modes}

ReadJournalHeader(p) ==
  /\ pc[p] = "journal"
  /\ journal # NoJournal
  /\ \E h \in JournalHeaders : journalSeen' = [journalSeen EXCEPT ![p] = h]
  /\ Goto(p, IF p \in Readers THEN "lockJournal" ELSE "recover")
  /\ UNCHANGED <<locks, store, journal, seen, headerOk, settings>>

\* Wrong: a reader deals with the journal without that lock.
LockJournalFree(p) ==
  /\ pc[p] = "lockJournal"
  /\ Goto(p, "recover")
  /\ UNCHANGED <<locks, store, journal, local, settings>>

\* A reader needs the lock for writing to deal with the journal.
LockJournal(p) ==
  /\ pc[p] = "lockJournal"
  /\ CanLock(p, {1}, FALSE)
  /\ locks' = locks \cup LocksOf(p, {1}, FALSE)
  /\ Goto(p, "recover")
  /\ UNCHANGED <<store, journal, local, settings>>

\* Wrong: the lock on the snapshot is kept.
RetryLocked(p) ==
  /\ pc[p] = "lockJournal"
  /\ ~ CanLock(p, {1}, FALSE)
  /\ ~ headerOk[p] \/ journalSeen[p].mode = ModifiedAll
  /\ Goto(p, "start")
  /\ Leave(p)
  /\ UNCHANGED <<locks, store, journal, settings>>

\* Result -1: start over.
Retry(p) ==
  /\ pc[p] = "lockJournal"
  /\ ~ CanLock(p, {1}, FALSE)
  /\ ~ headerOk[p] \/ journalSeen[p].mode = ModifiedAll
  /\ locks' = locks \ Held(p)
  /\ Goto(p, "start")
  /\ Leave(p)
  /\ UNCHANGED <<store, journal, settings>>

\* Wrong: the mode of the journal is not looked at.
SkipJournalAnyMode(p) ==
  /\ pc[p] = "lockJournal"
  /\ ~ CanLock(p, {1}, FALSE)
  /\ headerOk[p]
  /\ Goto(p, "opened")
  /\ Leave(p)
  /\ UNCHANGED <<locks, store, journal, settings>>

\* Result 0: the journal is another process's business.
SkipJournal(p) ==
  /\ pc[p] = "lockJournal"
  /\ ~ CanLock(p, {1}, FALSE)
  /\ headerOk[p] /\ journalSeen[p].mode = ModifiedInactive
  /\ Goto(p, "opened")
  /\ Leave(p)
  /\ UNCHANGED <<locks, store, journal, settings>>

\* The file that was opened, be it still there or not.
JournalOpened(p) ==
  IF journal # NoJournal /\ journal.file = journalSeen[p].file
  THEN journal ELSE journalSeen[p]

\* Wrong: the journal is applied only if the header is invalid.
AppliesIfInvalid(p) == JournalOpened(p).kind = "sealed" /\ ~ headerOk[p]

\* Wrong: any valid journal is applied.
AppliesAny(p) == JournalOpened(p).kind = "sealed"

\* The header of the journal and the validity of the store's header are those
\* read before the lock was taken.
Applies(p) ==
  /\ JournalOpened(p).kind = "sealed"
  /\ \/ journalSeen[p].kind = "sealed" /\ journalSeen[p].id = store.id
     \/ ~ headerOk[p]

\* The second handle a reader has opened is closed when ensureIntegrity returns.
LocksAfterRecovery(p) ==
  IF p \in AllWriters THEN locks
  ELSE IF system = "posix" THEN locks \ Held(p)
  ELSE locks \ LocksOf(p, {1}, FALSE)

ApplyBlocks(p) ==
  /\ pc[p] = "recover"
  /\ Applies(p)
  /\ store' = [store EXCEPT !.mixed = JournalOpened(p).mode]
  /\ Goto(p, "applying")
  /\ UNCHANGED <<locks, journal, local, settings>>

ApplyHeader(p) ==
  /\ pc[p] = "applying"
  /\ store' = [id |-> JournalOpened(p).id + 1, version |-> JournalOpened(p).version,
               valid |-> TRUE, mixed |-> "no"]
  /\ Goto(p, "applied")
  /\ UNCHANGED <<locks, journal, local, settings>>

\* Result 1: the journal is removed, all locks are given up, open starts over.
ApplyDone(p) ==
  /\ pc[p] = "applied"
  /\ journal' = NoJournal
  /\ locks' = locks \ Held(p)
  /\ Goto(p, "start")
  /\ Leave(p)
  /\ UNCHANGED <<store, settings>>

\* Result 0: the journal does not apply, and is removed.
Discard(p) ==
  /\ pc[p] = "recover"
  /\ ~ Applies(p)
  /\ journal' = NoJournal
  /\ locks' = LocksAfterRecovery(p)
  /\ Goto(p, "opened")
  /\ Leave(p)
  /\ UNCHANGED <<store, settings>>

-----------------------------------------------------------------------------
(* What a process does with an open store *)

\* p has the store to itself.
Alone(p) == LocksOf(p, {0, 1, 2}, FALSE) \subseteq locks

\* Wrong: a writer that was told to try has got what it tried for.
ModeOfWish(p) == IF AsksAtFirst(p) THEN ModifiedAll ELSE ModifiedInactive

\* What a writer takes itself to have: lockedExclusively_, not its locks.
ModeOf(p) == IF exclusively[p] THEN ModifiedAll ELSE ModifiedInactive

BeginTransaction(p) ==
  /\ p \in AllWriters
  /\ pc[p] = "opened"
  /\ commits < MaxCommits
  /\ journal' = IF journal = NoJournal THEN Empty(commits + 1) ELSE journal
  /\ Goto(p, "begun")
  /\ UNCHANGED <<locks, store, local, settings>>

SealJournal(p) ==
  /\ pc[p] = "begun"
  /\ commits < MaxCommits
  /\ commits' = commits + 1
  /\ journal' = Sealed(journal.file, store.id, store.version, ModeOf(p), Alone(p))
  /\ Goto(p, "sealed")
  /\ UNCHANGED <<system, locks, store, local, asks, exclusively, deaths>>

OverwriteBlocks(p) ==
  /\ pc[p] = "sealed"
  /\ store' = [store EXCEPT !.mixed = ModeOf(p)]
  /\ Goto(p, "overwritten")
  /\ UNCHANGED <<locks, journal, local, settings>>

\* Others can see the header while it is being written.
WriteHeader(p) ==
  /\ pc[p] = "overwritten"
  /\ store' = [store EXCEPT !.valid = FALSE]
  /\ Goto(p, "writing")
  /\ UNCHANGED <<locks, journal, local, settings>>

HeaderWritten(p) ==
  /\ pc[p] = "writing"
  /\ store' = [id |-> store.id + 1, version |-> commits, valid |-> TRUE, mixed |-> "no"]
  /\ Goto(p, "begun")
  /\ UNCHANGED <<locks, journal, local, settings>>

EndTransaction(p) ==
  /\ pc[p] = "begun"
  /\ journal' = NoJournal
  /\ Goto(p, "ended")
  /\ UNCHANGED <<locks, store, local, settings>>

\* Closing the file gives up the locks; the process may open it again.
Close(p) ==
  /\ pc[p] = "ended" \/ (p \in Readers /\ pc[p] = "opened")
     \/ (p \in AllWriters /\ pc[p] = "opened" /\ commits = MaxCommits)
  /\ locks' = locks \ Held(p)
  /\ Goto(p, "closed")
  /\ UNCHANGED <<store, journal, local, settings>>

\* Another open: one that has thrown has closed the file.
Again(p) ==
  /\ pc[p] \in {"closed", "failed", "rejected", "dead"}
  /\ locks' = locks \ Held(p)
  /\ asks' = [asks EXCEPT ![p] = AsksAtFirst(p)]
  /\ exclusively' = [exclusively EXCEPT ![p] = FALSE]
  /\ Goto(p, "start")
  /\ UNCHANGED <<system, store, journal, local, commits, deaths>>

\* The process dies: what it has written stays.
Die(p) ==
  /\ deaths < MaxDeaths
  /\ pc[p] \notin {"start", "closed", "failed", "rejected", "dead"}
  /\ deaths' = deaths + 1
  /\ locks' = locks \ Held(p)
  /\ Goto(p, "dead")
  /\ Leave(p)
  /\ UNCHANGED <<system, store, journal, asks, exclusively, commits>>

Opening(p) ==
  \/ ReadBasicHeader(p) \/ ReaderLock(p) \/ ReaderCompare(p) \/ WriterLock(p)
  \/ VerifyHeader(p) \/ NoJournalFound(p) \/ ReadJournalHeader(p)
  \/ LockJournal(p) \/ Retry(p) \/ SkipJournal(p)
  \/ ApplyBlocks(p) \/ ApplyHeader(p) \/ ApplyDone(p) \/ Discard(p)

Writing(p) ==
  \/ SealJournal(p) \/ OverwriteBlocks(p) \/ WriteHeader(p) \/ HeaderWritten(p)
  \/ EndTransaction(p)

Next == \E p \in Processes :
  Opening(p) \/ BeginTransaction(p) \/ Writing(p) \/ Close(p) \/ Again(p) \/ Die(p)

\* A process that opens a store, and one that has begun to write, goes on.
Fairness == \A p \in Processes : WF_vars(Opening(p)) /\ WF_vars(Writing(p))

Spec == Init /\ [][Next]_vars /\ Fairness

-----------------------------------------------------------------------------
Labels == {"start", "lock", "compare", "verify", "journal", "lockJournal",
           "recover", "applying", "applied", "opened", "begun", "sealed",
           "overwritten", "writing", "ended", "closed", "failed", "rejected", "dead"}

\* Also: a process that starts over, or has closed the store, holds no lock.
TypeOK ==
  /\ pc \in [Processes -> Labels]
  /\ locks \subseteq [owner : Processes, byte : 0 .. 2, shared : BOOLEAN]
  /\ store.id \in 1 .. 1 + MaxCommits + MaxDeaths
  /\ store.version \in 0 .. MaxCommits
  /\ store.mixed \in Modes \cup {"no"}
  /\ journal.kind \in {"none", "empty", "sealed"}
  /\ asks \in [Processes -> BOOLEAN] /\ exclusively \in [Processes -> BOOLEAN]
  /\ commits \in 0 .. MaxCommits /\ deaths \in 0 .. MaxDeaths
  /\ \A p \in Processes : pc[p] \in {"start", "closed", "dead"} => Held(p) = {}

Changing == {"recover", "applying", "applied", "begun", "sealed", "overwritten", "writing"}

\* At most one process changes the store or its journal: one commits, or one
\* recovers, and a writer that is idle is alone too.
OneWriter ==
  \A p, q \in Processes :
    /\ pc[p] \in Changing
    /\ pc[q] \in Changing \/ (q \in AllWriters /\ pc[q] = "opened")
    => p = q

\* A store whose visible blocks are being overwritten by a writer that has it to
\* itself, or were left so by one that died, is open in no reader.
NoReaderSeesMixed ==
  store.mixed = ModifiedAll /\ journal.kind = "sealed" /\ journal.alone =>
    \A r \in Readers : pc[r] # "opened"

WithStore == {"opened", "begun", "sealed", "overwritten", "writing", "ended"}

\* A writer that has the store to itself knows it.  One that has not, but writes
\* as if it had, was asked to try, got the store in an earlier turn of open()'s
\* loop, gave up its locks after a rollback and has not got it again.
OnlyFallbackMistaken ==
  \A p \in AllWriters : pc[p] \in WithStore =>
    /\ Alone(p) => ModeOf(p) = ModifiedAll
    /\ ModeOf(p) = ModifiedAll /\ ~ Alone(p) =>
         p \in TryExclusive /\ ~ asks[p] /\ exclusively[p]

\* While blocks are overwritten, the journal that restores them is there: it is
\* removed only when it has been applied or the commit has finished.
JournalKept ==
  store.mixed # "no" => journal.kind = "sealed" /\ journal.version = store.version

\* The locks of open() and ensureIntegrity() protect the store: one process
\* changes it, and where a reader's handle cannot get the exclusive lock that
\* recovery takes, no journal that is needed is removed and no reader uses the
\* mixed blocks of a writer that has the store to itself.  One case is left
\* where a writer overwrites what readers see, and OnlyFallbackMistaken says
\* that there is no other.
StoreProtected ==
  /\ OneWriter /\ OnlyFallbackMistaken
  /\ system = "posix" => JournalKept /\ NoReaderSeesMixed

\* No process takes back a commit that has finished.
FinishedCommitKept == [][store'.version >= store.version]_vars

\* A writer's open ends: it opens the store or throws.
WriterOpens ==
  \A p \in AllWriters :
    pc[p] = "start" ~> pc[p] \in {"opened", "failed", "rejected", "dead"}

\* No finished commit is taken back where readers cannot recover.
CommitsStay == [][system = "posix" => store'.version >= store.version]_vars

\* Recovery goes forward and ends: commits stay, and a writer's open ends on
\* every system.
RecoveryEnds == CommitsStay /\ WriterOpens

-----------------------------------------------------------------------------
(* What the code's comments say or its names suggest, and the code does not do *)

\* A writer whose lockedExclusively_ is set has the store to itself
\* (FreeStore_Transaction.cpp:90): not one that fell back after a rollback.
ExclusivelyMeansAlone ==
  \A p \in AllWriters : pc[p] \in WithStore /\ exclusively[p] => Alone(p)

\* A reader skips a journal "because either a Writer is active, or another
\* Reader is applying the Journal" (FreeStore.cpp:313-315).
SkipJustified ==
  [][\A r \in Readers : SkipJournal(r) => \E l \in locks : l.byte = 1 /\ l.owner # r]_vars

\* A reader whose commit ID has changed reads the header again (FreeStore.cpp:
\* 82-85), so that its open ends once writers are done.
ReaderOpens ==
  \A r \in Readers :
    pc[r] = "start" ~> pc[r] \in {"opened", "failed", "rejected", "dead"}

\* A store that is refused as corrupted has a header with a wrong checksum
\* (FreeStore.cpp:275).
RefusedIsCorrupted ==
  [][\A p \in Processes : pc[p] = "journal" /\ pc'[p] = "rejected" => ~ store.valid]_vars
=============================================================================
