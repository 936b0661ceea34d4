--------------------------- MODULE FreeStoreOpenProofs ---------------------------
(***************************************************************************)
(* The locks of open() protect a store, however many processes open it, of *)
(* whatever kind, and however often they commit and die.                   *)
(*                                                                         *)
(* The invariant says of each process what its locks are where it is, and  *)
(* what it may rely on while it holds byte 1: nobody else changes the      *)
(* store or the journal.  Of the store it says which journal goes with     *)
(* blocks that are overwritten.  A step of one process concerns the others *)
(* only through the store and the journal (OthersKeep).                    *)
(***************************************************************************)
EXTENDS FreeStoreOpen, TLAPS

\* A lock as a record.
Excl(p, b) == [owner |-> p, byte |-> b, shared |-> FALSE]
Shared(p, b) == [owner |-> p, byte |-> b, shared |-> TRUE]

ReaderLabels == {"start", "lock", "compare", "verify", "journal", "lockJournal",
                 "recover", "applying", "applied", "opened", "closed", "failed",
                 "rejected", "dead"}
WriterLabels == {"start", "verify", "journal", "recover", "applying",
                 "applied", "opened", "begun", "sealed", "overwritten", "writing",
                 "ended", "closed", "failed", "rejected", "dead"}

\* Where a writer has the lock for writing, and a reader that on its snapshot.
WriterIn == {"verify", "journal", "recover", "applying", "applied", "opened",
             "begun", "sealed", "overwritten", "writing", "ended"}
ReaderIn == {"compare", "verify", "journal", "lockJournal", "recover", "opened"}
Recovering == {"recover", "applying", "applied"}

\* A journal is of a commit that has begun.
Fits(j, n) ==
  /\ j.kind \in {"none", "empty", "sealed"}
  /\ j.kind = "sealed" => j.id \in 1 .. n /\ j.version \in 0 .. n /\ j.mode \in Modes

TypeInv ==
  /\ system \in {"posix", "windows"}
  /\ pc \in [Processes -> Labels]
  /\ locks \subseteq [owner : Processes, byte : 0 .. 2, shared : BOOLEAN]
  /\ store \in [id : Nat, version : Nat, valid : BOOLEAN, mixed : Modes \cup {"no"}]
  /\ store.id \in 1 .. 1 + commits /\ store.version \in 0 .. commits
  /\ headerOk \in [Processes -> BOOLEAN]
  /\ DOMAIN journalSeen = Processes
  /\ commits \in 0 .. MaxCommits /\ deaths \in 0 .. MaxDeaths

JournalsOK ==
  /\ Fits(journal, commits)
  /\ journal.kind = "none" => journal = NoJournal
  /\ \A p \in Processes : Fits(journalSeen[p], commits)

\* Locks of different owners on one byte are shared.
LockSafe ==
  \A l, m \in locks : l.byte = m.byte /\ l.owner # m.owner => l.shared /\ m.shared

\* A journal of a writer that has the store to itself, and says so.
IsAll(j) == j.kind = "sealed" /\ j.mode = ModifiedAll /\ j.alone

\* The journal that goes with the store, where only writers recover.
Restores == /\ journal.kind = "sealed"
            /\ journal.id = store.id
            /\ journal.version = store.version

StoreInv ==
  system = "posix" =>
    /\ store.mixed # "no" => Restores /\ journal.mode = store.mixed
    /\ journal.kind = "sealed" /\ journal.id = store.id => Restores
    /\ ~ store.valid => store.mixed # "no"

LocksOK(p) ==
  /\ p \in Readers => pc[p] \in ReaderLabels
  /\ p \in AllWriters => pc[p] \in WriterLabels
  /\ pc[p] \in {"start", "closed", "dead"} => \A l \in locks : l.owner # p
  /\ p \in AllWriters /\ pc[p] \in WriterIn => Excl(p, 1) \in locks
  /\ p \in Readers /\ pc[p] \in ReaderIn => Shared(p, 0) \in locks
  /\ p \in Readers /\ pc[p] \in Recovering => Excl(p, 1) \in locks /\ system # "posix"

\* What p has seen of the journal is what is there.
Saw(p) ==
  /\ journal # NoJournal
  /\ journalSeen[p].file = journal.file
  /\ journal.kind = "sealed" => journalSeen[p] = journal
  /\ journal.kind # "sealed" => journalSeen[p].kind # "sealed"

\* What a process that has the lock for writing relies on.
StageOK(p) ==
  /\ pc[p] = "applying" => JournalOpened(p).kind = "sealed"
  /\ p \in AllWriters /\ pc[p] \in {"journal", "recover"} => headerOk[p] = store.valid
  /\ p \in AllWriters /\ pc[p] \in {"recover", "applying"} => Saw(p)
  /\ pc[p] \in {"sealed", "overwritten", "writing"} =>
       Restores /\ journal.mode = ModeOf(p)
  /\ system = "posix" /\ pc[p] \in {"applied", "begun", "sealed", "ended"}
       => store.mixed = "no"
  /\ system = "posix" /\ p \in AllWriters /\ pc[p] = "opened" => store.mixed = "no"
  /\ system = "posix" /\ pc[p] \in {"applying", "overwritten", "writing"}
       => store.mixed # "no"

\* Where a reader uses the visible blocks, no journal stands for changes of them.
ReaderOK(p) ==
  /\ p \in Readers
  /\ pc[p] = "opened" \/ (pc[p] = "lockJournal" /\ journalSeen[p].mode = ModifiedInactive)
  => ~ IsAll(journal)

ProcessOK(p) == LocksOK(p) /\ StageOK(p) /\ ReaderOK(p)

IInv ==
  /\ TypeInv
  /\ JournalsOK
  /\ LockSafe
  /\ StoreInv
  /\ \A p \in Processes : ProcessOK(p)

-----------------------------------------------------------------------------
(* Roles and locks *)

\* A process is a reader or a writer.
LEMMA Roles ==
  /\ Readers \cap AllWriters = {}
  /\ \A p \in Processes : p \in Readers \/ p \in AllWriters
  BY ProcessAssumption DEF Processes, AllWriters

\* Locks on some bytes, one by one.
LEMMA LocksOfMember ==
  ASSUME NEW p, NEW bytes, NEW shared
  PROVE  /\ \A l \in LocksOf(p, bytes, shared) :
              l.owner = p /\ l.byte \in bytes /\ l.shared = shared
         /\ \A b \in bytes :
              [owner |-> p, byte |-> b, shared |-> shared] \in LocksOf(p, bytes, shared)
  BY DEF LocksOf

\* A writer has the store to itself when it has the three locks.
LEMMA AloneLocks ==
  ASSUME NEW p
  PROVE  Alone(p) <=> Excl(p, 0) \in locks /\ Excl(p, 1) \in locks /\ Excl(p, 2) \in locks
<1>1. LocksOf(p, {0, 1, 2}, FALSE) = {Excl(p, 0), Excl(p, 1), Excl(p, 2)}
  BY DEF LocksOf, Excl
<1>. QED BY <1>1 DEF Alone

\* What a commit says of itself is one of the two modes.
LEMMA ModeOfType ==
  ASSUME NEW p
  PROVE  ModeOf(p) \in Modes
  BY DEF ModeOf, Modes

\* A step of p leaves the other processes where they are.
OnlyMoves(p) ==
  /\ \A q \in Processes : q # p =>
       /\ pc'[q] = pc[q] /\ headerOk'[q] = headerOk[q] /\ journalSeen'[q] = journalSeen[q]
       /\ exclusively'[q] = exclusively[q]
  /\ \A l : l.owner # p => (l \in locks' <=> l \in locks)
  /\ \A l \in locks' : l \in locks \/ l.owner = p
  /\ system' = system

\* Two processes cannot both have the lock for writing, nor can one have it on a
\* snapshot that another one reads.
LEMMA OneHolder ==
  ASSUME LockSafe, NEW p, NEW q, p # q, NEW b, Excl(p, b) \in locks
  PROVE  Excl(q, b) \notin locks /\ Shared(q, b) \notin locks
<1>1. ASSUME NEW m \in locks, m.byte = b, m.owner = q PROVE FALSE
  <2>1. Excl(p, b).byte = b /\ Excl(p, b).owner = p /\ Excl(p, b).shared = FALSE
    BY DEF Excl
  <2>2. Excl(p, b).byte = m.byte /\ Excl(p, b).owner # m.owner
    BY <1>1, <2>1
  <2>3. Excl(p, b).shared
    BY <2>2, Zenon DEF LockSafe
  <2>. QED BY <2>1, <2>3
<1>. QED BY <1>1 DEF Excl, Shared

\* A process keeps what it relies on when another one, that does not touch the
\* store and the journal, makes a step; and also when that one has the lock for
\* writing, unless it lets a reader's blocks be overwritten.
LEMMA OthersKeep ==
  ASSUME IInv, NEW p \in Processes, OnlyMoves(p),
         \/ store' = store /\ journal' = journal
         \/ /\ Excl(p, 1) \in locks
            /\ IsAll(journal') => IsAll(journal) \/ Excl(p, 0) \in locks,
         NEW q \in Processes, q # p
  PROVE  ProcessOK(q)'
<1>1. /\ ProcessOK(q) /\ LockSafe
      /\ pc'[q] = pc[q] /\ headerOk'[q] = headerOk[q] /\ journalSeen'[q] = journalSeen[q]
      /\ system' = system /\ exclusively'[q] = exclusively[q]
  BY DEF IInv, OnlyMoves
<1>2. /\ \A b : Excl(q, b) \in locks' <=> Excl(q, b) \in locks
      /\ \A b : Shared(q, b) \in locks' <=> Shared(q, b) \in locks
  <2>1. \A b : Excl(q, b).owner = q /\ Shared(q, b).owner = q
    BY DEF Excl, Shared
  <2>2. \A l : l.owner = q => (l \in locks' <=> l \in locks)
    BY DEF OnlyMoves
  <2>. QED BY <2>1, <2>2
<1>3. LocksOK(q)'
  <2>1. (\A l \in locks : l.owner # q) => \A l \in locks' : l.owner # q
    BY DEF OnlyMoves
  <2>. QED BY <1>1, <1>2, <2>1 DEF ProcessOK, LocksOK
<1>4. ModeOf(q)' = ModeOf(q)
  BY <1>1 DEF ModeOf
<1>5. CASE store' = store /\ journal' = journal
  <2>1. StageOK(q)'
    BY <1>1, <1>4, <1>5 DEF ProcessOK, StageOK, Saw, Restores, JournalOpened
  <2>2. ReaderOK(q)'
    BY <1>1, <1>5 DEF ProcessOK, ReaderOK, IsAll
  <2>. QED BY <1>3, <2>1, <2>2 DEF ProcessOK
<1>6. CASE /\ Excl(p, 1) \in locks
           /\ IsAll(journal') => IsAll(journal) \/ Excl(p, 0) \in locks
  <2>1. Excl(q, 1) \notin locks
    BY <1>1, <1>6, OneHolder
  <2>2. /\ q \in AllWriters => pc[q] \in WriterLabels \ WriterIn
        /\ q \in Readers => pc[q] \in ReaderLabels \ Recovering
    BY <1>1, <2>1 DEF ProcessOK, LocksOK
  <2>3. pc[q] \notin {"applying", "applied", "begun", "sealed", "overwritten",
                      "writing", "ended"}
    BY <2>2, Roles DEF WriterIn, WriterLabels, ReaderLabels, Recovering
  <2>4. q \in AllWriters => pc[q] \notin {"journal", "recover", "applying", "opened"}
    BY <2>2 DEF WriterIn
  <2>5. StageOK(q)'
    BY <1>1, <2>3, <2>4 DEF StageOK
  <2>6. ReaderOK(q)'
    <3>. SUFFICES ASSUME q \in Readers, IsAll(journal'),
                         \/ pc[q] = "opened"
                         \/ pc[q] = "lockJournal" /\ journalSeen[q].mode = ModifiedInactive
                  PROVE  FALSE
      BY <1>1 DEF ReaderOK, IsAll
    <3>1. ~ IsAll(journal)
      BY <1>1 DEF ProcessOK, ReaderOK
    <3>2. Excl(p, 0) \in locks
      BY <1>6, <3>1
    <3>3. Shared(q, 0) \in locks
      BY <1>1 DEF ProcessOK, LocksOK, ReaderIn
    <3>. QED BY <1>1, <3>2, <3>3, OneHolder
  <2>. QED BY <1>3, <2>5, <2>6 DEF ProcessOK
<1>. QED BY <1>5, <1>6

-----------------------------------------------------------------------------
(* The parts of a step *)

\* A journal of a commit that has begun remains one.
LEMMA FitsLater ==
  ASSUME NEW j, NEW n \in Nat, NEW k \in Nat, n <= k, Fits(j, n)
  PROVE  Fits(j, k)
  BY DEF Fits

\* p goes on with the locals it has, or with none.
LocalsKept(p) ==
  /\ headerOk' \in [Processes -> BOOLEAN]
  /\ DOMAIN journalSeen' = Processes
  /\ \A q \in Processes : q # p =>
       headerOk'[q] = headerOk[q] /\ journalSeen'[q] = journalSeen[q]
  /\ Fits(journalSeen'[p], commits)

\* The locks are safe after a step that is one of p's alone.
LocksStep(p) ==
  /\ locks' \subseteq [owner : Processes, byte : 0 .. 2, shared : BOOLEAN]
  /\ LockSafe'
  /\ \A l : l.owner # p => (l \in locks' <=> l \in locks)
  /\ \A l \in locks' : l \in locks \/ l.owner = p

\* Both ways to leave the locals alone.
LEMMA LocalsSame ==
  ASSUME IInv, NEW p \in Processes, UNCHANGED local \/ Leave(p)
  PROVE  LocalsKept(p)
<1>1. /\ headerOk \in [Processes -> BOOLEAN] /\ DOMAIN journalSeen = Processes
      /\ Fits(journalSeen[p], commits)
  BY DEF IInv, TypeInv, JournalsOK
<1>2. CASE UNCHANGED local
  BY <1>1, <1>2 DEF LocalsKept, local
<1>3. CASE Leave(p)
  <2>1. journalSeen'[p] = NoJournal
    BY <1>1, <1>3 DEF Leave
  <2>2. Fits(NoJournal, commits)
    BY DEF Fits, NoJournal
  <2>3. headerOk' \in [Processes -> BOOLEAN] /\ DOMAIN journalSeen' = Processes
    BY <1>1, <1>3 DEF Leave
  <2>4. \A q \in Processes : q # p =>
          headerOk'[q] = headerOk[q] /\ journalSeen'[q] = journalSeen[q]
    BY <1>1, <1>3 DEF Leave
  <2>. QED BY <2>1, <2>2, <2>3, <2>4 DEF LocalsKept
<1>. QED BY <1>2, <1>3

\* Locks that stay, or of which p gives up some.
LEMMA LocksFewer ==
  ASSUME IInv, NEW p \in Processes,
         \/ locks' = locks
         \/ locks' = locks \ Held(p)
         \/ locks' = locks \ LocksOf(p, {1}, FALSE)
  PROVE  LocksStep(p)
<1>1. locks' \subseteq locks
  OBVIOUS
<1>2. \A l : l.owner # p => (l \in locks' <=> l \in locks)
  BY LocksOfMember DEF Held
<1>3. LockSafe'
  BY <1>1 DEF IInv, LockSafe
<1>4. locks' \subseteq [owner : Processes, byte : 0 .. 2, shared : BOOLEAN]
  BY <1>1 DEF IInv, TypeInv
<1>. QED BY <1>1, <1>2, <1>3, <1>4 DEF LocksStep

\* A lock is given only if it goes with those that others have.
LEMMA LocksMore ==
  ASSUME IInv, NEW p \in Processes, NEW bytes \in SUBSET (0 .. 2), NEW shared \in BOOLEAN,
         CanLock(p, bytes, shared),
         locks' = locks \cup LocksOf(p, bytes, shared)
  PROVE  LocksStep(p)
<1>1. \A l \in LocksOf(p, bytes, shared) :
        l.owner = p /\ l.byte \in bytes /\ l.shared = shared
  BY LocksOfMember
<1>2. LocksOf(p, bytes, shared) \subseteq [owner : Processes, byte : 0 .. 2, shared : BOOLEAN]
  BY DEF LocksOf
<1>3. locks' \subseteq [owner : Processes, byte : 0 .. 2, shared : BOOLEAN]
  BY <1>2 DEF IInv, TypeInv
<1>4. \A l : l.owner # p => (l \in locks' <=> l \in locks)
  BY <1>1
<1>5. \A l \in locks' : l \in locks \/ l.owner = p
  BY <1>1
<1>6. ASSUME NEW l \in locks', NEW m \in locks', l.byte = m.byte, l.owner # m.owner
      PROVE  l.shared /\ m.shared
  <2>1. CASE l \in locks /\ m \in locks
    BY <1>6, <2>1, Zenon DEF IInv, LockSafe
  <2>2. CASE l \in LocksOf(p, bytes, shared) /\ m \in locks
    BY <1>1, <1>6, <2>2 DEF CanLock
  <2>3. CASE l \in locks /\ m \in LocksOf(p, bytes, shared)
    BY <1>1, <1>6, <2>3 DEF CanLock
  <2>4. CASE l \in LocksOf(p, bytes, shared) /\ m \in LocksOf(p, bytes, shared)
    BY <1>1, <1>6, <2>4
  <2>. QED BY <2>1, <2>2, <2>3, <2>4
<1>7. LockSafe'
  BY <1>6 DEF LockSafe
<1>. QED BY <1>3, <1>4, <1>5, <1>7 DEF LocksStep

\* What has to be shown of a step of p: what it does to the store and the
\* journal, and where p stands then.
LEMMA Step ==
  ASSUME IInv, NEW p \in Processes, NEW label \in Labels, Goto(p, label), system' = system,
         LocalsKept(p), LocksStep(p),
         \A q \in Processes : q # p => exclusively'[q] = exclusively[q],
         commits' \in commits .. MaxCommits, deaths' \in 0 .. MaxDeaths,
         \/ store' = store /\ journal' = journal
         \/ /\ Excl(p, 1) \in locks
            /\ IsAll(journal') => IsAll(journal) \/ Excl(p, 0) \in locks,
         store' \in [id : Nat, version : Nat, valid : BOOLEAN, mixed : Modes \cup {"no"}],
         store'.id \in 1 .. 1 + commits', store'.version \in 0 .. commits',
         Fits(journal', commits'), journal'.kind = "none" => journal' = NoJournal
  PROVE  pc'[p] = label /\ (StoreInv' /\ ProcessOK(p)' => IInv')
<1>1. /\ pc \in [Processes -> Labels] /\ commits \in 0 .. MaxCommits
      /\ \A q \in Processes : Fits(journalSeen[q], commits)
      /\ system \in {"posix", "windows"}
  BY DEF IInv, TypeInv, JournalsOK
<1>2. /\ pc' \in [Processes -> Labels] /\ pc'[p] = label
      /\ \A q \in Processes : q # p => pc'[q] = pc[q]
  BY <1>1 DEF Goto
<1>3. commits \in Nat /\ commits' \in Nat /\ commits <= commits' /\ commits' \in 0 .. MaxCommits
  BY <1>1, BoundsAssumption
<1>4. \A q \in Processes : Fits(journalSeen'[q], commits')
  <2>. TAKE q \in Processes
  <2>1. Fits(journalSeen'[q], commits)
    BY <1>1 DEF LocalsKept
  <2>. QED BY <1>3, <2>1, FitsLater
<1>5. OnlyMoves(p)
  BY <1>2 DEF OnlyMoves, LocalsKept, LocksStep
<1>6. TypeInv'
  BY <1>1, <1>2, <1>3 DEF TypeInv, LocalsKept, LocksStep
<1>7. JournalsOK'
  BY <1>4 DEF JournalsOK
<1>8. ASSUME NEW q \in Processes, q # p PROVE ProcessOK(q)'
  BY <1>5, <1>8, OthersKeep
<1>. QED BY <1>2, <1>6, <1>7, <1>8 DEF IInv, LocksStep

\* The same for a step that leaves the store and the journal alone.
LEMMA QuietStep ==
  ASSUME IInv, NEW p \in Processes, NEW label \in Labels, Goto(p, label),
         LocalsKept(p), LocksStep(p), UNCHANGED <<system, store, journal, commits>>,
         \A q \in Processes : q # p => exclusively'[q] = exclusively[q],
         deaths' \in 0 .. MaxDeaths
  PROVE  pc'[p] = label /\ (ProcessOK(p)' => IInv')
<1>1. /\ store \in [id : Nat, version : Nat, valid : BOOLEAN, mixed : Modes \cup {"no"}]
      /\ store.id \in 1 .. 1 + commits /\ store.version \in 0 .. commits
      /\ commits \in 0 .. MaxCommits
      /\ Fits(journal, commits) /\ (journal.kind = "none" => journal = NoJournal)
  BY DEF IInv, TypeInv, JournalsOK
<1>2. commits' \in commits .. MaxCommits
  BY <1>1, BoundsAssumption
<1>3. StoreInv'
  <2>1. store' = store /\ journal' = journal /\ system' = system
    OBVIOUS
  <2>. QED BY <2>1 DEF IInv, StoreInv, Restores
<1>4. pc'[p] = label /\ (StoreInv' /\ ProcessOK(p)' => IInv')
  BY <1>1, <1>2, Step
<1>. QED BY <1>3, <1>4

-----------------------------------------------------------------------------
(* Steps that leave the store and the journal alone *)

\* Where p is, and what it relies on there.
LEMMA Standing ==
  ASSUME IInv, NEW p \in Processes
  PROVE  /\ LocksOK(p) /\ StageOK(p) /\ ReaderOK(p)
         /\ p \in Readers <=> p \notin AllWriters
         /\ system \in {"posix", "windows"}
         /\ deaths \in 0 .. MaxDeaths
  BY Roles DEF IInv, ProcessOK, TypeInv

\* A reader reads the header before it has a lock.
LEMMA ReadBasicHeaderKeeps ==
  ASSUME IInv, NEW p \in Processes, ReadBasicHeader(p) PROVE IInv'
<1>. USE DEF ReadBasicHeader
<1>1. LocksStep(p)
  BY LocksFewer
<1>2. LocalsKept(p)
  BY DEF LocalsKept, IInv, TypeInv, JournalsOK
<1>3. "lock" \in Labels /\ deaths' \in 0 .. MaxDeaths /\ UNCHANGED <<system, store, journal, commits, exclusively>>
  BY Standing DEF Labels, settings
<1>4. pc'[p] = "lock" /\ (ProcessOK(p)' => IInv')
  BY <1>1, <1>2, <1>3, QuietStep
<1>5. LocksOK(p)'
  BY <1>4, Standing DEF LocksOK, ReaderLabels, WriterIn, ReaderIn, Recovering
<1>6. StageOK(p)' /\ ReaderOK(p)'
  BY <1>4, Standing DEF StageOK, ReaderOK
<1>. QED BY <1>4, <1>5, <1>6 DEF ProcessOK

\* A reader locks its snapshot, or fails.
LEMMA ReaderLockKeeps ==
  ASSUME IInv, NEW p \in Processes, ReaderLock(p) PROVE IInv'
<1>. USE DEF ReaderLock
<1>1. p \in Readers /\ p \notin AllWriters
  BY Standing DEF LocksOK, WriterLabels
<1>2. LocalsKept(p)
  BY LocalsSame
<1>3. deaths' \in 0 .. MaxDeaths /\ UNCHANGED <<system, store, journal, commits, exclusively>>
  BY Standing DEF settings
<1>4. CASE CanLock(p, {0}, TRUE)
  <2>1. locks' = locks \cup LocksOf(p, {0}, TRUE) /\ Goto(p, "compare")
    BY <1>4
  <2>2. LocksStep(p)
    <3>1. {0} \in SUBSET (0 .. 2) /\ TRUE \in BOOLEAN
      OBVIOUS
    <3>. QED BY <1>4, <2>1, <3>1, LocksMore
  <2>3. "compare" \in Labels
    BY DEF Labels
  <2>4. pc'[p] = "compare" /\ (ProcessOK(p)' => IInv')
    BY <1>2, <1>3, <2>1, <2>2, <2>3, QuietStep
  <2>5. Shared(p, 0) \in locks'
    BY <2>1, LocksOfMember DEF Shared
  <2>6. LocksOK(p)'
    BY <1>1, <2>4, <2>5 DEF LocksOK, ReaderLabels, WriterIn, ReaderIn, Recovering
  <2>7. StageOK(p)' /\ ReaderOK(p)'
    BY <2>4 DEF StageOK, ReaderOK
  <2>. QED BY <2>4, <2>6, <2>7 DEF ProcessOK
<1>5. CASE ~ CanLock(p, {0}, TRUE)
  <2>1. locks' = locks /\ Goto(p, "failed")
    BY <1>5
  <2>2. LocksStep(p)
    BY <2>1, LocksFewer
  <2>3. "failed" \in Labels
    BY DEF Labels
  <2>4. pc'[p] = "failed" /\ (ProcessOK(p)' => IInv')
    BY <1>2, <1>3, <2>1, <2>2, <2>3, QuietStep
  <2>5. LocksOK(p)'
    BY <1>1, <2>4 DEF LocksOK, ReaderLabels, WriterIn, ReaderIn, Recovering
  <2>6. StageOK(p)' /\ ReaderOK(p)'
    BY <2>4 DEF StageOK, ReaderOK
  <2>. QED BY <2>4, <2>5, <2>6 DEF ProcessOK
<1>. QED BY <1>4, <1>5

\* A reader goes on with the lock on its snapshot, or gives it up and asks again.
LEMMA ReaderCompareKeeps ==
  ASSUME IInv, NEW p \in Processes, ReaderCompare(p) PROVE IInv'
<1>. USE DEF ReaderCompare
<1>1. p \in Readers /\ p \notin AllWriters /\ Shared(p, 0) \in locks
  BY Standing DEF LocksOK, WriterLabels, ReaderIn
<1>2. LocalsKept(p) /\ LocksStep(p)
  BY LocalsSame, LocksFewer
<1>3. deaths' \in 0 .. MaxDeaths /\ UNCHANGED <<system, store, journal, commits, exclusively>>
  BY Standing DEF settings
<1>4. CASE store.id = seen[p]
  <2>1. Goto(p, "verify") /\ "verify" \in Labels
    BY <1>4 DEF Labels
  <2>2. pc'[p] = "verify" /\ (ProcessOK(p)' => IInv')
    BY <1>2, <1>3, <2>1, QuietStep
  <2>3. LocksOK(p)'
    BY <1>1, <1>4, <2>2 DEF LocksOK, ReaderLabels, WriterIn, ReaderIn, Recovering
  <2>4. StageOK(p)' /\ ReaderOK(p)'
    BY <2>2 DEF StageOK, ReaderOK
  <2>. QED BY <2>2, <2>3, <2>4 DEF ProcessOK
<1>5. CASE store.id # seen[p]
  <2>1. Goto(p, "lock") /\ "lock" \in Labels
    BY <1>5 DEF Labels
  <2>2. pc'[p] = "lock" /\ (ProcessOK(p)' => IInv')
    BY <1>2, <1>3, <2>1, QuietStep
  <2>3. LocksOK(p)'
    BY <1>1, <2>2 DEF LocksOK, ReaderLabels, WriterIn, ReaderIn, Recovering
  <2>4. StageOK(p)' /\ ReaderOK(p)'
    BY <2>2 DEF StageOK, ReaderOK
  <2>. QED BY <2>2, <2>3, <2>4 DEF ProcessOK
<1>. QED BY <1>4, <1>5

\* A writer gets the lock for writing, or none.
LEMMA WriterLockKeeps ==
  ASSUME IInv, NEW p \in Processes, WriterLock(p) PROVE IInv'
<1>. USE DEF WriterLock
<1>1. p \in AllWriters /\ p \notin Readers
  BY Standing
<1>2. LocalsKept(p)
  BY LocalsSame
<1>3. /\ deaths' \in 0 .. MaxDeaths /\ UNCHANGED <<system, store, journal, commits>>
      /\ pc \in [Processes -> Labels] /\ pc[p] = "start"
  BY Standing DEF IInv, TypeInv
<1>4. CASE /\ CanLock(p, BytesToLock(p), FALSE)
           /\ locks' = locks \cup LocksOf(p, BytesToLock(p), FALSE)
           /\ exclusively' = [exclusively EXCEPT ![p] = @ \/ asks[p]]
           /\ Goto(p, "verify")
  <2>1. BytesToLock(p) \in SUBSET (0 .. 2) /\ 1 \in BytesToLock(p)
    BY DEF BytesToLock
  <2>2. LocksStep(p)
    BY <1>4, <2>1, LocksMore
  <2>3. "verify" \in Labels /\ \A q \in Processes : q # p => exclusively'[q] = exclusively[q]
    BY <1>4 DEF Labels, IInv, TypeInv
  <2>4. pc'[p] = "verify" /\ (ProcessOK(p)' => IInv')
    BY <1>2, <1>3, <1>4, <2>2, <2>3, QuietStep
  <2>5. Excl(p, 1) \in locks'
    BY <1>4, <2>1, LocksOfMember DEF Excl
  <2>6. LocksOK(p)'
    BY <1>1, <2>4, <2>5 DEF LocksOK, WriterLabels, WriterIn, ReaderIn, Recovering
  <2>7. StageOK(p)' /\ ReaderOK(p)'
    BY <1>1, <2>4 DEF StageOK, ReaderOK
  <2>. QED BY <2>4, <2>6, <2>7 DEF ProcessOK
<1>5. CASE UNCHANGED <<pc, locks, exclusively>>
  <2>1. Goto(p, "start") /\ "start" \in Labels
    BY <1>3, <1>5 DEF Goto, Labels
  <2>2. LocksStep(p)
    BY <1>5, LocksFewer
  <2>3. pc'[p] = "start" /\ (ProcessOK(p)' => IInv')
    BY <1>2, <1>3, <1>5, <2>1, <2>2, QuietStep
  <2>4. LocksOK(p)'
    BY <1>1, <1>3, <1>5, <2>3, Standing DEF LocksOK, WriterLabels, WriterIn, ReaderIn, Recovering
  <2>5. StageOK(p)' /\ ReaderOK(p)'
    BY <1>1, <2>3 DEF StageOK, ReaderOK
  <2>. QED BY <2>3, <2>4, <2>5 DEF ProcessOK
<1>6. CASE Goto(p, "failed") /\ UNCHANGED <<locks, exclusively>>
  <2>1. LocksStep(p) /\ "failed" \in Labels
    BY <1>6, LocksFewer DEF Labels
  <2>2. pc'[p] = "failed" /\ (ProcessOK(p)' => IInv')
    BY <1>2, <1>3, <1>6, <2>1, QuietStep
  <2>3. LocksOK(p)'
    BY <1>1, <2>2 DEF LocksOK, WriterLabels, WriterIn, ReaderIn, Recovering
  <2>4. StageOK(p)' /\ ReaderOK(p)'
    BY <1>1, <2>2 DEF StageOK, ReaderOK
  <2>. QED BY <2>2, <2>3, <2>4 DEF ProcessOK
<1>. QED BY <1>4, <1>5, <1>6

\* What a writer finds of the header stays true.
LEMMA VerifyHeaderKeeps ==
  ASSUME IInv, NEW p \in Processes, VerifyHeader(p) PROVE IInv'
<1>. USE DEF VerifyHeader
<1>1. LocksStep(p)
  BY LocksFewer
<1>2. store.valid \in BOOLEAN /\ headerOk \in [Processes -> BOOLEAN]
  BY DEF IInv, TypeInv
<1>3. LocalsKept(p) /\ headerOk'[p] = store.valid
  BY <1>2 DEF LocalsKept, IInv, TypeInv, JournalsOK
<1>4. "journal" \in Labels /\ deaths' \in 0 .. MaxDeaths /\ UNCHANGED <<system, store, journal, commits, exclusively>>
  BY Standing DEF Labels, settings
<1>5. pc'[p] = "journal" /\ (ProcessOK(p)' => IInv')
  BY <1>1, <1>3, <1>4, QuietStep
<1>6. LocksOK(p)'
  BY <1>5, Standing DEF LocksOK, ReaderLabels, WriterLabels, WriterIn, ReaderIn, Recovering
<1>7. StageOK(p)' /\ ReaderOK(p)'
  BY <1>3, <1>5, Standing DEF StageOK, ReaderOK
<1>. QED BY <1>5, <1>6, <1>7 DEF ProcessOK

\* Without a journal no block is overwritten.
LEMMA NoJournalFoundKeeps ==
  ASSUME IInv, NEW p \in Processes, NoJournalFound(p) PROVE IInv'
<1>. USE DEF NoJournalFound
<1>1. LocksStep(p) /\ LocalsKept(p)
  BY LocksFewer, LocalsSame
<1>. DEFINE next == IF headerOk[p] THEN "opened" ELSE "rejected"
<1>2. Goto(p, next) /\ next \in {"opened", "rejected"}
  OBVIOUS
<1>3. next \in Labels /\ deaths' \in 0 .. MaxDeaths /\ UNCHANGED <<system, store, journal, commits, exclusively>>
  BY Standing DEF Labels, settings
<1>. HIDE DEF next
<1>4. pc'[p] = next /\ (ProcessOK(p)' => IInv')
  BY <1>1, <1>2, <1>3, QuietStep
<1>5. LocksOK(p)'
  BY <1>2, <1>4, Standing DEF LocksOK, ReaderLabels, WriterLabels, WriterIn, ReaderIn, Recovering
<1>6. journal.kind # "sealed"
  BY DEF NoJournal
<1>7. system = "posix" => store.mixed = "no"
  BY <1>6 DEF IInv, StoreInv, Restores
<1>8. StageOK(p)'
  BY <1>2, <1>4, <1>7 DEF StageOK, settings
<1>9. ReaderOK(p)'
  BY <1>6 DEF ReaderOK, IsAll
<1>. QED BY <1>4, <1>5, <1>8, <1>9 DEF ProcessOK

\* What a process reads of a journal that is there is what it says, or, if
\* begin() has just created it, nothing that could be applied.
LEMMA ReadJournalHeaderKeeps ==
  ASSUME IInv, NEW p \in Processes, ReadJournalHeader(p) PROVE IInv'
<1>. USE DEF ReadJournalHeader
<1>1. PICK h \in JournalHeaders : journalSeen' = [journalSeen EXCEPT ![p] = h]
  OBVIOUS
<1>2. /\ DOMAIN journalSeen = Processes /\ headerOk \in [Processes -> BOOLEAN]
      /\ Fits(journal, commits)
      /\ journal.kind \in {"empty", "sealed"}
  BY DEF IInv, TypeInv, JournalsOK, Fits
<1>3. journalSeen'[p] = h /\ DOMAIN journalSeen' = Processes
      /\ \A q \in Processes : q # p => journalSeen'[q] = journalSeen[q]
  BY <1>1, <1>2
<1>4. /\ h.file = journal.file
      /\ journal.kind = "sealed" => h = journal
      /\ journal.kind # "sealed" => h.kind = "empty"
  BY DEF JournalHeaders
<1>5. Fits(h, commits)
  BY <1>2, <1>4 DEF Fits
<1>6. LocalsKept(p) /\ LocksStep(p)
  BY <1>2, <1>3, <1>5, LocksFewer DEF LocalsKept
<1>. DEFINE next == IF p \in Readers THEN "lockJournal" ELSE "recover"
<1>7. Goto(p, next)
  OBVIOUS
<1>8. next \in Labels /\ deaths' \in 0 .. MaxDeaths /\ UNCHANGED <<system, store, journal, commits, exclusively>>
  BY Standing DEF Labels, settings
<1>9. /\ p \in Readers => next = "lockJournal"
      /\ p \notin Readers => next = "recover"
  OBVIOUS
<1>. HIDE DEF next
<1>10. pc'[p] = next /\ (ProcessOK(p)' => IInv')
  BY <1>6, <1>7, <1>8, QuietStep
<1>11. LocksOK(p)'
  BY <1>9, <1>10, Standing DEF LocksOK, ReaderLabels, WriterLabels, WriterIn, ReaderIn, Recovering
<1>12. Saw(p)'
  BY <1>3, <1>4, Zenon DEF Saw
<1>13. StageOK(p)'
  BY <1>9, <1>10, <1>12, Standing DEF StageOK
<1>14. ReaderOK(p)'
  <2>1. journal.kind = "sealed" => journalSeen'[p].mode = journal.mode
    BY <1>3, <1>4
  <2>2. ModifiedInactive # ModifiedAll
    BY DEF ModifiedInactive, ModifiedAll
  <2>. QED BY <1>9, <1>10, <2>1, <2>2 DEF ReaderOK, IsAll
<1>. QED BY <1>10, <1>11, <1>13, <1>14 DEF ProcessOK

\* Only where a reader can lock for writing does one go on to recover.
LEMMA LockJournalKeeps ==
  ASSUME IInv, NEW p \in Processes, LockJournal(p) PROVE IInv'
<1>. USE DEF LockJournal
<1>1. p \in Readers /\ p \notin AllWriters /\ Shared(p, 0) \in locks
  BY Standing DEF LocksOK, WriterLabels, ReaderIn
<1>2. system # "posix"
  BY <1>1 DEF CanLock
<1>3. LocalsKept(p) /\ deaths' \in 0 .. MaxDeaths /\ UNCHANGED <<system, store, journal, commits, exclusively>>
  BY LocalsSame, Standing DEF settings
<1>4. LocksStep(p)
  <2>1. {1} \in SUBSET (0 .. 2) /\ FALSE \in BOOLEAN
    OBVIOUS
  <2>. QED BY <2>1, LocksMore
<1>5. "recover" \in Labels /\ Goto(p, "recover")
  BY DEF Labels
<1>6. pc'[p] = "recover" /\ (ProcessOK(p)' => IInv')
  BY <1>3, <1>4, <1>5, QuietStep
<1>7. Excl(p, 1) \in locks' /\ Shared(p, 0) \in locks'
  BY <1>1, LocksOfMember DEF Excl
<1>8. LocksOK(p)'
  BY <1>1, <1>2, <1>3, <1>6, <1>7 DEF LocksOK, ReaderLabels, ReaderIn, Recovering
<1>9. StageOK(p)' /\ ReaderOK(p)'
  BY <1>1, <1>6 DEF StageOK, ReaderOK
<1>. QED BY <1>6, <1>8, <1>9 DEF ProcessOK

\* A process that gives up all its locks relies on nothing.
LEMMA LocksGone ==
  ASSUME NEW p, locks' = locks \ Held(p)
  PROVE  \A l \in locks' : l.owner # p
  BY DEF Held

\* A reader that starts over.
LEMMA RetryKeeps ==
  ASSUME IInv, NEW p \in Processes, Retry(p) PROVE IInv'
<1>. USE DEF Retry
<1>1. LocalsKept(p) /\ deaths' \in 0 .. MaxDeaths /\ UNCHANGED <<system, store, journal, commits, exclusively>>
  BY LocalsSame, Standing DEF settings
<1>2. LocksStep(p) /\ \A l \in locks' : l.owner # p
  BY LocksFewer, LocksGone
<1>3. "start" \in Labels /\ Goto(p, "start")
  BY DEF Labels
<1>4. pc'[p] = "start" /\ (ProcessOK(p)' => IInv')
  BY <1>1, <1>2, <1>3, QuietStep
<1>5. LocksOK(p)'
  BY <1>2, <1>4 DEF LocksOK, ReaderLabels, WriterLabels, WriterIn, ReaderIn, Recovering
<1>6. StageOK(p)' /\ ReaderOK(p)'
  BY <1>4 DEF StageOK, ReaderOK
<1>. QED BY <1>4, <1>5, <1>6 DEF ProcessOK

\* A journal that a reader may skip does not stand for changes of its blocks.
LEMMA SkipJournalKeeps ==
  ASSUME IInv, NEW p \in Processes, SkipJournal(p) PROVE IInv'
<1>. USE DEF SkipJournal
<1>1. p \in Readers /\ p \notin AllWriters /\ Shared(p, 0) \in locks /\ ~ IsAll(journal)
  BY Standing DEF LocksOK, WriterLabels, ReaderIn, ReaderOK
<1>2. LocalsKept(p) /\ deaths' \in 0 .. MaxDeaths /\ UNCHANGED <<system, store, journal, commits, exclusively>>
  BY LocalsSame, Standing DEF settings
<1>3. LocksStep(p) /\ "opened" \in Labels /\ Goto(p, "opened")
  BY LocksFewer DEF Labels
<1>4. pc'[p] = "opened" /\ (ProcessOK(p)' => IInv')
  BY <1>2, <1>3, QuietStep
<1>5. LocksOK(p)'
  BY <1>1, <1>4 DEF LocksOK, ReaderLabels, WriterIn, ReaderIn, Recovering
<1>6. StageOK(p)' /\ ReaderOK(p)'
  BY <1>1, <1>4 DEF StageOK, ReaderOK, IsAll
<1>. QED BY <1>4, <1>5, <1>6 DEF ProcessOK

\* Closing a store.
LEMMA CloseKeeps ==
  ASSUME IInv, NEW p \in Processes, Close(p) PROVE IInv'
<1>. USE DEF Close
<1>1. LocalsKept(p) /\ deaths' \in 0 .. MaxDeaths /\ UNCHANGED <<system, store, journal, commits, exclusively>>
  BY LocalsSame, Standing DEF settings
<1>2. LocksStep(p) /\ \A l \in locks' : l.owner # p
  BY LocksFewer, LocksGone
<1>3. "closed" \in Labels /\ Goto(p, "closed")
  BY DEF Labels
<1>4. pc'[p] = "closed" /\ (ProcessOK(p)' => IInv')
  BY <1>1, <1>2, <1>3, QuietStep
<1>5. LocksOK(p)'
  BY <1>2, <1>4 DEF LocksOK, ReaderLabels, WriterLabels, WriterIn, ReaderIn, Recovering
<1>6. StageOK(p)' /\ ReaderOK(p)'
  BY <1>4 DEF StageOK, ReaderOK
<1>. QED BY <1>4, <1>5, <1>6 DEF ProcessOK

\* Opening a store again.
LEMMA AgainKeeps ==
  ASSUME IInv, NEW p \in Processes, Again(p) PROVE IInv'
<1>. USE DEF Again
<1>1. /\ LocalsKept(p) /\ deaths' \in 0 .. MaxDeaths
      /\ UNCHANGED <<system, store, journal, commits>>
      /\ \A q \in Processes : q # p => exclusively'[q] = exclusively[q]
  BY LocalsSame, Standing
<1>2. LocksStep(p) /\ \A l \in locks' : l.owner # p
  BY LocksFewer, LocksGone
<1>3. "start" \in Labels /\ Goto(p, "start")
  BY DEF Labels
<1>4. pc'[p] = "start" /\ (ProcessOK(p)' => IInv')
  BY <1>1, <1>2, <1>3, QuietStep
<1>5. LocksOK(p)'
  BY <1>2, <1>4 DEF LocksOK, ReaderLabels, WriterLabels, WriterIn, ReaderIn, Recovering
<1>6. StageOK(p)' /\ ReaderOK(p)'
  BY <1>4 DEF StageOK, ReaderOK
<1>. QED BY <1>4, <1>5, <1>6 DEF ProcessOK

\* Death leaves the store and the journal as they are.
LEMMA DieKeeps ==
  ASSUME IInv, NEW p \in Processes, Die(p) PROVE IInv'
<1>. USE DEF Die
<1>1. deaths \in 0 .. MaxDeaths /\ MaxDeaths \in Nat
  BY Standing, BoundsAssumption
<1>2. LocalsKept(p) /\ deaths' \in 0 .. MaxDeaths /\ UNCHANGED <<system, store, journal, commits, exclusively>>
  BY <1>1, LocalsSame
<1>3. LocksStep(p) /\ \A l \in locks' : l.owner # p
  BY LocksFewer, LocksGone
<1>4. "dead" \in Labels /\ Goto(p, "dead")
  BY DEF Labels
<1>5. pc'[p] = "dead" /\ (ProcessOK(p)' => IInv')
  BY <1>2, <1>3, <1>4, QuietStep
<1>6. LocksOK(p)'
  BY <1>3, <1>5 DEF LocksOK, ReaderLabels, WriterLabels, WriterIn, ReaderIn, Recovering
<1>7. StageOK(p)' /\ ReaderOK(p)'
  BY <1>5 DEF StageOK, ReaderOK
<1>. QED BY <1>5, <1>6, <1>7 DEF ProcessOK

-----------------------------------------------------------------------------
(* Steps that change the store or the journal *)

\* Who changes the store or the journal has the lock for writing.
LEMMA Holder ==
  ASSUME IInv, NEW p \in Processes,
         pc[p] \in Changing \/ (p \in AllWriters /\ pc[p] = "opened")
  PROVE  Excl(p, 1) \in locks
<1>1. LocksOK(p) /\ (p \in Readers \/ p \in AllWriters)
  BY Standing
<1>2. CASE p \in AllWriters
  BY <1>1, <1>2 DEF LocksOK, WriterIn, Changing
<1>3. CASE p \in Readers
  <2>1. p \notin AllWriters
    BY <1>3, Roles
  <2>. QED BY <1>1, <1>3, <2>1 DEF LocksOK, ReaderLabels, Recovering, Changing
<1>. QED BY <1>1, <1>2, <1>3

\* Only a writer commits; on posix only a writer recovers.
LEMMA WhoChanges ==
  ASSUME IInv, NEW p \in Processes
  PROVE  /\ pc[p] \in {"begun", "sealed", "overwritten", "writing", "ended"} => p \in AllWriters
         /\ pc[p] \in Recovering /\ system = "posix" => p \in AllWriters
  BY Standing DEF LocksOK, ReaderLabels

\* The store and the journal as they are before a step.
LEMMA Files ==
  ASSUME IInv
  PROVE  /\ store \in [id : Nat, version : Nat, valid : BOOLEAN, mixed : Modes \cup {"no"}]
         /\ store.id \in 1 .. 1 + commits /\ store.version \in 0 .. commits
         /\ commits \in Nat /\ MaxCommits \in Nat /\ commits \in commits .. MaxCommits
         /\ Fits(journal, commits)
         /\ journal.kind = "none" => journal = NoJournal
         /\ StoreInv
  BY BoundsAssumption DEF IInv, TypeInv, JournalsOK

\* The journal that is applied is of a commit, and where only writers recover it
\* is the one that is there.
LEMMA Opened ==
  ASSUME IInv, NEW p \in Processes, JournalOpened(p).kind = "sealed"
  PROVE  /\ JournalOpened(p).id \in 1 .. commits
         /\ JournalOpened(p).version \in 0 .. commits
         /\ JournalOpened(p).mode \in Modes
         /\ Saw(p) => JournalOpened(p) = journal
<1>1. Fits(journal, commits) /\ Fits(journalSeen[p], commits)
  BY DEF IInv, JournalsOK
<1>2. JournalOpened(p) = journal \/ JournalOpened(p) = journalSeen[p]
  BY DEF JournalOpened
<1>3. Fits(JournalOpened(p), commits)
  BY <1>1, <1>2
<1>4. Saw(p) => JournalOpened(p) = journal
  BY DEF Saw, JournalOpened
<1>. QED BY <1>3, <1>4 DEF Fits

\* A writer that finds that the journal does not apply, where only writers
\* recover, finds a store of which no block is overwritten; one that finds that
\* it does, the journal that restores it.
LEMMA WhatRecoveryFinds ==
  ASSUME IInv, NEW p \in Processes, pc[p] = "recover", system = "posix"
  PROVE  /\ ~ Applies(p) => store.mixed = "no"
         /\ Applies(p) => JournalOpened(p) = journal /\ Restores
<1>1. p \in AllWriters
  BY WhoChanges DEF Recovering
<1>2. headerOk[p] = store.valid /\ Saw(p)
  BY <1>1, Standing DEF StageOK
<1>3. JournalOpened(p) = journal
  BY <1>2 DEF Saw, JournalOpened
<1>4. /\ store.mixed # "no" => Restores
      /\ journal.kind = "sealed" /\ journal.id = store.id => Restores
      /\ ~ store.valid => store.mixed # "no"
  BY Files DEF StoreInv
<1>5. Restores => journalSeen[p].kind = "sealed" /\ journalSeen[p].id = store.id
  BY <1>2 DEF Saw, Restores
<1>6. ASSUME ~ Applies(p) PROVE store.mixed = "no"
  BY <1>2, <1>3, <1>4, <1>5, <1>6 DEF Applies, Restores
<1>7. ASSUME Applies(p) PROVE Restores
  <2>1. CASE journalSeen[p].kind = "sealed" /\ journalSeen[p].id = store.id
    BY <1>2, <1>3, <1>4, <1>7, <2>1 DEF Applies, Saw
  <2>2. CASE ~ headerOk[p]
    BY <1>2, <1>4, <2>2
  <2>. QED BY <1>7, <2>1, <2>2 DEF Applies
<1>. QED BY <1>3, <1>6, <1>7

\* Applying a journal overwrites blocks that this journal restores.
LEMMA ApplyBlocksKeeps ==
  ASSUME IInv, NEW p \in Processes, ApplyBlocks(p) PROVE IInv'
<1>. USE DEF ApplyBlocks
<1>. DEFINE opened == JournalOpened(p)
<1>1. Excl(p, 1) \in locks
  <2>1. pc[p] \in Changing
    BY DEF Changing
  <2>. QED BY <2>1, Holder
<1>2. opened.kind = "sealed"
  BY DEF Applies
<1>3. opened.mode \in Modes
  BY <1>2, Opened
<1>4. LocalsKept(p) /\ LocksStep(p) /\ "applying" \in Labels /\ Goto(p, "applying")
  BY LocalsSame, LocksFewer DEF Labels
<1>5. /\ store' \in [id : Nat, version : Nat, valid : BOOLEAN, mixed : Modes \cup {"no"}]
      /\ store'.id = store.id /\ store'.version = store.version
      /\ store'.valid = store.valid /\ store'.mixed = opened.mode
  BY <1>3, Files
<1>6. UNCHANGED <<system, journal, journalSeen, headerOk, locks, exclusively, commits, deaths>>
  BY DEF settings, local
<1>7. pc'[p] = "applying" /\ (StoreInv' /\ ProcessOK(p)' => IInv')
  <2>1. /\ store'.id \in 1 .. 1 + commits' /\ store'.version \in 0 .. commits'
        /\ commits' \in commits .. MaxCommits /\ deaths' \in 0 .. MaxDeaths
        /\ Fits(journal', commits') /\ (journal'.kind = "none" => journal' = NoJournal)
        /\ IsAll(journal') => IsAll(journal)
    BY <1>5, <1>6, Files, Standing
  <2>. QED BY <1>1, <1>4, <1>5, <1>6, <2>1, Step
<1>8. StoreInv'
  <2>1. StoreInv
    BY Files
  <2>2. system = "posix" => opened = journal /\ Restores
    BY WhatRecoveryFinds
  <2>. QED BY <1>5, <1>6, <2>1, <2>2 DEF StoreInv, Restores
<1>9. LocksOK(p)'
  BY <1>1, <1>6, <1>7, Standing DEF LocksOK, ReaderLabels, WriterLabels, ReaderIn, Recovering, Excl
<1>10. StageOK(p)'
  <2>1. JournalOpened(p)' = opened
    BY <1>6 DEF JournalOpened
  <2>2. p \in AllWriters => Saw(p)'
    BY <1>6, Standing DEF StageOK, Saw
  <2>3. "no" \notin Modes
    BY DEF Modes, ModifiedAll, ModifiedInactive
  <2>. QED BY <1>2, <1>3, <1>5, <1>7, <2>1, <2>2, <2>3 DEF StageOK
<1>11. ReaderOK(p)'
  BY <1>7 DEF ReaderOK
<1>. QED BY <1>7, <1>8, <1>9, <1>10, <1>11 DEF ProcessOK

\* The header that is restored is that of a commit later than the journal's.
LEMMA ApplyHeaderKeeps ==
  ASSUME IInv, NEW p \in Processes, ApplyHeader(p) PROVE IInv'
<1>. USE DEF ApplyHeader
<1>. DEFINE opened == JournalOpened(p)
<1>1. Excl(p, 1) \in locks
  <2>1. pc[p] \in Changing
    BY DEF Changing
  <2>. QED BY <2>1, Holder
<1>2. opened.kind = "sealed"
  BY Standing DEF StageOK
<1>3. opened.id \in 1 .. commits /\ opened.version \in 0 .. commits
  BY <1>2, Opened
<1>4. LocalsKept(p) /\ LocksStep(p) /\ "applied" \in Labels /\ Goto(p, "applied")
  BY LocalsSame, LocksFewer DEF Labels
<1>5. /\ store' \in [id : Nat, version : Nat, valid : BOOLEAN, mixed : Modes \cup {"no"}]
      /\ store'.id = opened.id + 1 /\ store'.version = opened.version
      /\ store'.valid = TRUE /\ store'.mixed = "no"
  <2>. HIDE DEF opened
  <2>1. store' = [id |-> opened.id + 1, version |-> opened.version,
                  valid |-> TRUE, mixed |-> "no"]
    BY DEF opened
  <2>2. commits \in Nat
    BY Files
  <2>3. opened.id + 1 \in Nat /\ opened.version \in Nat
    BY <1>3, <2>2
  <2>. QED BY <2>1, <2>3
<1>6. UNCHANGED <<system, journal, journalSeen, headerOk, locks, exclusively, commits, deaths>>
  BY DEF settings, local
<1>7. pc'[p] = "applied" /\ (StoreInv' /\ ProcessOK(p)' => IInv')
  <2>1. commits \in Nat /\ commits \in commits .. MaxCommits
    BY Files
  <2>2. store'.id \in 1 .. 1 + commits' /\ store'.version \in 0 .. commits'
    BY <1>3, <1>5, <1>6, <2>1
  <2>3. /\ commits' \in commits .. MaxCommits /\ deaths' \in 0 .. MaxDeaths
        /\ Fits(journal', commits') /\ (journal'.kind = "none" => journal' = NoJournal)
        /\ IsAll(journal') => IsAll(journal)
    BY <1>6, Files, Standing
  <2>. QED BY <1>1, <1>4, <1>5, <1>6, <2>2, <2>3, Step
<1>8. StoreInv'
  <2>1. system = "posix" => p \in AllWriters
    BY WhoChanges DEF Recovering
  <2>2. system = "posix" => Saw(p)
    BY <2>1, Standing DEF StageOK
  <2>3. system = "posix" => store'.id = journal.id + 1
    BY <1>2, <1>5, <2>2, Opened
  <2>4. journal.kind = "sealed" => journal.id \in 1 .. commits /\ commits \in Nat
    BY Files DEF Fits
  <2>5. system = "posix" /\ journal.kind = "sealed" => journal.id # store'.id
    BY <2>3, <2>4
  <2>. QED BY <1>5, <1>6, <2>5 DEF StoreInv, Restores
<1>9. LocksOK(p)'
  BY <1>1, <1>6, <1>7, Standing DEF LocksOK, ReaderLabels, WriterLabels, ReaderIn, Recovering, Excl
<1>10. StageOK(p)'
  BY <1>5, <1>7 DEF StageOK
<1>11. ReaderOK(p)'
  BY <1>7 DEF ReaderOK
<1>. QED BY <1>7, <1>8, <1>9, <1>10, <1>11 DEF ProcessOK

\* The steps that remove the journal and leave the store alone, or create an
\* empty one: what is left is to show that no block is overwritten.
LEMMA JournalStep ==
  ASSUME IInv, NEW p \in Processes, NEW label \in Labels, Goto(p, label),
         LocalsKept(p), LocksStep(p), UNCHANGED <<system, store, commits, deaths, exclusively>>,
         Excl(p, 1) \in locks,
         journal' = journal \/ journal' = NoJournal \/ journal' = Empty(commits + 1),
         system = "posix" => store.mixed = "no"
  PROVE  pc'[p] = label /\ (ProcessOK(p)' => IInv')
<1>1. /\ Fits(journal', commits') /\ (journal'.kind = "none" => journal' = NoJournal)
      /\ IsAll(journal') => IsAll(journal)
      /\ journal'.kind = "sealed" => journal' = journal
  <2>1. CASE journal' = journal
    BY <2>1, Files
  <2>2. CASE journal' = NoJournal
    BY <2>2 DEF NoJournal, Fits, IsAll
  <2>3. CASE journal' = Empty(commits + 1)
    BY <2>3 DEF Empty, Fits, IsAll
  <2>. QED BY <2>1, <2>2, <2>3
<1>2. /\ store' \in [id : Nat, version : Nat, valid : BOOLEAN, mixed : Modes \cup {"no"}]
      /\ store'.id \in 1 .. 1 + commits' /\ store'.version \in 0 .. commits'
      /\ commits' \in commits .. MaxCommits /\ deaths' \in 0 .. MaxDeaths
  BY Files, Standing
<1>3. StoreInv'
  <2>1. store' = store /\ system' = system
    OBVIOUS
  <2>. QED BY <1>1, <2>1, Files DEF StoreInv, Restores
<1>4. pc'[p] = label /\ (StoreInv' /\ ProcessOK(p)' => IInv')
  BY <1>1, <1>2, Step
<1>. QED BY <1>3, <1>4

\* The journal is removed when it has been applied.
LEMMA ApplyDoneKeeps ==
  ASSUME IInv, NEW p \in Processes, ApplyDone(p) PROVE IInv'
<1>. USE DEF ApplyDone
<1>1. Excl(p, 1) \in locks
  <2>1. pc[p] \in Changing
    BY DEF Changing
  <2>. QED BY <2>1, Holder
<1>2. system = "posix" => store.mixed = "no"
  BY Standing DEF StageOK
<1>3. LocksStep(p) /\ \A l \in locks' : l.owner # p
  BY LocksFewer, LocksGone
<1>4. LocalsKept(p) /\ "start" \in Labels /\ Goto(p, "start")
      /\ UNCHANGED <<system, store, commits, deaths, exclusively>>
  BY LocalsSame DEF Labels, settings
<1>5. pc'[p] = "start" /\ (ProcessOK(p)' => IInv')
  BY <1>1, <1>2, <1>3, <1>4, JournalStep
<1>6. LocksOK(p)'
  BY <1>3, <1>5 DEF LocksOK, ReaderLabels, WriterLabels, WriterIn, ReaderIn, Recovering
<1>7. StageOK(p)' /\ ReaderOK(p)'
  BY <1>5 DEF StageOK, ReaderOK
<1>. QED BY <1>5, <1>6, <1>7 DEF ProcessOK

\* A journal that does not apply is not needed.
LEMMA DiscardKeeps ==
  ASSUME IInv, NEW p \in Processes, Discard(p) PROVE IInv'
<1>. USE DEF Discard
<1>1. Excl(p, 1) \in locks
  <2>1. pc[p] \in Changing
    BY DEF Changing
  <2>. QED BY <2>1, Holder
<1>2. system = "posix" => store.mixed = "no"
  BY WhatRecoveryFinds
<1>3. locks' = locks \/ locks' = locks \ Held(p) \/ locks' = locks \ LocksOf(p, {1}, FALSE)
  BY DEF LocksAfterRecovery
<1>4. LocksStep(p)
  BY <1>3, LocksFewer
<1>5. LocalsKept(p) /\ "opened" \in Labels /\ Goto(p, "opened")
      /\ UNCHANGED <<system, store, commits, deaths, exclusively>>
  BY LocalsSame DEF Labels, settings
<1>6. pc'[p] = "opened" /\ (ProcessOK(p)' => IInv')
  BY <1>1, <1>2, <1>4, <1>5, JournalStep
<1>7. LocksOK(p)'
  <2>1. CASE p \in AllWriters
    <3>1. locks' = locks /\ p \notin Readers
      BY <2>1, Standing DEF LocksAfterRecovery
    <3>. QED BY <1>1, <1>6, <2>1, <3>1 DEF LocksOK, WriterLabels, Excl
  <2>2. CASE p \in Readers
    <3>1. p \notin AllWriters /\ system # "posix" /\ Shared(p, 0) \in locks
      BY <2>2, Standing DEF LocksOK, ReaderIn, Recovering
    <3>2. locks' = locks \ LocksOf(p, {1}, FALSE)
      BY <3>1 DEF LocksAfterRecovery
    <3>3. Shared(p, 0) \notin LocksOf(p, {1}, FALSE)
      BY DEF Shared, LocksOf
    <3>4. Shared(p, 0) \in locks'
      BY <3>1, <3>2, <3>3
    <3>. QED BY <1>6, <3>1, <3>4 DEF LocksOK, ReaderLabels, Recovering, Shared
  <2>. QED BY <2>1, <2>2, Standing
<1>8. StageOK(p)'
  BY <1>2, <1>5, <1>6 DEF StageOK
<1>9. ReaderOK(p)'
  BY <1>6 DEF ReaderOK, IsAll, NoJournal
<1>. QED BY <1>6, <1>7, <1>8, <1>9 DEF ProcessOK

\* A transaction begins with a journal that nothing can be restored from, unless
\* another's is left.
LEMMA BeginTransactionKeeps ==
  ASSUME IInv, NEW p \in Processes, BeginTransaction(p) PROVE IInv'
<1>. USE DEF BeginTransaction
<1>1. Excl(p, 1) \in locks
  <2>1. pc[p] \in Changing \/ (p \in AllWriters /\ pc[p] = "opened")
    OBVIOUS
  <2>. QED BY <2>1, Holder
<1>2. system = "posix" => store.mixed = "no"
  BY Standing DEF StageOK
<1>3. LocksStep(p) /\ LocalsKept(p) /\ "begun" \in Labels /\ Goto(p, "begun")
      /\ UNCHANGED <<system, store, commits, deaths, exclusively>>
  BY LocalsSame, LocksFewer DEF Labels, settings
<1>4. journal' = journal \/ journal' = NoJournal \/ journal' = Empty(commits + 1)
  OBVIOUS
<1>5. pc'[p] = "begun" /\ (ProcessOK(p)' => IInv')
  BY <1>1, <1>2, <1>3, <1>4, JournalStep
<1>6. LocksOK(p)'
  BY <1>1, <1>5, Standing DEF LocksOK, WriterLabels, Excl
<1>7. StageOK(p)'
  BY <1>2, <1>3, <1>5 DEF StageOK
<1>8. ReaderOK(p)'
  BY <1>5 DEF ReaderOK
<1>. QED BY <1>5, <1>6, <1>7, <1>8 DEF ProcessOK

\* Sealing the journal, before a block is overwritten: the journal restores the
\* store that is there.
LEMMA SealJournalKeeps ==
  ASSUME IInv, NEW p \in Processes, SealJournal(p) PROVE IInv'
<1>. USE DEF SealJournal
<1>1. Excl(p, 1) \in locks
  <2>1. pc[p] \in Changing
    BY DEF Changing
  <2>. QED BY <2>1, Holder
<1>2. p \in AllWriters /\ p \notin Readers /\ (system = "posix" => store.mixed = "no")
  BY WhoChanges, Standing DEF StageOK
<1>3. LocksStep(p) /\ LocalsKept(p) /\ "sealed" \in Labels /\ Goto(p, "sealed")
      /\ UNCHANGED <<system, store, deaths, locks, exclusively>>
  BY LocalsSame, LocksFewer DEF Labels, settings
<1>4. /\ journal'.kind = "sealed" /\ journal'.id = store.id
      /\ journal'.version = store.version /\ journal'.mode = ModeOf(p)
      /\ journal'.alone = Alone(p)
  BY DEF Sealed
<1>5. ModeOf(p) \in Modes /\ (Alone(p) => Excl(p, 0) \in locks)
  BY ModeOfType, AloneLocks
<1>6. commits' = commits + 1 /\ commits \in Nat /\ MaxCommits \in Nat
      /\ commits' \in commits .. MaxCommits
  <2>1. commits \in Nat /\ MaxCommits \in Nat
    BY Files
  <2>. QED BY <2>1
<1>7. store.id \in 1 .. 1 + commits /\ store.version \in 0 .. commits
  BY Files
<1>8. Fits(journal', commits')
  BY <1>4, <1>5, <1>6, <1>7 DEF Fits
<1>9. IsAll(journal') => Excl(p, 0) \in locks
  BY <1>4, <1>5 DEF IsAll
<1>10. pc'[p] = "sealed" /\ (StoreInv' /\ ProcessOK(p)' => IInv')
  <2>1. store'.id \in 1 .. 1 + commits' /\ store'.version \in 0 .. commits'
    BY <1>3, <1>6, <1>7
  <2>2. store' \in [id : Nat, version : Nat, valid : BOOLEAN, mixed : Modes \cup {"no"}]
    BY <1>3, Files
  <2>3. deaths' \in 0 .. MaxDeaths /\ (journal'.kind = "none" => journal' = NoJournal)
        /\ (IsAll(journal') => IsAll(journal) \/ Excl(p, 0) \in locks)
    BY <1>3, <1>4, <1>9, Standing
  <2>. QED BY <1>1, <1>3, <1>6, <1>8, <2>1, <2>2, <2>3, Step
<1>11. StoreInv'
  <2>1. StoreInv
    BY Files
  <2>. QED BY <1>2, <1>3, <1>4, <2>1 DEF StoreInv, Restores
<1>12. LocksOK(p)'
  BY <1>1, <1>2, <1>3, <1>10 DEF LocksOK, WriterLabels, Excl
<1>13. StageOK(p)'
  <2>1. ModeOf(p)' = ModeOf(p)
    BY <1>3 DEF ModeOf
  <2>2. Restores' /\ journal'.mode = ModeOf(p)'
    BY <1>3, <1>4, <2>1 DEF Restores
  <2>. QED BY <1>2, <1>3, <1>10, <2>2 DEF StageOK
<1>14. ReaderOK(p)'
  BY <1>10 DEF ReaderOK
<1>. QED BY <1>10, <1>11, <1>12, <1>13, <1>14 DEF ProcessOK

\* The steps of a commit that write to the store under a sealed journal.
LEMMA StoreStep ==
  ASSUME IInv, NEW p \in Processes, NEW label \in Labels, Goto(p, label),
         UNCHANGED <<locks, journal, local, settings>>, Excl(p, 1) \in locks,
         store' \in [id : Nat, version : Nat, valid : BOOLEAN, mixed : Modes \cup {"no"}],
         store'.id \in 1 .. 1 + commits, store'.version \in 0 .. commits
  PROVE  pc'[p] = label /\ (StoreInv' /\ ProcessOK(p)' => IInv')
<1>1. LocalsKept(p) /\ LocksStep(p)
  BY LocalsSame, LocksFewer
<1>2. UNCHANGED <<system, journal, commits, deaths, exclusively>>
  BY DEF settings
<1>3. /\ store'.id \in 1 .. 1 + commits' /\ store'.version \in 0 .. commits'
      /\ commits' \in commits .. MaxCommits /\ deaths' \in 0 .. MaxDeaths
      /\ Fits(journal', commits') /\ (journal'.kind = "none" => journal' = NoJournal)
      /\ IsAll(journal') => IsAll(journal)
  BY <1>2, Files, Standing
<1>. QED BY <1>1, <1>2, <1>3, Step

\* The blocks are overwritten under the mode that the journal says.
LEMMA OverwriteBlocksKeeps ==
  ASSUME IInv, NEW p \in Processes, OverwriteBlocks(p) PROVE IInv'
<1>. USE DEF OverwriteBlocks
<1>1. Excl(p, 1) \in locks
  <2>1. pc[p] \in Changing
    BY DEF Changing
  <2>. QED BY <2>1, Holder
<1>2. p \in AllWriters /\ p \notin Readers /\ Restores /\ journal.mode = ModeOf(p)
  BY WhoChanges, Standing DEF StageOK
<1>3. UNCHANGED <<locks, journal, local, settings>>
      /\ UNCHANGED <<locks, journal, system, exclusively>> /\ "overwritten" \in Labels
  BY DEF Labels, settings
<1>4. ModeOf(p) \in Modes
  BY ModeOfType
<1>5. /\ store' \in [id : Nat, version : Nat, valid : BOOLEAN, mixed : Modes \cup {"no"}]
      /\ store'.id = store.id /\ store'.version = store.version /\ store'.valid = store.valid
      /\ store'.mixed = ModeOf(p)
  BY <1>4, Files
<1>6. store'.id \in 1 .. 1 + commits /\ store'.version \in 0 .. commits
  BY <1>5, Files
<1>7. pc'[p] = "overwritten" /\ (StoreInv' /\ ProcessOK(p)' => IInv')
  BY <1>1, <1>3, <1>5, <1>6, StoreStep
<1>8. Restores'
  BY <1>2, <1>3, <1>5 DEF Restores
<1>9. "no" \notin Modes
  BY DEF Modes, ModifiedAll, ModifiedInactive
<1>10. StoreInv'
  BY <1>2, <1>3, <1>4, <1>5, <1>8, <1>9 DEF StoreInv
<1>11. LocksOK(p)'
  BY <1>1, <1>2, <1>3, <1>7 DEF LocksOK, WriterLabels, Excl
<1>12. StageOK(p)'
  <2>1. ModeOf(p)' = ModeOf(p)
    BY <1>3 DEF ModeOf
  <2>. QED BY <1>2, <1>3, <1>4, <1>5, <1>7, <1>8, <1>9, <2>1 DEF StageOK
<1>13. ReaderOK(p)'
  BY <1>7 DEF ReaderOK
<1>. QED BY <1>7, <1>10, <1>11, <1>12, <1>13 DEF ProcessOK

\* A header half written stands for blocks that the journal restores.
LEMMA WriteHeaderKeeps ==
  ASSUME IInv, NEW p \in Processes, WriteHeader(p) PROVE IInv'
<1>. USE DEF WriteHeader
<1>1. Excl(p, 1) \in locks
  <2>1. pc[p] \in Changing
    BY DEF Changing
  <2>. QED BY <2>1, Holder
<1>2. p \in AllWriters /\ p \notin Readers /\ Restores /\ journal.mode = ModeOf(p)
      /\ (system = "posix" => store.mixed # "no")
  BY WhoChanges, Standing DEF StageOK
<1>3. UNCHANGED <<locks, journal, local, settings>>
      /\ UNCHANGED <<locks, journal, system, exclusively>> /\ "writing" \in Labels
  BY DEF Labels, settings
<1>4. /\ store' \in [id : Nat, version : Nat, valid : BOOLEAN, mixed : Modes \cup {"no"}]
      /\ store'.id = store.id /\ store'.version = store.version
      /\ store'.mixed = store.mixed
  BY Files
<1>5. store'.id \in 1 .. 1 + commits /\ store'.version \in 0 .. commits
  BY <1>4, Files
<1>6. pc'[p] = "writing" /\ (StoreInv' /\ ProcessOK(p)' => IInv')
  BY <1>1, <1>3, <1>4, <1>5, StoreStep
<1>7. Restores'
  BY <1>2, <1>3, <1>4 DEF Restores
<1>8. StoreInv'
  BY <1>2, <1>3, <1>4, <1>7, Files DEF StoreInv
<1>9. LocksOK(p)'
  BY <1>1, <1>2, <1>3, <1>6 DEF LocksOK, WriterLabels, Excl
<1>10. StageOK(p)'
  <2>1. ModeOf(p)' = ModeOf(p)
    BY <1>3 DEF ModeOf
  <2>. QED BY <1>2, <1>3, <1>4, <1>6, <1>7, <2>1 DEF StageOK
<1>11. ReaderOK(p)'
  BY <1>6 DEF ReaderOK
<1>. QED BY <1>6, <1>8, <1>9, <1>10, <1>11 DEF ProcessOK

\* With its new commit ID the store has left the journal behind.
LEMMA HeaderWrittenKeeps ==
  ASSUME IInv, NEW p \in Processes, HeaderWritten(p) PROVE IInv'
<1>. USE DEF HeaderWritten
<1>1. Excl(p, 1) \in locks
  <2>1. pc[p] \in Changing
    BY DEF Changing
  <2>. QED BY <2>1, Holder
<1>2. p \in AllWriters /\ p \notin Readers /\ Restores
  BY WhoChanges, Standing DEF StageOK
<1>3. UNCHANGED <<locks, journal, local, settings>>
      /\ UNCHANGED <<locks, journal, system, exclusively>> /\ "begun" \in Labels
  BY DEF Labels, settings
<1>4. journal.id \in 1 .. commits /\ journal.id = store.id /\ commits \in Nat
      /\ store.id \in Nat
  BY <1>2, Files DEF Fits, Restores
<1>5. /\ store'.id = store.id + 1 /\ store'.version = commits
      /\ store'.valid = TRUE /\ store'.mixed = "no"
  OBVIOUS
<1>6. store' \in [id : Nat, version : Nat, valid : BOOLEAN, mixed : Modes \cup {"no"}]
  BY <1>4
<1>7. store'.id \in 1 .. 1 + commits /\ store'.version \in 0 .. commits
      /\ store'.id # journal.id
  BY <1>4, <1>5
<1>8. pc'[p] = "begun" /\ (StoreInv' /\ ProcessOK(p)' => IInv')
  BY <1>1, <1>3, <1>6, <1>7, StoreStep
<1>9. StoreInv'
  BY <1>3, <1>5, <1>7 DEF StoreInv
<1>10. LocksOK(p)'
  BY <1>1, <1>2, <1>3, <1>8 DEF LocksOK, WriterLabels, Excl
<1>11. StageOK(p)'
  BY <1>5, <1>8 DEF StageOK
<1>12. ReaderOK(p)'
  BY <1>8 DEF ReaderOK
<1>. QED BY <1>8, <1>9, <1>10, <1>11, <1>12 DEF ProcessOK

\* The journal is removed when the last commit has finished.
LEMMA EndTransactionKeeps ==
  ASSUME IInv, NEW p \in Processes, EndTransaction(p) PROVE IInv'
<1>. USE DEF EndTransaction
<1>1. Excl(p, 1) \in locks
  <2>1. pc[p] \in Changing
    BY DEF Changing
  <2>. QED BY <2>1, Holder
<1>2. p \in AllWriters /\ p \notin Readers /\ (system = "posix" => store.mixed = "no")
  BY WhoChanges, Standing DEF StageOK
<1>3. LocksStep(p) /\ LocalsKept(p) /\ "ended" \in Labels /\ Goto(p, "ended")
      /\ UNCHANGED <<system, store, commits, deaths, exclusively>>
  BY LocalsSame, LocksFewer DEF Labels, settings
<1>4. pc'[p] = "ended" /\ (ProcessOK(p)' => IInv')
  BY <1>1, <1>2, <1>3, JournalStep
<1>5. LocksOK(p)'
  BY <1>1, <1>2, <1>4 DEF LocksOK, WriterLabels, Excl
<1>6. StageOK(p)'
  BY <1>2, <1>3, <1>4 DEF StageOK
<1>7. ReaderOK(p)'
  BY <1>4 DEF ReaderOK
<1>. QED BY <1>4, <1>5, <1>6, <1>7 DEF ProcessOK

-----------------------------------------------------------------------------
(* The theorems *)

\* No process has begun anything.
LEMMA InitOK == Init => IInv
<1>. SUFFICES ASSUME Init PROVE IInv
  OBVIOUS
<1>. USE DEF Init
<1>1. TypeInv
  <2>1. "start" \in Labels /\ "no" \in Modes \cup {"no"} /\ Systems \subseteq {"posix", "windows"}
    BY ProcessAssumption DEF Labels
  <2>2. commits \in 0 .. MaxCommits /\ deaths \in 0 .. MaxDeaths
    BY BoundsAssumption
  <2>. QED BY <2>1, <2>2 DEF TypeInv
<1>2. JournalsOK
  BY DEF JournalsOK, Fits, NoJournal
<1>3. LockSafe
  BY DEF LockSafe
<1>4. StoreInv
  BY DEF StoreInv, NoJournal
<1>5. ASSUME NEW p \in Processes PROVE ProcessOK(p)
  <2>1. pc[p] = "start" /\ locks = {}
    OBVIOUS
  <2>2. LocksOK(p)
    BY <2>1 DEF LocksOK, ReaderLabels, WriterLabels, WriterIn, ReaderIn, Recovering
  <2>3. StageOK(p) /\ ReaderOK(p)
    BY <2>1 DEF StageOK, ReaderOK
  <2>. QED BY <2>2, <2>3 DEF ProcessOK
<1>. QED BY <1>1, <1>2, <1>3, <1>4, <1>5 DEF IInv

\* Every step of every process keeps the invariant.
LEMMA NextOK == IInv /\ [Next]_vars => IInv'
<1>. SUFFICES ASSUME IInv, [Next]_vars PROVE IInv'
  OBVIOUS
<1>1. CASE UNCHANGED vars
  <2>. USE <1>1 DEF vars
  <2>1. UNCHANGED <<system, pc, locks, store, journal, headerOk, journalSeen, exclusively,
                    commits, deaths>>
    OBVIOUS
  <2>2. TypeInv' /\ JournalsOK' /\ LockSafe'
    BY <2>1 DEF IInv, TypeInv, JournalsOK, LockSafe
  <2>3. StoreInv'
    BY <2>1 DEF IInv, StoreInv, Restores
  <2>4. ASSUME NEW q \in Processes PROVE ProcessOK(q)'
    <3>1. ProcessOK(q) /\ ModeOf(q)' = ModeOf(q)
      BY <2>1 DEF IInv, ModeOf
    <3>2. LocksOK(q)' /\ ReaderOK(q)'
      BY <2>1, <3>1 DEF ProcessOK, LocksOK, ReaderOK, IsAll
    <3>3. StageOK(q)'
      BY <2>1, <3>1 DEF ProcessOK, StageOK, Saw, Restores, JournalOpened
    <3>. QED BY <3>2, <3>3 DEF ProcessOK
  <2>. QED BY <2>2, <2>3, <2>4 DEF IInv
<1>2. ASSUME NEW p \in Processes,
             Opening(p) \/ BeginTransaction(p) \/ Writing(p) \/ Close(p) \/ Again(p) \/ Die(p)
      PROVE  IInv'
  <2>1. CASE Opening(p)
    BY <2>1, ReadBasicHeaderKeeps, ReaderLockKeeps, ReaderCompareKeeps, WriterLockKeeps,
       VerifyHeaderKeeps, NoJournalFoundKeeps, ReadJournalHeaderKeeps, LockJournalKeeps,
       RetryKeeps, SkipJournalKeeps, ApplyBlocksKeeps, ApplyHeaderKeeps, ApplyDoneKeeps,
       DiscardKeeps DEF Opening
  <2>2. CASE Writing(p)
    BY <2>2, SealJournalKeeps, OverwriteBlocksKeeps, WriteHeaderKeeps, HeaderWrittenKeeps,
       EndTransactionKeeps DEF Writing
  <2>3. CASE BeginTransaction(p)
    BY <2>3, BeginTransactionKeeps
  <2>4. CASE Close(p)
    BY <2>4, CloseKeeps
  <2>5. CASE Again(p)
    BY <2>5, AgainKeeps
  <2>6. CASE Die(p)
    BY <2>6, DieKeeps
  <2>. QED BY <1>2, <2>1, <2>2, <2>3, <2>4, <2>5, <2>6
<1>. QED BY <1>1, <1>2 DEF Next

\* The invariant holds in every state.
THEOREM Invariance == Spec => []IInv
<1>. QED BY InitOK, NextOK, PTL DEF Spec

-----------------------------------------------------------------------------
(* What a writer takes itself to have *)

\* What the two flags of an open say of its locks.
FlagsOK(p) ==
  /\ asks[p] \/ exclusively[p] => p \in ExclusiveWriters \cup TryExclusive
  /\ p \in ExclusiveWriters => asks[p]
  /\ p \in AllWriters /\ pc[p] \in WriterIn /\ asks[p] => Alone(p)
  /\ p \in AllWriters /\ Excl(p, 0) \in locks => exclusively[p]

FlagsInv ==
  /\ asks \in [Processes -> BOOLEAN] /\ exclusively \in [Processes -> BOOLEAN]
  /\ \A p \in Processes : FlagsOK(p)

Does(p) ==
  Opening(p) \/ BeginTransaction(p) \/ Writing(p) \/ Close(p) \/ Again(p) \/ Die(p)

\* At the start nobody has a lock.
LEMMA FlagsInit == Init => FlagsInv
<1>. SUFFICES ASSUME Init PROVE FlagsInv
  OBVIOUS
<1>1. asks \in [Processes -> BOOLEAN] /\ exclusively \in [Processes -> BOOLEAN]
  BY DEF Init, AsksAtFirst
<1>2. ASSUME NEW p \in Processes PROVE FlagsOK(p)
  BY DEF Init, AsksAtFirst, FlagsOK, WriterIn
<1>. QED BY <1>1, <1>2 DEF FlagsInv

\* What steps other than the two that set the flags do to a process's locks.
LEMMA OtherSteps ==
  ASSUME IInv, NEW p \in Processes, Does(p), ~ WriterLock(p), ~ Again(p)
  PROVE  /\ UNCHANGED <<asks, exclusively>>
         /\ \A q \in Processes : q # p => pc'[q] = pc[q]
         /\ \/ locks' = locks
            \/ locks' = locks \ Held(p)
            \/ p \in Readers /\ locks' = locks \ LocksOf(p, {1}, FALSE)
            \/ p \in Readers /\ \E bytes, shared : locks' = locks \cup LocksOf(p, bytes, shared)
         /\ p \in AllWriters /\ pc'[p] \in WriterIn => locks' = locks /\ pc[p] \in WriterIn
<1>1. /\ pc \in [Processes -> Labels] /\ (p \in Readers <=> p \notin AllWriters)
      /\ p \in AllWriters => pc[p] \in WriterLabels
  BY Standing DEF IInv, TypeInv, LocksOK
<1>2. CASE \/ ReadBasicHeader(p) \/ ReaderLock(p) \/ ReaderCompare(p) \/ VerifyHeader(p)
           \/ NoJournalFound(p) \/ ReadJournalHeader(p) \/ LockJournal(p) \/ Retry(p)
           \/ SkipJournal(p)
  BY <1>1, <1>2 DEF ReadBasicHeader, ReaderLock, ReaderCompare, VerifyHeader, NoJournalFound,
     ReadJournalHeader, LockJournal, Retry, SkipJournal, Goto, settings, WriterIn, WriterLabels
<1>3. CASE ApplyBlocks(p) \/ ApplyHeader(p) \/ ApplyDone(p) \/ Discard(p)
  BY <1>1, <1>3 DEF ApplyBlocks, ApplyHeader, ApplyDone, Discard, LocksAfterRecovery, Goto,
     settings, WriterIn, WriterLabels
<1>4. CASE BeginTransaction(p) \/ Writing(p)
  BY <1>1, <1>4 DEF BeginTransaction, Writing, SealJournal, OverwriteBlocks, WriteHeader,
     HeaderWritten, EndTransaction, Goto, settings, WriterIn, WriterLabels
<1>5. CASE Close(p) \/ Die(p)
  BY <1>1, <1>5 DEF Close, Die, Goto, settings, WriterIn, WriterLabels
<1>. QED BY <1>2, <1>3, <1>4, <1>5 DEF Does, Opening

\* The flags and the locks of the others stay; those of p fit each other.
LEMMA FlagsNext == IInv /\ FlagsInv /\ [Next]_vars => FlagsInv'
<1>. SUFFICES ASSUME IInv, FlagsInv, [Next]_vars PROVE FlagsInv'
  OBVIOUS
<1>1. CASE UNCHANGED vars
  BY <1>1 DEF vars, FlagsInv, FlagsOK, Alone
<1>2. ASSUME NEW p \in Processes, Does(p) PROVE FlagsInv'
  <2>1. /\ pc \in [Processes -> Labels] /\ FlagsOK(p)
        /\ asks \in [Processes -> BOOLEAN] /\ exclusively \in [Processes -> BOOLEAN]
    BY DEF IInv, TypeInv, FlagsInv
  <2>2. \A l \in Held(p) : l.owner = p
    BY DEF Held
  <2>3. /\ asks' \in [Processes -> BOOLEAN] /\ exclusively' \in [Processes -> BOOLEAN]
        /\ \A q \in Processes : q # p =>
             pc'[q] = pc[q] /\ asks'[q] = asks[q] /\ exclusively'[q] = exclusively[q]
        /\ \A l : l.owner # p => (l \in locks' <=> l \in locks)
    <3>1. CASE WriterLock(p)
      <4>1. /\ asks' \in [Processes -> BOOLEAN] /\ exclusively' \in [Processes -> BOOLEAN]
            /\ \A q \in Processes : q # p =>
                 pc'[q] = pc[q] /\ asks'[q] = asks[q] /\ exclusively'[q] = exclusively[q]
        BY <2>1, <3>1 DEF WriterLock, Goto
      <4>2. locks' = locks \/ locks' = locks \cup LocksOf(p, BytesToLock(p), FALSE)
        BY <3>1 DEF WriterLock
      <4>3. \A l \in LocksOf(p, BytesToLock(p), FALSE) : l.owner = p
        BY LocksOfMember
      <4>4. \A l : l.owner # p => (l \in locks' <=> l \in locks)
        BY <4>2, <4>3
      <4>. QED BY <4>1, <4>4
    <3>2. CASE Again(p)
      BY <2>1, <2>2, <3>2 DEF Again, Goto, AsksAtFirst
    <3>3. CASE ~ WriterLock(p) /\ ~ Again(p)
      <4>1. \A bytes, shared : \A l \in LocksOf(p, bytes, shared) : l.owner = p
        BY LocksOfMember
      <4>2. /\ UNCHANGED <<asks, exclusively>>
            /\ \A q \in Processes : q # p => pc'[q] = pc[q]
        BY <1>2, <3>3, OtherSteps
      <4>3. \A l : l.owner # p => (l \in locks' <=> l \in locks)
        BY <1>2, <2>2, <3>3, <4>1, OtherSteps
      <4>. QED BY <2>1, <4>2, <4>3
    <3>. QED BY <3>1, <3>2, <3>3
  <2>4. ASSUME NEW q \in Processes, q # p PROVE FlagsOK(q)'
    <3>1. FlagsOK(q)
      BY DEF FlagsInv
    <3>2. \A b : Excl(q, b) \in locks' <=> Excl(q, b) \in locks
      BY <2>3, <2>4 DEF Excl
    <3>3. Alone(q)' <=> Alone(q)
      <4>1. LocksOf(q, {0, 1, 2}, FALSE) = {Excl(q, 0), Excl(q, 1), Excl(q, 2)}
        BY DEF LocksOf, Excl
      <4>. QED BY <3>2, <4>1 DEF Alone
    <3>. QED BY <2>3, <2>4, <3>1, <3>2, <3>3 DEF FlagsOK
  <2>5. FlagsOK(p)'
    <3>1. CASE WriterLock(p)
      <4>1. p \in AllWriters /\ pc[p] = "start" /\ \A l \in locks : l.owner # p
        BY <3>1, Standing DEF WriterLock, LocksOK
      <4>2. CASE /\ locks' = locks \cup LocksOf(p, BytesToLock(p), FALSE)
                 /\ exclusively' = [exclusively EXCEPT ![p] = @ \/ asks[p]]
                 /\ UNCHANGED asks
        <5>1. asks'[p] = asks[p] /\ (exclusively'[p] <=> exclusively[p] \/ asks[p])
          BY <2>1, <4>2
        <5>2. asks[p] => Alone(p)'
          BY <4>2 DEF BytesToLock, Alone
        <5>3. Excl(p, 0) \in locks' => asks[p]
          <6>1. Excl(p, 0).owner = p /\ Excl(p, 0).byte = 0
            BY DEF Excl
          <6>2. \A l \in LocksOf(p, BytesToLock(p), FALSE) : l.byte \in BytesToLock(p)
            BY LocksOfMember
          <6>3. Excl(p, 0) \notin locks
            BY <4>1, <6>1
          <6>4. Excl(p, 0) \in locks' => 0 \in BytesToLock(p)
            BY <4>2, <6>1, <6>2, <6>3
          <6>. QED BY <6>4 DEF BytesToLock
        <5>. QED BY <2>1, <5>1, <5>2, <5>3 DEF FlagsOK
      <4>3. CASE /\ asks' = [asks EXCEPT ![p] = FALSE] /\ p \in TryExclusive
                 /\ UNCHANGED <<pc, locks, exclusively>>
        <5>1. asks'[p] = FALSE /\ p \notin ExclusiveWriters
          BY <2>1, <4>3, ProcessAssumption
        <5>. QED BY <2>1, <4>3, <5>1 DEF FlagsOK
      <4>4. CASE Goto(p, "failed") /\ UNCHANGED <<locks, asks, exclusively>>
        BY <2>1, <4>4 DEF FlagsOK, Goto, WriterIn
      <4>. QED BY <3>1, <4>2, <4>3, <4>4 DEF WriterLock
    <3>2. CASE Again(p)
      <4>1. Excl(p, 0) \notin locks'
        BY <3>2 DEF Again, Held, Excl
      <4>2. /\ pc'[p] = "start" /\ exclusively'[p] = FALSE
            /\ asks'[p] <=> p \in ExclusiveWriters \cup TryExclusive
        BY <2>1, <3>2 DEF Again, Goto, AsksAtFirst
      <4>. QED BY <4>1, <4>2 DEF FlagsOK, WriterIn
    <3>3. CASE ~ WriterLock(p) /\ ~ Again(p)
      <4>1. /\ UNCHANGED <<asks, exclusively>>
            /\ \/ locks' \subseteq locks
               \/ p \in Readers
            /\ p \in AllWriters /\ pc'[p] \in WriterIn => locks' = locks /\ pc[p] \in WriterIn
        BY <1>2, <3>3, OtherSteps
      <4>2. p \in Readers => p \notin AllWriters
        BY Roles
      <4>. QED BY <2>1, <4>1, <4>2 DEF FlagsOK, Alone
    <3>. QED BY <3>1, <3>2, <3>3
  <2>. QED BY <2>3, <2>4, <2>5 DEF FlagsInv
<1>. QED BY <1>1, <1>2 DEF Next, Does

\* Only a writer that has fallen back takes itself to have the store to itself.
LEMMA FlagsMean ==
  ASSUME IInv, FlagsInv
  PROVE  OnlyFallbackMistaken
<1>. SUFFICES ASSUME NEW p \in AllWriters, pc[p] \in WithStore
              PROVE  /\ Alone(p) => ModeOf(p) = ModifiedAll
                     /\ ModeOf(p) = ModifiedAll /\ ~ Alone(p) =>
                          p \in TryExclusive /\ ~ asks[p] /\ exclusively[p]
  BY DEF OnlyFallbackMistaken
<1>1. p \in Processes /\ pc[p] \in WriterIn
  BY DEF Processes, WithStore, WriterIn
<1>2. FlagsOK(p)
  BY <1>1 DEF FlagsInv
<1>3. Alone(p) => Excl(p, 0) \in locks
  BY AloneLocks
<1>. QED BY <1>1, <1>2, <1>3 DEF FlagsOK, ModeOf, ModifiedAll, ModifiedInactive

-----------------------------------------------------------------------------
(* What the runs check follows from the invariants *)

\* What the invariants say of the store and its processes in a state.
LEMMA InvariantMeans == IInv /\ FlagsInv => TypeOK /\ StoreProtected
<1>. SUFFICES ASSUME IInv, FlagsInv PROVE TypeOK /\ StoreProtected
  OBVIOUS
<1>1. TypeOK
  <2>1. /\ pc \in [Processes -> Labels]
        /\ locks \subseteq [owner : Processes, byte : 0 .. 2, shared : BOOLEAN]
        /\ store.mixed \in Modes \cup {"no"}
        /\ commits \in 0 .. MaxCommits /\ deaths \in 0 .. MaxDeaths
        /\ store.id \in 1 .. 1 + commits /\ store.version \in 0 .. commits
    BY DEF IInv, TypeInv
  <2>2. store.id \in 1 .. 1 + MaxCommits + MaxDeaths /\ store.version \in 0 .. MaxCommits
    BY <2>1, BoundsAssumption
  <2>3. journal.kind \in {"none", "empty", "sealed"}
    BY DEF IInv, JournalsOK, Fits
  <2>4. \A p \in Processes : pc[p] \in {"start", "closed", "dead"} => Held(p) = {}
    BY Standing DEF LocksOK, Held
  <2>5. asks \in [Processes -> BOOLEAN] /\ exclusively \in [Processes -> BOOLEAN]
    BY DEF FlagsInv
  <2>. QED BY <2>1, <2>2, <2>3, <2>4, <2>5 DEF TypeOK
<1>2. OneWriter
  <2>. SUFFICES ASSUME NEW p \in Processes, NEW q \in Processes, pc[p] \in Changing,
                       pc[q] \in Changing \/ (q \in AllWriters /\ pc[q] = "opened"),
                       p # q
                PROVE  FALSE
    BY DEF OneWriter
  <2>1. Excl(p, 1) \in locks /\ Excl(q, 1) \in locks
    BY Holder
  <2>2. LockSafe
    BY DEF IInv
  <2>. QED BY <2>1, <2>2, OneHolder
<1>3. ASSUME system = "posix" PROVE JournalKept /\ NoReaderSeesMixed
  <2>1. store.mixed # "no" => Restores /\ journal.mode = store.mixed
    BY <1>3, Files DEF StoreInv
  <2>2. NoReaderSeesMixed
    <3>1. ASSUME store.mixed = ModifiedAll, journal.alone, NEW r \in Readers
          PROVE  pc[r] # "opened"
      <4>1. IsAll(journal)
        BY <2>1, <3>1 DEF IsAll, Restores, ModifiedAll
      <4>2. r \in Processes
        BY DEF Processes
      <4>. QED BY <4>1, <4>2, Standing DEF ReaderOK
    <3>. QED BY <3>1 DEF NoReaderSeesMixed
  <2>. QED BY <2>1, <2>2 DEF JournalKept, Restores
<1>4. OnlyFallbackMistaken
  BY FlagsMean
<1>. QED BY <1>1, <1>2, <1>3, <1>4 DEF StoreProtected

\* What open() remembers of its locks is right, or wrong in the one way that
\* OnlyFallbackMistaken says.
LEMMA FlagsAlways == Spec => []FlagsInv
<1>. QED BY FlagsInit, FlagsNext, Invariance, PTL DEF Spec

\* Every state is of its type, and a process that starts over or has closed the
\* store holds no lock.
THEOREM TypeCorrect == Spec => []TypeOK
<1>. QED BY Invariance, FlagsAlways, InvariantMeans, PTL

\* One process at a time changes the store or its journal; where readers cannot
\* lock for writing, the journal that restores overwritten blocks stays until it
\* has been applied, and no reader uses the blocks that a writer overwrites which
\* has the store to itself.  The only writer that overwrites what readers see is
\* one that was asked to try, rolled a journal back and then fell back to the
\* ordinary lock: lockedExclusively_ is still set.
THEOREM StoreAlwaysProtected == Spec => []StoreProtected
<1>. QED BY Invariance, FlagsAlways, InvariantMeans, PTL

\* A step takes no commit back: recovery restores the version that the store's
\* header says, and a commit makes a later one.
LEMMA StepKeepsVersion ==
  IInv /\ [Next]_vars => [system = "posix" => store'.version >= store.version]_vars
<1>. SUFFICES ASSUME IInv, Next, system = "posix" PROVE store'.version >= store.version
  OBVIOUS
<1>1. store.version \in 0 .. commits /\ commits \in Nat
  BY Files
<1>2. PICK p \in Processes :
        Opening(p) \/ BeginTransaction(p) \/ Writing(p) \/ Close(p) \/ Again(p) \/ Die(p)
  BY DEF Next
<1>3. CASE ApplyHeader(p)
  <2>1. pc[p] = "applying" /\ p \in AllWriters
    BY <1>3, WhoChanges DEF ApplyHeader, Recovering
  <2>2. JournalOpened(p).kind = "sealed" /\ Saw(p) /\ store.mixed # "no"
    BY <2>1, Standing DEF StageOK
  <2>3. JournalOpened(p) = journal /\ journal.version = store.version
    BY <2>2, Opened, Files DEF StoreInv, Restores
  <2>4. store'.version = JournalOpened(p).version
    BY <1>3 DEF ApplyHeader
  <2>. QED BY <1>1, <2>3, <2>4
<1>4. CASE HeaderWritten(p)
  <2>1. store'.version = commits
    BY <1>4 DEF HeaderWritten
  <2>. QED BY <1>1, <2>1
<1>5. CASE ApplyBlocks(p) \/ OverwriteBlocks(p) \/ WriteHeader(p)
  <2>1. store'.version = store.version
    BY <1>5, Files DEF ApplyBlocks, OverwriteBlocks, WriteHeader
  <2>. QED BY <1>1, <2>1
<1>6. CASE /\ ~ ApplyHeader(p) /\ ~ HeaderWritten(p)
           /\ ~ ApplyBlocks(p) /\ ~ OverwriteBlocks(p) /\ ~ WriteHeader(p)
  <2>1. store' = store
    BY <1>2, <1>6 DEF Opening, Writing, ReadBasicHeader, ReaderLock, ReaderCompare,
       WriterLock, VerifyHeader, NoJournalFound, ReadJournalHeader, LockJournal, Retry,
       SkipJournal, ApplyDone, Discard, BeginTransaction, SealJournal, EndTransaction,
       Close, Again, Die
  <2>. QED BY <1>1, <2>1
<1>. QED BY <1>3, <1>4, <1>5, <1>6

\* Where readers cannot recover, no process takes back a commit that has
\* finished, neither by recovery nor by another commit.
THEOREM CommitsAlwaysStay == Spec => CommitsStay
<1>1. Spec => [][Next]_vars
  BY PTL DEF Spec
<1>. QED BY <1>1, Invariance, StepKeepsVersion, PTL DEF CommitsStay
=============================================================================
