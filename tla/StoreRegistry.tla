------------------------------ MODULE StoreRegistry ------------------------------
(***************************************************************************)
(* The registry of open feature stores (FeatureStore.cpp, FeatureStore.h)  *)
(* and the reverse index of a store's tiles, which is made when it is      *)
(* first needed (ReverseTileIndex.cpp).                                    *)
(*                                                                         *)
(* openSingle() looks a file up, and opens it if it is not there, under a  *)
(* mutex: that is one step.  release() counts down without the mutex, and  *)
(* the thread that counts down to zero runs the destructor, which takes    *)
(* the mutex to erase the entry of the file.  A store that could not be    *)
(* opened is destroyed as well, after the mutex is given back.             *)
(***************************************************************************)
EXTENDS Naturals, FiniteSets, Sequences

CONSTANTS
  Threads, Files,
  Tips,         \* of the tiles of a store
  MaxStores     \* FeatureStore objects made

StoresAssumption == MaxStores \in Nat /\ IsFiniteSet(Threads)

Stores == 1 .. MaxStores

VARIABLES
  file,         \* by store: its file, or "none" before it is made
  life,         \* by store: "none", "open", "failed" or "destroyed"
  refcount,
  registry,     \* by file: its store, or 0
  held,         \* by thread: how many references to each store it has
  dying,        \* by thread: the store whose destructor it is about to run, or 0
  revived,      \* stores that were handed out when their count was zero
  erased,       \* stores whose entry the destructor of another one erased
  index,        \* by store: the published index, <<by whom, tips>>; or <<>>
  looking       \* by thread: a call of index(): [store, step, tips]

vars == <<file, life, refcount, registry, held, dying, revived, erased, index, looking>>
indexes == <<index, looking>>

NoFile == "none"
Idle == [store |-> 0, step |-> "idle", tips |-> {}]
New == {s \in Stores : life[s] = "none"}
NewStore == CHOOSE s \in New : \A r \in New : s <= r

Init ==
  /\ file = [s \in Stores |-> NoFile] /\ life = [s \in Stores |-> "none"]
  /\ refcount = [s \in Stores |-> 0] /\ registry = [f \in Files |-> 0]
  /\ held = [t \in Threads |-> [s \in Stores |-> 0]] /\ dying = [t \in Threads |-> 0]
  /\ revived = {} /\ erased = {}
  /\ index = [s \in Stores |-> <<>>] /\ looking = [t \in Threads |-> Idle]

Free(t) == dying[t] = 0 /\ looking[t] = Idle
Hold(t, s) == held' = [held EXCEPT ![t][s] = @ + 1]

-----------------------------------------------------------------------------
(* openSingle()                                                            *)

\* Wrong: the store is handed out without counting it.
AddrefForgotten(s) == refcount' = refcount
Addref(s) == refcount' = [refcount EXCEPT ![s] = @ + 1]

OpenFound(t, f) ==
  /\ Free(t) /\ registry[f] # 0 /\ held[t][registry[f]] = 0
  /\ \E s \in {registry[f]} :
       /\ Addref(s) /\ Hold(t, s)
       /\ revived' = IF refcount[s] = 0 THEN revived \union {s} ELSE revived
  /\ UNCHANGED <<file, life, registry, dying, erased, indexes>>

\* Wrong: the file is opened again although it is open.
NotOpenIgnored(f) == TRUE
NotOpen(f) == registry[f] = 0

OpenNew(t, f) ==
  /\ Free(t) /\ NotOpen(f) /\ New # {}
  /\ \E s \in {NewStore} :
       /\ file' = [file EXCEPT ![s] = f] /\ life' = [life EXCEPT ![s] = "open"]
       /\ refcount' = [refcount EXCEPT ![s] = 1]
       /\ registry' = [registry EXCEPT ![f] = s] /\ Hold(t, s)
  /\ UNCHANGED <<dying, revived, erased, indexes>>

\* open() throws, and the new store is still to be destroyed.
OpenFails(t, f) ==
  /\ Free(t) /\ NotOpen(f) /\ New # {}
  /\ \E s \in {NewStore} :
       /\ file' = [file EXCEPT ![s] = f] /\ life' = [life EXCEPT ![s] = "failed"]
       /\ refcount' = [refcount EXCEPT ![s] = 1]
       /\ dying' = [dying EXCEPT ![t] = s]
  /\ UNCHANGED <<registry, held, revived, erased, indexes>>

-----------------------------------------------------------------------------
(* release() and the destructor.                                           *)

Release(t, s) ==
  /\ Free(t) /\ held[t][s] > 0 /\ life[s] = "open"
  /\ refcount' = [refcount EXCEPT ![s] = @ - 1]
  /\ held' = [held EXCEPT ![t][s] = @ - 1]
  /\ dying' = IF refcount[s] = 1 THEN [dying EXCEPT ![t] = s] ELSE dying
  /\ UNCHANGED <<file, life, registry, revived, erased, indexes>>

\* The destructor also deletes the index.  What a thread does with a store that
\* was destroyed, by another thread too, is undefined, and not modelled.
Destroy(t) ==
  /\ dying[t] # 0 /\ life[dying[t]] # "destroyed"
  /\ \E s \in {dying[t]} :
       /\ life' = [life EXCEPT ![s] = "destroyed"]
       /\ registry' = [registry EXCEPT ![file[s]] = 0]
       /\ erased' = IF registry[file[s]] \notin {0, s} THEN erased \union {registry[file[s]]} ELSE erased
       /\ index' = [index EXCEPT ![s] = <<>>]
  /\ dying' = [dying EXCEPT ![t] = 0]
  /\ UNCHANGED <<file, refcount, held, revived, looking>>

-----------------------------------------------------------------------------
(* ReverseTileIndex: index() and initialize().                             *)

Look(t, s) ==
  /\ Free(t) /\ held[t][s] > 0 /\ life[s] = "open"
  /\ looking' = [looking EXCEPT ![t] = [store |-> s, step |-> IF index[s] = <<>> THEN "lock" ELSE "have", tips |-> {}]]
  /\ UNCHANGED <<file, life, refcount, registry, held, dying, revived, erased, index>>

Filling(s) == \E t \in Threads : looking[t].step = "fill" /\ looking[t].store = s
\* Wrong: whether the index is there by now is not asked again.
AfterLockNoRecheck(s) == "fill"
AfterLock(s) == IF index[s] = <<>> THEN "fill" ELSE "have"
\* Wrong: the index is published before it is filled.
IndexedTooEarly(t) == {}
Indexed(t) == Tips

Initialize(t) ==
  /\ looking[t].store # 0 /\ life[looking[t].store] = "open"
  /\ \/ /\ looking[t].step = "lock" /\ ~Filling(looking[t].store)
        /\ looking' = [looking EXCEPT ![t].step = AfterLock(looking[t].store)]
        /\ UNCHANGED index
     \/ /\ looking[t].step = "fill" /\ looking[t].tips # Indexed(t)
        /\ \E tip \in Tips \ looking[t].tips : looking' = [looking EXCEPT ![t].tips = @ \union {tip}]
        /\ UNCHANGED index
     \/ /\ looking[t].step = "fill" /\ looking[t].tips = Indexed(t)
        /\ index' = [index EXCEPT ![looking[t].store] = <<t, looking[t].tips>>]
        /\ looking' = [looking EXCEPT ![t].step = "have"]
  /\ UNCHANGED <<file, life, refcount, registry, held, dying, revived, erased>>

Looked(t) ==
  /\ looking[t].step = "have" /\ looking' = [looking EXCEPT ![t] = Idle]
  /\ UNCHANGED <<file, life, refcount, registry, held, dying, revived, erased, index>>

Next ==
  \E t \in Threads :
    \/ \E f \in Files : OpenFound(t, f) \/ OpenNew(t, f) \/ OpenFails(t, f)
    \/ \E s \in Stores : Release(t, s) \/ Look(t, s)
    \/ Destroy(t) \/ Initialize(t) \/ Looked(t)

Spec == Init /\ [][Next]_vars

-----------------------------------------------------------------------------
(* Correctness.                                                            *)

References(s) == {t \in Threads : held[t][s] > 0}
InUse(s) == life[s] = "open" /\ References(s) # {}

\* References to an open store are counted, and one that has none is about to be
\* destroyed (FeatureStore.h, lines 104-114).
Counted ==
  \A s \in Stores : life[s] = "open" =>
    /\ refcount[s] = Cardinality(References(s))
    /\ refcount[s] = 0 => \E t \in Threads : dying[t] = s

\* The only stores that are held and not open are those that openSingle() took
\* from the registry between the release() that counted down to zero and the
\* destructor.  Every one of these is destroyed, whoever has got it
\* (FeatureStore.cpp, lines 66-75 and 111-123).
HeldIsOpen ==
  /\ \A t \in Threads, s \in Stores : held[t][s] > 0 => life[s] = "open" \/ s \in revived
  /\ \A s \in Stores : s \in revived => life[s] = "destroyed" \/ \E t \in Threads : dying[t] = s

\* A store that is in use is the one that the registry has for its file, but for
\* one whose entry the destructor of another store has erased: that one is not
\* found again, and only then a file can have two stores in use (FeatureStore.cpp,
\* lines 82-86).
Registered == \A s \in Stores : InUse(s) => (registry[file[s]] = s <=> s \notin erased)
OneStore ==
  \A s, r \in Stores : s # r /\ InUse(s) /\ InUse(r) /\ file[s] = file[r] => {s, r} \intersect erased # {}

\* What a user of stores expects, and openSingle(), release() and the destructor
\* do not give: what is held is open, and a file has one store.
HeldAlwaysOpen == \A t \in Threads, s \in Stores : held[t][s] > 0 => life[s] = "open"
AlwaysOneStore == \A s, r \in Stores : InUse(s) /\ InUse(r) /\ file[s] = file[r] => s = r

\* An index that is published has every tip, and is not replaced while the store
\* lives (ReverseTileIndex.cpp, lines 16-38; ReverseTileIndex.h, lines 56-64).
IndexKept == \A s \in Stores : index[s] # <<>> => index'[s] = index[s] \/ life'[s] = "destroyed"
IndexOnce == [][IndexKept]_vars
IndexComplete == \A s \in Stores : index[s] # <<>> => index[s][2] = Tips

================================================================================
