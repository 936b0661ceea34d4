--------------------------- MODULE ServicesProofs ---------------------------
(***************************************************************************)
(* What holds of the parts that threads share, for every number of         *)
(* threads, stores, timers, calls and bytes: the registry of open stores,  *)
(* the console, the output buffers, file handles, mapped files and pile    *)
(* files.  Each part has an inductive invariant of its own; a step of      *)
(* another part leaves it alone (MemoryProofs.tla is about the other two). *)
(***************************************************************************)
EXTENDS Services, FiniteSetTheorems, SequenceTheorems, WellFoundedInduction, TLAPS

-----------------------------------------------------------------------------
(* The registry of open stores: the inductive invariant *)

Stores == 1 .. MaxStores
Lives == {"none", "open", "failed", "destroyed"}

RegistryTyped ==
  /\ life \in [Stores -> Lives] /\ refcount \in [Stores -> Nat]
  /\ registry \in [Files -> Stores \cup {0}]
  /\ held \in [StoreThreads -> [Stores -> {0, 1}]]
  /\ dying \in [StoreThreads -> Stores \cup {0}]
  /\ DOMAIN file = Stores
  /\ \A s \in Stores : life[s] # "none" => file[s] \in Files

\* The references to a store are counted while it is open.
Holders(h, s) == {t \in StoreThreads : h[t][s] = 1}
HoldersCounted == \A s \in Stores : life[s] = "open" => refcount[s] = Cardinality(Holders(held, s))

\* Who holds a store got it while it was open; if it was destroyed since, it
\* was handed out when nobody else held it.
HeldKnown ==
  \A t \in StoreThreads, s \in Stores :
    held[t][s] = 1 => life[s] = "open" \/ (life[s] = "destroyed" /\ s \in revived)

\* A store is about to be destroyed when it could not be opened, or when
\* nobody held it any more.
DyingKnown ==
  \A t \in StoreThreads, s \in Stores :
    dying[t] = s => /\ life[s] # "none"
                    /\ life[s] = "open" => refcount[s] = 0 \/ s \in revived

\* What is registered is open, and what is in use is registered.
RegistryKnown ==
  /\ \A f \in Files : registry[f] # 0 => life[registry[f]] = "open" /\ file[registry[f]] = f
  /\ \A s \in Stores :
       life[s] = "open" /\ (\E t \in StoreThreads : held[t][s] = 1) => registry[file[s]] = s \/ s \in erased

\* Who is handed out with no references, or has none left, is about to be destroyed.
DoomedKnown ==
  \A s \in Stores :
    s \in revived \/ (life[s] = "open" /\ refcount[s] = 0) => life[s] = "destroyed" \/ \E t \in StoreThreads : dying[t] = s

\* A store whose entry was erased does not get it back.
ErasedKnown == \A s \in Stores : s \in erased => life[s] # "none" /\ \A f \in Files : registry[f] # s

\* One thread at a time makes the index of a store that has none.
LookingTyped ==
  /\ index \in [Stores -> {<<>>} \cup {<<t, Tips>> : t \in StoreThreads}]
  /\ looking \in [StoreThreads -> [store : Stores \cup {0}, step : {"idle", "lock", "fill", "have"}, tips : SUBSET Tips]]
FillingOnce ==
  \A t, u \in StoreThreads :
    /\ looking[t].step = "fill" => looking[t].store # 0 /\ index[looking[t].store] = <<>>
    /\ looking[t].step = "fill" /\ looking[u].step = "fill" /\ looking[t].store = looking[u].store => t = u

-----------------------------------------------------------------------------
(* What the steps have in common *)

\* Stores are numbered from 1, and there are finitely many threads.
LEMMA StoresNumbered ==
  Stores \subseteq Nat /\ 0 \notin Stores /\ IsFiniteSet(StoreThreads) /\ Registry!Stores = Stores
<1>1. MaxStores \in Nat /\ IsFiniteSet(StoreThreads)
  BY ServicesAssumption DEF Registry!StoresAssumption, Registry!IsFiniteSet, IsFiniteSet
<1>2. Stores \subseteq Nat /\ 0 \notin Stores
  BY <1>1 DEF Stores
<1>3. Registry!Stores = Stores
  BY DEF Stores, Registry!Stores
<1>. QED BY <1>1, <1>2, <1>3

\* Every nonempty set of naturals has a least element.
LEMMA LeastNat ==
  ASSUME NEW S, S \subseteq Nat, S # {}
  PROVE  \E m \in S : \A n \in S : m =< n
<1>. DEFINE R == OpToRel(<, Nat)
<1>1. \A m, n \in Nat : <<m, n>> \in R <=> m < n
  BY DEF OpToRel
<1>2. IsWellFoundedOn(R, Nat)
  BY NatLessThanWellFounded, ZenonT(30)
<1>. HIDE DEF R
<1>3. PICK m \in S : \A n \in S : ~ (<<n, m>> \in R)
  BY <1>2, WFMin
<1>4. \A n \in S : ~ (n < m)
  BY <1>1, <1>3, Zenon
<1>. QED BY <1>4

\* A new store is one that was not made yet.
LEMMA NewIsNew ==
  ASSUME Registry!New # {}
  PROVE  Registry!NewStore \in Stores /\ life[Registry!NewStore] = "none"
<1>. DEFINE N == Registry!New
<1>1. N \subseteq Stores /\ N \subseteq Nat /\ \A s \in N : life[s] = "none"
  BY StoresNumbered DEF Registry!New
<1>. HIDE DEF N
<1>2. \E s \in N : \A r \in N : s <= r
  BY <1>1, LeastNat DEF N
<1>3. (CHOOSE s \in N : \A r \in N : s <= r) \in N
  BY <1>2
<1>4. Registry!NewStore = CHOOSE s \in N : \A r \in N : s <= r
  BY DEF Registry!NewStore, N
<1>. QED BY <1>1, <1>3, <1>4

\* The references to a store can be counted.
Held01 == [StoreThreads -> [Stores -> {0, 1}]]
LEMMA HoldersFinite ==
  ASSUME NEW h, NEW s
  PROVE  IsFiniteSet(Holders(h, s)) /\ Cardinality(Holders(h, s)) \in Nat
<1>1. Holders(h, s) \in SUBSET StoreThreads
  BY DEF Holders
<1>. QED BY <1>1, StoresNumbered, FS_Subset, FS_CardinalityType

\* A thread that gets a reference is one holder more.
LEMMA OneHolderMore ==
  ASSUME NEW h \in Held01, NEW t \in StoreThreads, NEW s \in Stores, h[t][s] = 0,
         NEW g \in Held01, g[t][s] = 1,
         \A u \in StoreThreads, r \in Stores : u # t \/ r # s => g[u][r] = h[u][r]
  PROVE  /\ Cardinality(Holders(g, s)) = Cardinality(Holders(h, s)) + 1
         /\ \A r \in Stores \ {s} : Holders(g, r) = Holders(h, r)
<1>2. Holders(g, s) = Holders(h, s) \cup {t} /\ t \notin Holders(h, s)
  BY DEF Holders
<1>3. Cardinality(Holders(g, s)) = Cardinality(Holders(h, s)) + 1
  BY <1>2, HoldersFinite, FS_AddElement
<1>4. \A r \in Stores \ {s} : Holders(g, r) = Holders(h, r)
  BY DEF Holders
<1>. QED BY <1>3, <1>4

\* A thread that gives it back is one holder less.
LEMMA OneHolderLess ==
  ASSUME NEW h \in Held01, NEW t \in StoreThreads, NEW s \in Stores, h[t][s] = 1,
         NEW g \in Held01, g[t][s] = 0,
         \A u \in StoreThreads, r \in Stores : u # t \/ r # s => g[u][r] = h[u][r]
  PROVE  /\ Cardinality(Holders(g, s)) = Cardinality(Holders(h, s)) - 1
         /\ \A r \in Stores \ {s} : Holders(g, r) = Holders(h, r)
<1>2. Holders(g, s) = Holders(h, s) \ {t} /\ t \in Holders(h, s)
  BY DEF Holders
<1>3. Cardinality(Holders(g, s)) = Cardinality(Holders(h, s)) - 1
  BY <1>2, HoldersFinite, FS_RemoveElement
<1>4. \A r \in Stores \ {s} : Holders(g, r) = Holders(h, r)
  BY DEF Holders
<1>. QED BY <1>3, <1>4

-----------------------------------------------------------------------------
(* Opening, releasing and destroying *)

StoresKnown == RegistryTyped /\ HoldersCounted /\ HeldKnown /\ DyingKnown /\ RegistryKnown /\ DoomedKnown /\ ErasedKnown
IndexesKnown == LookingTyped /\ FillingOnce

\* openSingle() finds the file open.
LEMMA OpenFoundStores ==
  ASSUME StoresKnown, NEW t \in StoreThreads, NEW f \in Files, Registry!OpenFound(t, f)
  PROVE  StoresKnown'
<1>. DEFINE s == registry[f]
<1>1. RegistryTyped /\ HoldersCounted /\ HeldKnown /\ DyingKnown /\ RegistryKnown /\ DoomedKnown /\ ErasedKnown
  BY DEF StoresKnown
<1>2. /\ s \in Stores /\ held[t][s] = 0 /\ life[s] = "open" /\ file[s] = f
      /\ refcount' = [refcount EXCEPT ![s] = @ + 1] /\ held' = [held EXCEPT ![t][s] = @ + 1]
      /\ revived' = IF refcount[s] = 0 THEN revived \union {s} ELSE revived
      /\ UNCHANGED <<file, life, registry, dying, erased>>
  <2>1. /\ s \in Stores /\ life[s] = "open" /\ file[s] = f
    BY <1>1 DEF Registry!OpenFound, RegistryTyped, RegistryKnown
  <2>2. /\ held[t][s] = 0
        /\ refcount' = [refcount EXCEPT ![s] = @ + 1] /\ held' = [held EXCEPT ![t][s] = @ + 1]
        /\ revived' = IF refcount[s] = 0 THEN revived \union {s} ELSE revived
        /\ UNCHANGED <<file, life, registry, dying, erased>>
    <3>1. PICK z \in {s} :
            /\ Registry!Addref(z) /\ Registry!Hold(t, z)
            /\ revived' = IF refcount[z] = 0 THEN revived \union {z} ELSE revived
      BY DEF Registry!OpenFound
    <3>2. refcount' = [refcount EXCEPT ![s] = @ + 1] /\ held' = [held EXCEPT ![t][s] = @ + 1]
      BY <3>1 DEF Registry!Addref, Registry!Hold
    <3>. QED BY <3>1, <3>2 DEF Registry!OpenFound
  <2>. QED BY <2>1, <2>2
<1>. HIDE DEF s
<1>0. held' = [held EXCEPT ![t][s] = 1]
  BY <1>2
<1>3. /\ held' \in Held01 /\ held'[t][s] = 1
      /\ \A u \in StoreThreads, r \in Stores : u # t \/ r # s => held'[u][r] = held[u][r]
      /\ Cardinality(Holders(held', s)) = Cardinality(Holders(held, s)) + 1
      /\ \A r \in Stores \ {s} : Holders(held', r) = Holders(held, r)
  <2>1. held \in Held01
    BY <1>1 DEF RegistryTyped, Held01
  <2>2. held' \in Held01 /\ held'[t][s] = 1
        /\ \A u \in StoreThreads, r \in Stores : u # t \/ r # s => held'[u][r] = held[u][r]
    BY <1>0, <1>2, <2>1 DEF Held01
  <2>3. s \in Stores /\ held[t][s] = 0
    BY <1>2
  <2>. HIDE DEF Held01
  <2>. QED BY <2>1, <2>2, <2>3, OneHolderMore
<1>4. RegistryTyped'
  BY <1>1, <1>2, <1>3 DEF RegistryTyped, Held01, Stores
<1>5. HoldersCounted'
  <2>1. \A r \in Stores : Holders(held, r)' = Holders(held', r)
    BY DEF Holders
  <2>. QED BY <1>1, <1>2, <1>3, <2>1 DEF HoldersCounted, RegistryTyped, Stores
<1>6. HeldKnown'
  BY <1>1, <1>2, <1>3 DEF HeldKnown, Stores
<1>7. DyingKnown'
  BY <1>1, <1>2 DEF DyingKnown, RegistryTyped, Stores
<1>8. RegistryKnown'
  <2>1. ASSUME NEW r \in Stores, life[r] = "open", NEW u \in StoreThreads, held'[u][r] = 1
        PROVE  registry[file[r]] = r \/ r \in erased
    <3>1. CASE r = s
      BY <1>2, <3>1 DEF s
    <3>2. CASE r # s
      BY <1>1, <1>3, <2>1, <3>2 DEF RegistryKnown
    <3>. QED BY <3>1, <3>2
  <2>2. \A e \in Files : registry[e] # 0 => life[registry[e]] = "open" /\ file[registry[e]] = e
    BY <1>1 DEF RegistryKnown
  <2>. QED BY <1>2, <2>1, <2>2 DEF RegistryKnown, Stores
<1>9. DoomedKnown'
  <2>1. refcount'[s] # 0 /\ \A r \in Stores \ {s} : refcount'[r] = refcount[r]
    BY <1>1, <1>2 DEF RegistryTyped
  <2>2. ASSUME NEW r \in Stores, r \in revived' \/ (life[r] = "open" /\ refcount'[r] = 0)
        PROVE  r \in revived \/ (life[r] = "open" /\ refcount[r] = 0)
    BY <1>2, <2>1, <2>2
  <2>. QED BY <1>1, <1>2, <2>2 DEF DoomedKnown, Stores
<1>10. ErasedKnown'
  BY <1>1, <1>2 DEF ErasedKnown, Stores
<1>. QED BY <1>4, <1>5, <1>6, <1>7, <1>8, <1>9, <1>10 DEF StoresKnown

\* It makes a store of the file.
LEMMA OpenNewStores ==
  ASSUME StoresKnown, NEW t \in StoreThreads, NEW f \in Files, Registry!OpenNew(t, f)
  PROVE  StoresKnown'
<1>. DEFINE s == Registry!NewStore
<1>1. RegistryTyped /\ HoldersCounted /\ HeldKnown /\ DyingKnown /\ RegistryKnown /\ DoomedKnown /\ ErasedKnown
  BY DEF StoresKnown
<1>2. /\ s \in Stores /\ life[s] = "none" /\ registry[f] = 0
      /\ file' = [file EXCEPT ![s] = f] /\ life' = [life EXCEPT ![s] = "open"]
      /\ refcount' = [refcount EXCEPT ![s] = 1]
      /\ registry' = [registry EXCEPT ![f] = s] /\ held' = [held EXCEPT ![t][s] = @ + 1]
      /\ UNCHANGED <<dying, revived, erased>>
  BY NewIsNew DEF Registry!OpenNew, Registry!NotOpen, Registry!Hold
<1>. HIDE DEF s
<1>3. \A u \in StoreThreads : held[u][s] = 0
  BY <1>1, <1>2 DEF HeldKnown, RegistryTyped
<1>0. held' = [held EXCEPT ![t][s] = 1]
  <2>1. held[t][s] = 0 /\ 0 + 1 = 1
    BY <1>3
  <2>. QED BY <1>2, <2>1
<1>4. /\ held' \in Held01 /\ held'[t][s] = 1
      /\ \A u \in StoreThreads, r \in Stores : u # t \/ r # s => held'[u][r] = held[u][r]
      /\ Cardinality(Holders(held', s)) = Cardinality(Holders(held, s)) + 1
      /\ \A r \in Stores \ {s} : Holders(held', r) = Holders(held, r)
  <2>1. held \in Held01
    BY <1>1 DEF RegistryTyped, Held01
  <2>2. held' \in Held01 /\ held'[t][s] = 1
        /\ \A u \in StoreThreads, r \in Stores : u # t \/ r # s => held'[u][r] = held[u][r]
    BY <1>0, <1>2, <2>1 DEF Held01
  <2>3. s \in Stores /\ held[t][s] = 0
    BY <1>2, <1>3
  <2>. HIDE DEF Held01
  <2>. QED BY <2>1, <2>2, <2>3, OneHolderMore
<1>5. /\ life'[s] = "open" /\ file'[s] = f /\ refcount'[s] = 1
      /\ \A r \in Stores \ {s} : life'[r] = life[r] /\ file'[r] = file[r] /\ refcount'[r] = refcount[r]
      /\ registry'[f] = s /\ \A e \in Files \ {f} : registry'[e] = registry[e]
  BY <1>1, <1>2 DEF RegistryTyped
<1>6. RegistryTyped'
  <2>1. life' \in [Stores -> Lives] /\ refcount' \in [Stores -> Nat] /\ registry' \in [Files -> Stores \cup {0}]
        /\ DOMAIN file' = Stores
    BY <1>1, <1>2 DEF RegistryTyped, Lives
  <2>. QED BY <1>1, <1>2, <1>4, <1>5, <2>1 DEF RegistryTyped, Held01, Stores, Lives
<1>7. HoldersCounted'
  <2>1. \A r \in Stores : Holders(held, r)' = Holders(held', r)
    BY DEF Holders
  <2>2. Holders(held, s) = {}
    BY <1>3 DEF Holders
  <2>3. Cardinality(Holders(held', s)) = 1
    BY <1>4, <2>2, FS_EmptySet
  <2>. QED BY <1>1, <1>4, <1>5, <2>1, <2>3 DEF HoldersCounted, Stores
<1>8. HeldKnown'
  BY <1>1, <1>2, <1>4, <1>5 DEF HeldKnown, Stores
<1>9. DyingKnown'
  BY <1>1, <1>2, <1>5 DEF DyingKnown, Stores
<1>10. RegistryKnown'
  <2>1. ASSUME NEW e \in Files, registry'[e] # 0 PROVE life'[registry'[e]] = "open" /\ file'[registry'[e]] = e
    <3>1. CASE e = f
      BY <1>5, <3>1
    <3>2. CASE e # f
      <4>1. registry'[e] = registry[e] /\ registry[e] \in Stores /\ life[registry[e]] = "open" /\ file[registry[e]] = e
        BY <1>1, <1>5, <2>1, <3>2 DEF RegistryKnown, RegistryTyped
      <4>. QED BY <1>2, <1>5, <4>1
    <3>. QED BY <3>1, <3>2
  <2>2. ASSUME NEW r \in Stores, life'[r] = "open", NEW u \in StoreThreads, held'[u][r] = 1
        PROVE  registry'[file'[r]] = r \/ r \in erased'
    <3>1. CASE r = s
      BY <1>5, <3>1
    <3>2. CASE r # s
      <4>1. life[r] = "open" /\ held[u][r] = 1 /\ file'[r] = file[r] /\ file[r] \in Files
        BY <1>1, <1>4, <1>5, <2>2, <3>2 DEF RegistryTyped
      <4>2. registry[file[r]] = r \/ r \in erased
        BY <1>1, <4>1 DEF RegistryKnown
      <4>3. 0 # r
        BY StoresNumbered
      <4>. QED BY <1>2, <1>5, <4>1, <4>2, <4>3
    <3>. QED BY <3>1, <3>2
  <2>. QED BY <2>1, <2>2 DEF RegistryKnown, Stores
<1>11. DoomedKnown'
  <2>1. s \notin revived
    BY <1>1, <1>2 DEF DoomedKnown, DyingKnown
  <2>2. ASSUME NEW r \in Stores, r \in revived \/ (life'[r] = "open" /\ refcount'[r] = 0)
        PROVE  r # s /\ (r \in revived \/ (life[r] = "open" /\ refcount[r] = 0))
    BY <1>5, <2>1, <2>2
  <2>. QED BY <1>1, <1>2, <1>5, <2>2 DEF DoomedKnown, Stores
<1>12. ErasedKnown'
  <2>. SUFFICES ASSUME NEW r \in Stores, r \in erased
                PROVE  life'[r] # "none" /\ \A e \in Files : registry'[e] # r
    BY <1>2 DEF ErasedKnown, Stores
  <2>1. life[r] # "none" /\ r # s /\ \A e \in Files : registry[e] # r
    BY <1>1, <1>2 DEF ErasedKnown
  <2>. QED BY <1>5, <2>1
<1>. QED BY <1>6, <1>7, <1>8, <1>9, <1>10, <1>11, <1>12 DEF StoresKnown

\* The file cannot be opened.
LEMMA OpenFailsStores ==
  ASSUME StoresKnown, NEW t \in StoreThreads, NEW f \in Files, Registry!OpenFails(t, f)
  PROVE  StoresKnown'
<1>. DEFINE s == Registry!NewStore
<1>1. RegistryTyped /\ HoldersCounted /\ HeldKnown /\ DyingKnown /\ RegistryKnown /\ DoomedKnown /\ ErasedKnown
  BY DEF StoresKnown
<1>2. /\ s \in Stores /\ life[s] = "none" /\ dying[t] = 0
      /\ file' = [file EXCEPT ![s] = f] /\ life' = [life EXCEPT ![s] = "failed"]
      /\ refcount' = [refcount EXCEPT ![s] = 1] /\ dying' = [dying EXCEPT ![t] = s]
      /\ UNCHANGED <<registry, held, revived, erased>>
  BY NewIsNew DEF Registry!OpenFails, Registry!Free
<1>. HIDE DEF s
<1>3. /\ life'[s] = "failed" /\ file'[s] = f
      /\ \A r \in Stores \ {s} : life'[r] = life[r] /\ file'[r] = file[r] /\ refcount'[r] = refcount[r]
      /\ dying'[t] = s /\ \A u \in StoreThreads \ {t} : dying'[u] = dying[u]
  BY <1>1, <1>2 DEF RegistryTyped
<1>4. RegistryTyped'
  <2>1. life' \in [Stores -> Lives] /\ refcount' \in [Stores -> Nat] /\ dying' \in [StoreThreads -> Stores \cup {0}]
        /\ DOMAIN file' = Stores
    BY <1>1, <1>2 DEF RegistryTyped, Lives
  <2>. QED BY <1>1, <1>2, <1>3, <2>1 DEF RegistryTyped, Stores, Lives
<1>5. HoldersCounted'
  BY <1>1, <1>2, <1>3 DEF HoldersCounted, Holders, Stores
<1>6. HeldKnown'
  BY <1>1, <1>2, <1>3 DEF HeldKnown, Stores
<1>7. DyingKnown'
  BY <1>1, <1>2, <1>3 DEF DyingKnown, Stores
<1>8. RegistryKnown'
  <2>1. ASSUME NEW e \in Files, registry[e] # 0 PROVE life'[registry[e]] = "open" /\ file'[registry[e]] = e
    <3>1. registry[e] \in Stores /\ life[registry[e]] = "open" /\ file[registry[e]] = e
      BY <1>1, <2>1 DEF RegistryKnown, RegistryTyped
    <3>. QED BY <1>2, <1>3, <3>1
  <2>2. ASSUME NEW r \in Stores, life'[r] = "open", NEW u \in StoreThreads, held[u][r] = 1
        PROVE  registry[file'[r]] = r \/ r \in erased
    BY <1>1, <1>3, <2>2 DEF RegistryKnown
  <2>. QED BY <1>2, <2>1, <2>2 DEF RegistryKnown, Stores
<1>9. DoomedKnown'
  <2>. SUFFICES ASSUME NEW r \in Stores, r \in revived \/ (life'[r] = "open" /\ refcount'[r] = 0)
                PROVE  life'[r] = "destroyed" \/ \E u \in StoreThreads : dying'[u] = r
    BY <1>2 DEF DoomedKnown, Stores
  <2>1. CASE r = s
    BY <1>3, <2>1
  <2>2. CASE r # s
    <3>1. life[r] = "destroyed" \/ \E u \in StoreThreads : dying[u] = r
      BY <1>1, <1>3, <2>2 DEF DoomedKnown
    <3>. QED BY <1>2, <1>3, <2>2, <3>1, StoresNumbered
  <2>. QED BY <2>1, <2>2
<1>10. ErasedKnown'
  BY <1>1, <1>2, <1>3 DEF ErasedKnown, Stores
<1>. QED BY <1>4, <1>5, <1>6, <1>7, <1>8, <1>9, <1>10 DEF StoresKnown

\* release() counts down.
LEMMA ReleaseStores ==
  ASSUME StoresKnown, NEW t \in StoreThreads, NEW s \in Stores, Registry!Release(t, s)
  PROVE  StoresKnown'
<1>1. RegistryTyped /\ HoldersCounted /\ HeldKnown /\ DyingKnown /\ RegistryKnown /\ DoomedKnown /\ ErasedKnown
  BY DEF StoresKnown
<1>2. /\ held[t][s] = 1 /\ life[s] = "open" /\ dying[t] = 0
      /\ refcount' = [refcount EXCEPT ![s] = @ - 1] /\ held' = [held EXCEPT ![t][s] = @ - 1]
      /\ dying' = IF refcount[s] = 1 THEN [dying EXCEPT ![t] = s] ELSE dying
      /\ UNCHANGED <<file, life, registry, revived, erased>>
  BY <1>1 DEF Registry!Release, Registry!Free, RegistryTyped
<1>0. held' = [held EXCEPT ![t][s] = 0]
  BY <1>2
<1>3. /\ held' \in Held01 /\ held'[t][s] = 0
      /\ \A u \in StoreThreads, r \in Stores : u # t \/ r # s => held'[u][r] = held[u][r]
      /\ Cardinality(Holders(held', s)) = Cardinality(Holders(held, s)) - 1
      /\ \A r \in Stores \ {s} : Holders(held', r) = Holders(held, r)
  <2>1. held \in Held01
    BY <1>1 DEF RegistryTyped, Held01
  <2>2. held' \in Held01 /\ held'[t][s] = 0
        /\ \A u \in StoreThreads, r \in Stores : u # t \/ r # s => held'[u][r] = held[u][r]
    BY <1>0, <1>2, <2>1 DEF Held01
  <2>3. s \in Stores /\ held[t][s] = 1
    BY <1>2
  <2>. HIDE DEF Held01
  <2>. QED BY <2>1, <2>2, <2>3, OneHolderLess
<1>4. refcount[s] \in Nat \ {0} /\ refcount[s] = Cardinality(Holders(held, s))
  <2>1. t \in Holders(held, s)
    BY <1>2 DEF Holders
  <2>2. Cardinality(Holders(held, s)) # 0
    BY <2>1, HoldersFinite, FS_EmptySet
  <2>. QED BY <1>1, <1>2, <2>2 DEF HoldersCounted, RegistryTyped
<1>5. refcount'[s] = refcount[s] - 1 /\ \A r \in Stores \ {s} : refcount'[r] = refcount[r]
  BY <1>1, <1>2 DEF RegistryTyped
<1>6. RegistryTyped'
  <2>1. refcount[s] - 1 \in Nat
    BY <1>4
  <2>2. refcount' \in [Stores -> Nat]
    BY <1>1, <1>2, <2>1 DEF RegistryTyped
  <2>3. dying' \in [StoreThreads -> Stores \cup {0}]
    BY <1>1, <1>2 DEF RegistryTyped
  <2>. QED BY <1>1, <1>2, <1>3, <2>2, <2>3 DEF RegistryTyped, Held01, Stores, Lives
<1>7. HoldersCounted'
  <2>1. \A r \in Stores : Holders(held, r)' = Holders(held', r)
    BY DEF Holders
  <2>2. ASSUME NEW r \in Stores, life[r] = "open" PROVE refcount'[r] = Cardinality(Holders(held', r))
    <3>1. CASE r = s
      BY <1>3, <1>4, <1>5, <3>1
    <3>2. CASE r # s
      BY <1>1, <1>3, <1>5, <2>2, <3>2 DEF HoldersCounted
    <3>. QED BY <3>1, <3>2
  <2>. QED BY <1>2, <2>1, <2>2 DEF HoldersCounted, Stores
<1>8. HeldKnown'
  BY <1>1, <1>2, <1>3 DEF HeldKnown, Stores
<1>9. DyingKnown'
  <2>1. ASSUME NEW u \in StoreThreads, NEW r \in Stores, dying'[u] = r
        PROVE  life[r] # "none" /\ (life[r] = "open" => refcount'[r] = 0 \/ r \in revived)
    <3>1. CASE dying[u] = r
      <4>1. life[r] # "none" /\ (life[r] = "open" => refcount[r] = 0 \/ r \in revived)
        BY <1>1, <3>1 DEF DyingKnown
      <4>. QED BY <1>4, <1>5, <4>1
    <3>2. CASE dying[u] # r
      <4>1. u = t /\ r = s /\ refcount[s] = 1
        BY <1>1, <1>2, <2>1, <3>2 DEF RegistryTyped
      <4>. QED BY <1>2, <1>5, <4>1
    <3>. QED BY <3>1, <3>2
  <2>. QED BY <1>2, <2>1 DEF DyingKnown, Stores
<1>10. RegistryKnown'
  BY <1>1, <1>2, <1>3 DEF RegistryKnown, Stores
<1>11. DoomedKnown'
  <2>. SUFFICES ASSUME NEW r \in Stores, r \in revived \/ (life[r] = "open" /\ refcount'[r] = 0)
                PROVE  life[r] = "destroyed" \/ \E u \in StoreThreads : dying'[u] = r
    BY <1>2 DEF DoomedKnown, Stores
  <2>1. ASSUME NEW u \in StoreThreads, dying[u] = r PROVE dying'[u] = r
    BY <1>1, <1>2, <2>1, StoresNumbered DEF RegistryTyped
  <2>2. CASE r \in revived \/ (life[r] = "open" /\ refcount[r] = 0)
    BY <1>1, <2>1, <2>2 DEF DoomedKnown
  <2>3. CASE ~(r \in revived \/ (life[r] = "open" /\ refcount[r] = 0))
    <3>1. r = s /\ refcount[s] = 1
      BY <1>4, <1>5, <2>3
    <3>. QED BY <1>1, <1>2, <3>1 DEF RegistryTyped
  <2>. QED BY <2>2, <2>3
<1>12. ErasedKnown'
  BY <1>1, <1>2 DEF ErasedKnown, Stores
<1>. QED BY <1>6, <1>7, <1>8, <1>9, <1>10, <1>11, <1>12 DEF StoresKnown

\* The destructor erases the entry of the file.
LEMMA DestroyStores ==
  ASSUME StoresKnown, NEW t \in StoreThreads, Registry!Destroy(t)
  PROVE  StoresKnown'
<1>. DEFINE s == dying[t]
            f == file[s]
<1>1. RegistryTyped /\ HoldersCounted /\ HeldKnown /\ DyingKnown /\ RegistryKnown /\ DoomedKnown /\ ErasedKnown
  BY DEF StoresKnown
<1>2. /\ s \in Stores /\ life[s] \in {"open", "failed"} /\ f \in Files
      /\ life' = [life EXCEPT ![s] = "destroyed"] /\ registry' = [registry EXCEPT ![f] = 0]
      /\ erased' = IF registry[f] \notin {0, s} THEN erased \union {registry[f]} ELSE erased
      /\ dying' = [dying EXCEPT ![t] = 0]
      /\ UNCHANGED <<file, refcount, held, revived>>
  <2>1. s \in Stores /\ life[s] \in Lives /\ life[s] # "destroyed" /\ life[s] # "none"
    BY <1>1 DEF Registry!Destroy, RegistryTyped, DyingKnown
  <2>2. f \in Files
    BY <1>1, <2>1 DEF RegistryTyped
  <2>. QED BY <2>1, <2>2 DEF Registry!Destroy, Lives
<1>. HIDE DEF s, f
<1>0. f = file[s] /\ dying[t] = s
  BY DEF s, f
<1>3. /\ life'[s] = "destroyed" /\ \A r \in Stores \ {s} : life'[r] = life[r]
      /\ registry'[f] = 0 /\ \A e \in Files \ {f} : registry'[e] = registry[e]
      /\ dying'[t] = 0 /\ \A u \in StoreThreads \ {t} : dying'[u] = dying[u]
  BY <1>1, <1>2 DEF RegistryTyped
<1>4. RegistryTyped'
  <2>1. life' \in [Stores -> Lives] /\ registry' \in [Files -> Stores \cup {0}] /\ dying' \in [StoreThreads -> Stores \cup {0}]
    BY <1>1, <1>2 DEF RegistryTyped, Lives
  <2>2. \A r \in Stores : life'[r] # "none" => file[r] \in Files
    BY <1>0, <1>1, <1>2, <1>3 DEF RegistryTyped
  <2>. QED BY <1>1, <1>2, <2>1, <2>2 DEF RegistryTyped, Stores, Lives
<1>5. HoldersCounted'
  BY <1>1, <1>2, <1>3 DEF HoldersCounted, Holders, Stores
<1>6. HeldKnown'
  <2>1. ASSUME NEW u \in StoreThreads, held[u][s] = 1 PROVE s \in revived
    <3>1. life[s] = "open"
      BY <1>1, <1>2, <2>1 DEF HeldKnown
    <3>2. refcount[s] = 0 \/ s \in revived
      BY <1>0, <1>1, <1>2, <3>1 DEF DyingKnown
    <3>3. u \in Holders(held, s) /\ refcount[s] = Cardinality(Holders(held, s))
      BY <1>1, <1>2, <2>1, <3>1 DEF Holders, HoldersCounted
    <3>4. refcount[s] # 0
      BY <3>3, HoldersFinite, FS_EmptySet
    <3>. QED BY <3>2, <3>4
  <2>. QED BY <1>1, <1>2, <1>3, <2>1 DEF HeldKnown, Stores
<1>7. DyingKnown'
  <2>. SUFFICES ASSUME NEW u \in StoreThreads, NEW r \in Stores, dying'[u] = r
                PROVE  life'[r] # "none" /\ (life'[r] = "open" => refcount[r] = 0 \/ r \in revived)
    BY <1>2 DEF DyingKnown, Stores
  <2>1. u # t
    BY <1>3, StoresNumbered
  <2>2. dying[u] = r
    BY <1>3, <2>1
  <2>. QED BY <1>1, <1>3, <2>2 DEF DyingKnown
<1>8. RegistryKnown'
  <2>1. ASSUME NEW e \in Files, registry'[e] # 0 PROVE life'[registry'[e]] = "open" /\ file[registry'[e]] = e
    <3>1. e # f /\ registry'[e] = registry[e]
      BY <1>3, <2>1
    <3>2. registry[e] \in Stores /\ life[registry[e]] = "open" /\ file[registry[e]] = e
      BY <1>1, <2>1, <3>1 DEF RegistryKnown, RegistryTyped
    <3>. QED BY <1>0, <1>3, <3>1, <3>2
  <2>2. ASSUME NEW r \in Stores, life'[r] = "open", NEW u \in StoreThreads, held[u][r] = 1
        PROVE  registry'[file[r]] = r \/ r \in erased'
    <3>1. r # s /\ life[r] = "open" /\ file[r] \in Files /\ 0 # r
      BY <1>1, <1>3, <2>2, StoresNumbered DEF RegistryTyped
    <3>2. registry[file[r]] = r \/ r \in erased
      BY <1>1, <2>2, <3>1 DEF RegistryKnown
    <3>. QED BY <1>2, <1>3, <3>1, <3>2
  <2>. QED BY <1>2, <2>1, <2>2 DEF RegistryKnown, Stores
<1>9. DoomedKnown'
  <2>. SUFFICES ASSUME NEW r \in Stores, r \in revived \/ (life'[r] = "open" /\ refcount[r] = 0), r # s
                PROVE  life'[r] = "destroyed" \/ \E u \in StoreThreads : dying'[u] = r
    BY <1>2, <1>3 DEF DoomedKnown, Stores
  <2>1. life[r] = "destroyed" \/ \E u \in StoreThreads : dying[u] = r
    BY <1>1, <1>3 DEF DoomedKnown
  <2>. QED BY <1>0, <1>3, <2>1
<1>10. ErasedKnown'
  <2>. SUFFICES ASSUME NEW r \in Stores, r \in erased'
                PROVE  life'[r] # "none" /\ \A e \in Files : registry'[e] # r
    BY <1>2 DEF ErasedKnown, Stores
  <2>1. CASE r \in erased
    BY <1>1, <1>2, <1>3, <2>1, StoresNumbered DEF ErasedKnown
  <2>2. CASE r \notin erased
    <3>1. r = registry[f] /\ r # 0 /\ r # s
      BY <1>2, <2>2
    <3>2. life[r] = "open" /\ file[r] = f
      BY <1>1, <1>2, <3>1 DEF RegistryKnown
    <3>3. \A e \in Files \ {f} : registry[e] # r
      BY <1>1, <3>1, <3>2 DEF RegistryKnown
    <3>. QED BY <1>3, <3>1, <3>2, <3>3
  <2>. QED BY <2>1, <2>2
<1>. QED BY <1>4, <1>5, <1>6, <1>7, <1>8, <1>9, <1>10 DEF StoresKnown

-----------------------------------------------------------------------------
(* The index of a store *)

\* A store's index is looked for: it is there, or has to be made.
LEMMA LookIndexes ==
  ASSUME IndexesKnown, NEW t \in StoreThreads, NEW s \in Stores, Registry!Look(t, s)
  PROVE  IndexesKnown'
<1>1. LookingTyped /\ FillingOnce
  BY DEF IndexesKnown
<1>. DEFINE e == [store |-> s, step |-> IF index[s] = <<>> THEN "lock" ELSE "have", tips |-> {}]
<1>2. looking' = [looking EXCEPT ![t] = e] /\ index' = index
  BY DEF Registry!Look
<1>3. /\ e \in [store : Stores \cup {0}, step : {"idle", "lock", "fill", "have"}, tips : SUBSET Tips]
      /\ e.step # "fill"
  OBVIOUS
<1>. HIDE DEF e
<1>4. looking'[t] = e /\ \A u \in StoreThreads \ {t} : looking'[u] = looking[u]
  BY <1>1, <1>2 DEF LookingTyped
<1>5. LookingTyped'
  BY <1>1, <1>2, <1>3 DEF LookingTyped, Stores
<1>6. FillingOnce'
  BY <1>1, <1>2, <1>3, <1>4 DEF FillingOnce
<1>. QED BY <1>5, <1>6 DEF IndexesKnown

\* initialize() asks again when it has the lock, so that one thread fills the
\* index, and publishes it when it has every tip; no index is replaced.
LEMMA InitializeIndexes ==
  ASSUME IndexesKnown, NEW t \in StoreThreads, Registry!Initialize(t)
  PROVE  IndexesKnown' /\ \A s \in Stores : index[s] # <<>> => index'[s] = index[s]
<1>1. LookingTyped /\ FillingOnce
  BY DEF IndexesKnown
<1>. DEFINE s == looking[t].store
<1>2. s \in Stores /\ looking[t].tips \in SUBSET Tips
  BY <1>1 DEF Registry!Initialize, LookingTyped
<1>3. CASE looking[t].step = "lock" /\ ~Registry!Filling(s) /\ UNCHANGED index
           /\ looking' = [looking EXCEPT ![t].step = Registry!AfterLock(s)]
  <2>1. Registry!AfterLock(s) = IF index[s] = <<>> THEN "fill" ELSE "have"
    BY DEF Registry!AfterLock
  <2>. HIDE DEF s
  <2>2. /\ looking'[t].step = (IF index[s] = <<>> THEN "fill" ELSE "have") /\ looking'[t].store = s
        /\ \A u \in StoreThreads \ {t} : looking'[u] = looking[u]
    BY <1>1, <1>3, <2>1 DEF LookingTyped, s
  <2>3. LookingTyped'
    BY <1>1, <1>3, <2>1 DEF LookingTyped, Stores
  <2>4. \A u \in StoreThreads : ~ (looking[u].step = "fill" /\ looking[u].store = s)
    BY <1>3 DEF Registry!Filling
  <2>5. FillingOnce'
    BY <1>1, <1>2, <1>3, <2>2, <2>4, StoresNumbered DEF FillingOnce
  <2>. QED BY <1>3, <2>3, <2>5 DEF IndexesKnown
<1>4. CASE looking[t].step = "fill" /\ UNCHANGED index
           /\ \E tip \in Tips \ looking[t].tips : looking' = [looking EXCEPT ![t].tips = @ \union {tip}]
  <2>1. PICK tip \in Tips : looking' = [looking EXCEPT ![t].tips = @ \union {tip}]
    BY <1>4
  <2>2. LookingTyped'
    BY <1>1, <1>2, <1>4, <2>1 DEF LookingTyped, Stores
  <2>3. \A u \in StoreThreads : looking'[u].step = looking[u].step /\ looking'[u].store = looking[u].store
    BY <1>1, <2>1 DEF LookingTyped
  <2>4. FillingOnce'
    BY <1>1, <1>4, <2>3 DEF FillingOnce
  <2>. QED BY <1>4, <2>2, <2>4 DEF IndexesKnown
<1>5. CASE looking[t].step = "fill" /\ looking[t].tips = Tips
           /\ index' = [index EXCEPT ![s] = <<t, looking[t].tips>>]
           /\ looking' = [looking EXCEPT ![t].step = "have"]
  <2>1. index[s] = <<>>
    BY <1>1, <1>5 DEF FillingOnce
  <2>2. \A u \in StoreThreads \ {t} : looking[u].step = "fill" => looking[u].store # s
    BY <1>1, <1>5 DEF FillingOnce
  <2>. HIDE DEF s
  <2>3. LookingTyped'
    <3>1. looking' \in [StoreThreads -> [store : Stores \cup {0}, step : {"idle", "lock", "fill", "have"}, tips : SUBSET Tips]]
      BY <1>1, <1>5 DEF LookingTyped
    <3>2. index' \in [Stores -> {<<>>} \cup {<<u, Tips>> : u \in StoreThreads}]
      BY <1>1, <1>2, <1>5 DEF LookingTyped
    <3>. QED BY <3>1, <3>2 DEF LookingTyped, Stores
  <2>4. /\ looking'[t].step = "have" /\ \A u \in StoreThreads \ {t} : looking'[u] = looking[u]
        /\ \A r \in Stores \ {s} : index'[r] = index[r]
    BY <1>1, <1>2, <1>5 DEF LookingTyped
  <2>5. FillingOnce'
    <3>1. ASSUME NEW u \in StoreThreads, looking'[u].step = "fill"
          PROVE  u # t /\ looking[u].step = "fill" /\ looking'[u].store = looking[u].store /\ looking[u].store # s
      BY <2>2, <2>4, <3>1
    <3>2. ASSUME NEW u \in StoreThreads, looking'[u].step = "fill"
          PROVE  looking'[u].store # 0 /\ index'[looking'[u].store] = <<>>
      <4>1. looking[u].store \in Stores /\ looking[u].store # 0 /\ index[looking[u].store] = <<>>
        BY <1>1, <3>1, <3>2 DEF FillingOnce, LookingTyped
      <4>. QED BY <2>4, <3>1, <3>2, <4>1
    <3>. QED BY <1>1, <3>1, <3>2 DEF FillingOnce
  <2>6. \A r \in Stores : index[r] # <<>> => index'[r] = index[r]
    BY <2>1, <2>4
  <2>. QED BY <2>3, <2>5, <2>6 DEF IndexesKnown
<1>. QED BY <1>3, <1>4, <1>5 DEF Registry!Initialize, Registry!Indexed

\* The thread has its index.
LEMMA LookedIndexes ==
  ASSUME IndexesKnown, NEW t \in StoreThreads, Registry!Looked(t)
  PROVE  IndexesKnown'
<1>1. LookingTyped /\ FillingOnce
  BY DEF IndexesKnown
<1>2. looking' = [looking EXCEPT ![t] = Registry!Idle] /\ index' = index
  BY DEF Registry!Looked
<1>3. /\ Registry!Idle \in [store : Stores \cup {0}, step : {"idle", "lock", "fill", "have"}, tips : SUBSET Tips]
      /\ Registry!Idle.step # "fill"
  BY DEF Registry!Idle
<1>4. looking'[t] = Registry!Idle /\ \A u \in StoreThreads \ {t} : looking'[u] = looking[u]
  BY <1>1, <1>2 DEF LookingTyped
<1>5. LookingTyped'
  BY <1>1, <1>2, <1>3 DEF LookingTyped, Stores
<1>6. FillingOnce'
  BY <1>1, <1>2, <1>3, <1>4 DEF FillingOnce
<1>. QED BY <1>5, <1>6 DEF IndexesKnown

\* The destructor deletes the index of its store.
LEMMA DestroyIndexes ==
  ASSUME IndexesKnown, NEW t \in StoreThreads, dying[t] \in Stores \cup {0}, life \in [Stores -> Lives],
         Registry!Destroy(t)
  PROVE  IndexesKnown' /\ \A s \in Stores : index[s] # <<>> => index'[s] = index[s] \/ life'[s] = "destroyed"
<1>1. LookingTyped /\ FillingOnce
  BY DEF IndexesKnown
<1>. DEFINE d == dying[t]
<1>2. /\ d \in Stores /\ index' = [index EXCEPT ![d] = <<>>] /\ looking' = looking
      /\ life' = [life EXCEPT ![d] = "destroyed"]
  BY DEF Registry!Destroy
<1>. HIDE DEF d
<1>3. index'[d] = <<>> /\ \A r \in Stores \ {d} : index'[r] = index[r]
  BY <1>1, <1>2 DEF LookingTyped
<1>4. LookingTyped'
  BY <1>1, <1>2 DEF LookingTyped, Stores
<1>5. FillingOnce'
  BY <1>1, <1>2, <1>3 DEF FillingOnce, LookingTyped
<1>6. life'[d] = "destroyed"
  BY <1>2
<1>. QED BY <1>3, <1>4, <1>5, <1>6 DEF IndexesKnown

-----------------------------------------------------------------------------
(* The registry is always right *)

RegistryInv == StoresKnown /\ IndexesKnown

\* At first no store is made.
LEMMA RegistryStarts ==
  ASSUME Registry!Init
  PROVE  RegistryInv
<1>1. /\ file = [s \in Stores |-> Registry!NoFile] /\ life = [s \in Stores |-> "none"]
      /\ refcount = [s \in Stores |-> 0] /\ registry = [f \in Files |-> 0]
      /\ held = [t \in StoreThreads |-> [s \in Stores |-> 0]] /\ dying = [t \in StoreThreads |-> 0]
      /\ revived = {} /\ erased = {}
      /\ index = [s \in Stores |-> <<>>] /\ looking = [t \in StoreThreads |-> Registry!Idle]
  BY StoresNumbered DEF Registry!Init
<1>2. RegistryTyped
  BY <1>1 DEF RegistryTyped, Lives
<1>3. HoldersCounted /\ HeldKnown /\ RegistryKnown
  BY <1>1 DEF HoldersCounted, HeldKnown, RegistryKnown
<1>6. DoomedKnown /\ ErasedKnown
  BY <1>1 DEF DoomedKnown, ErasedKnown
<1>4. DyingKnown
  BY <1>1, StoresNumbered DEF DyingKnown
<1>5. LookingTyped /\ FillingOnce
  BY <1>1 DEF LookingTyped, FillingOnce, Registry!Idle
<1>. QED BY <1>2, <1>3, <1>4, <1>5, <1>6 DEF RegistryInv, StoresKnown, IndexesKnown

\* Every step of the registry keeps the invariant, and the indexes.
LEMMA RegistrySteps ==
  ASSUME RegistryInv, Registry!Next
  PROVE  RegistryInv' /\ Registry!IndexKept
<1>1. StoresKnown /\ IndexesKnown
  BY DEF RegistryInv
<1>. DEFINE Kept == \A s \in Stores : index[s] # <<>> => index'[s] = index[s] \/ life'[s] = "destroyed"
<1>2. Registry!IndexKept <=> Kept
  BY StoresNumbered DEF Registry!IndexKept
<1>3. PICK t \in StoreThreads :
        \/ \E f \in Files : Registry!OpenFound(t, f) \/ Registry!OpenNew(t, f) \/ Registry!OpenFails(t, f)
        \/ \E s \in Stores : Registry!Release(t, s) \/ Registry!Look(t, s)
        \/ Registry!Destroy(t) \/ Registry!Initialize(t) \/ Registry!Looked(t)
  BY StoresNumbered DEF Registry!Next
<1>4. ASSUME UNCHANGED <<index, looking>> PROVE IndexesKnown' /\ Kept
  BY <1>1, <1>4 DEF IndexesKnown, LookingTyped, FillingOnce, Stores
<1>5. ASSUME UNCHANGED <<file, life, refcount, registry, held, dying, revived, erased>> PROVE StoresKnown'
  BY <1>1, <1>5 DEF StoresKnown, RegistryTyped, HoldersCounted, Holders, HeldKnown, DyingKnown, RegistryKnown,
                     DoomedKnown, ErasedKnown, Stores
<1>6. ASSUME NEW f \in Files, Registry!OpenFound(t, f) \/ Registry!OpenNew(t, f) \/ Registry!OpenFails(t, f)
      PROVE  StoresKnown' /\ IndexesKnown' /\ Kept
  <2>1. UNCHANGED <<index, looking>>
    BY <1>6 DEF Registry!OpenFound, Registry!OpenNew, Registry!OpenFails, Registry!indexes
  <2>2. StoresKnown'
    BY <1>1, <1>6, OpenFoundStores, OpenNewStores, OpenFailsStores
  <2>. QED BY <1>4, <2>1, <2>2
<1>7. ASSUME NEW s \in Stores, Registry!Release(t, s) PROVE StoresKnown' /\ IndexesKnown' /\ Kept
  <2>1. UNCHANGED <<index, looking>>
    BY <1>7 DEF Registry!Release, Registry!indexes
  <2>2. StoresKnown'
    BY <1>1, <1>7, ReleaseStores
  <2>. QED BY <1>4, <2>1, <2>2
<1>8. ASSUME NEW s \in Stores, Registry!Look(t, s) PROVE StoresKnown' /\ IndexesKnown' /\ Kept
  <2>1. UNCHANGED <<file, life, refcount, registry, held, dying, revived, erased>> /\ index' = index
    BY <1>8 DEF Registry!Look
  <2>2. IndexesKnown'
    BY <1>1, <1>8, LookIndexes
  <2>. QED BY <1>5, <2>1, <2>2
<1>9. ASSUME Registry!Destroy(t) PROVE StoresKnown' /\ IndexesKnown' /\ Kept
  <2>1. dying[t] \in Stores \cup {0} /\ life \in [Stores -> Lives]
    BY <1>1 DEF StoresKnown, RegistryTyped
  <2>. QED BY <1>1, <1>9, <2>1, DestroyStores, DestroyIndexes
<1>10. ASSUME Registry!Initialize(t) PROVE StoresKnown' /\ IndexesKnown' /\ Kept
  <2>1. UNCHANGED <<file, life, refcount, registry, held, dying, revived, erased>>
    BY <1>10 DEF Registry!Initialize
  <2>. QED BY <1>1, <1>5, <1>10, <2>1, InitializeIndexes
<1>11. ASSUME Registry!Looked(t) PROVE StoresKnown' /\ IndexesKnown' /\ Kept
  <2>1. UNCHANGED <<file, life, refcount, registry, held, dying, revived, erased>> /\ index' = index
    BY <1>11 DEF Registry!Looked
  <2>2. IndexesKnown'
    BY <1>1, <1>11, LookedIndexes
  <2>. QED BY <1>5, <2>1, <2>2
<1>. HIDE DEF Kept
<1>12. StoresKnown' /\ IndexesKnown' /\ Kept
  BY <1>3, <1>6, <1>7, <1>8, <1>9, <1>10, <1>11
<1>. QED BY <1>2, <1>12 DEF RegistryInv

\* The invariant implies the properties.
LEMMA RegistryImplied ==
  ASSUME RegistryInv
  PROVE  /\ Registry!Counted /\ Registry!HeldIsOpen /\ Registry!OneStore
         /\ Registry!Registered /\ Registry!IndexComplete
<1>1. RegistryTyped /\ HoldersCounted /\ HeldKnown /\ RegistryKnown /\ DoomedKnown /\ ErasedKnown /\ LookingTyped
  BY DEF RegistryInv, StoresKnown, IndexesKnown
<1>2. \A t \in StoreThreads, s \in Stores : held[t][s] > 0 <=> held[t][s] = 1
  BY <1>1 DEF RegistryTyped
<1>3. \A s \in Stores : Registry!References(s) = Holders(held, s)
  BY <1>2 DEF Registry!References, Holders
<1>4. Registry!Counted
  <2>1. ASSUME NEW s \in Stores, life[s] = "open" PROVE refcount[s] = Registry!Cardinality(Registry!References(s))
    <3>1. refcount[s] = Cardinality(Holders(held, s))
      BY <1>1, <2>1 DEF HoldersCounted
    <3>2. Registry!References(s) = Holders(held, s)
      BY <1>3
    <3>. QED BY <3>1, <3>2 DEF Registry!Cardinality, Cardinality
  <2>2. ASSUME NEW s \in Stores, life[s] = "open", refcount[s] = 0 PROVE \E t \in StoreThreads : dying[t] = s
    BY <1>1, <2>2 DEF DoomedKnown
  <2>. QED BY <2>1, <2>2, StoresNumbered DEF Registry!Counted
<1>5. Registry!HeldIsOpen
  BY <1>1, <1>2, StoresNumbered DEF Registry!HeldIsOpen, HeldKnown, DoomedKnown
<1>6. \A s \in Stores : Registry!InUse(s) <=> life[s] = "open" /\ \E t \in StoreThreads : held[t][s] = 1
  BY <1>3 DEF Registry!InUse, Holders
<1>7. Registry!Registered
  <2>1. ASSUME NEW s \in Stores, Registry!InUse(s) PROVE registry[file[s]] = s <=> s \notin erased
    <3>1. registry[file[s]] = s \/ s \in erased
      BY <1>1, <1>6, <2>1 DEF RegistryKnown
    <3>2. file[s] \in Files
      BY <1>1, <1>6, <2>1 DEF RegistryTyped
    <3>3. s \in erased => registry[file[s]] # s
      BY <1>1, <3>2 DEF ErasedKnown
    <3>. QED BY <3>1, <3>3
  <2>. QED BY <2>1, StoresNumbered DEF Registry!Registered
<1>8. Registry!OneStore
  BY <1>7, StoresNumbered DEF Registry!OneStore, Registry!Registered
<1>9. Registry!IndexComplete
  BY <1>1, StoresNumbered DEF Registry!IndexComplete, LookingTyped
<1>. QED BY <1>4, <1>5, <1>7, <1>8, <1>9

\* The invariant stays when nothing of the registry changes.
LEMMA RegistryUnchanged ==
  ASSUME RegistryInv, UNCHANGED <<registryVars, index>>
  PROVE  RegistryInv'
<1>1. UNCHANGED <<file, life, refcount, registry, held, dying, revived, erased, index, looking>>
  BY DEF registryVars
<1>. QED BY <1>1 DEF RegistryInv, StoresKnown, RegistryTyped, HoldersCounted, Holders, HeldKnown, DyingKnown,
                     RegistryKnown, DoomedKnown, ErasedKnown, IndexesKnown, LookingTyped, FillingOnce, Stores

\* References are counted; a store is destroyed while it is held just when
\* openSingle() handed it out after it was counted down to zero, and every such
\* store is; one that is in use is not registered just when the destructor of
\* another erased its entry; and an index that is published is complete
\* (FeatureStore.cpp, ReverseTileIndex.cpp).
THEOREM RegistryAlwaysRight == Spec => []RegistryRight
<1>. DEFINE Inv == subject = "registry" => RegistryInv
<1>1. Init => Inv
  BY RegistryStarts DEF Init
<1>2. Inv /\ [Next]_vars => Inv'
  <2>. SUFFICES ASSUME Inv, [Next]_vars, subject' = "registry" PROVE RegistryInv'
    OBVIOUS
  <2>1. CASE RegistryStep
    BY <2>1, RegistrySteps DEF RegistryStep
  <2>2. CASE UNCHANGED vars
    BY <2>2, RegistryUnchanged DEF vars
  <2>3. CASE HandlesStep \/ ConsoleStep \/ MappedStep \/ PileStep \/ BufferStep \/ MemoryStep \/ CellsStep
    BY <2>3 DEF HandlesStep, ConsoleStep, MappedStep, PileStep, BufferStep, MemoryStep, CellsStep
  <2>. QED BY <2>1, <2>2, <2>3 DEF Next
<1>3. Inv => RegistryRight
  BY RegistryImplied DEF RegistryRight
<1>. QED BY <1>1, <1>2, <1>3, PTL DEF Spec

-----------------------------------------------------------------------------
(* The console: the inductive invariant *)

ConsoleThreads == Workers \cup {Main}
TimerThreads == 1 .. MaxTimers
StatusLines == [pct : Percentages, task : Tasks, time : {TRUE}]

\* Where a call may be.
Drawing == [step : {"draw", "run"}]
Progressing == [step : {"store", "bar"}, pct : Percentages]
Tasking == [step : {"task"}, task : Tasks]
Lining == [step : {"line"}, below : StatusLines \cup {Nothing}, final : BOOLEAN]
Saying == [step : {"say"}, force : BOOLEAN, final : BOOLEAN]
CallSteps == Drawing \cup Progressing \cup Tasking \cup Lining \cup Saying

ConsoleTyped ==
  /\ terminal \in BOOLEAN
  /\ consoleState \in {"off", "normal", "progress"}
  /\ currentPercentage \in Percentages /\ currentTask \in Tasks
  /\ doing \in [ConsoleThreads -> CallSteps \cup {Nothing}]
  /\ timers \in [TimerThreads -> {"new", "check", "print", "sleep", "done"}]
  /\ overlapped \in BOOLEAN
  /\ status \in [pct : Percentages \cup {Nothing}, task : Tasks \cup {Nothing}, time : BOOLEAN]
  /\ late \in [ConsoleThreads \cup TimerThreads -> {0, 1}]

\* Progress is shown on terminals, and its timer thread can be joined.  While it
\* is being started, another timer thread can be made.
ProgressKnown ==
  /\ consoleState = "progress" => terminal /\ thread # 0
  /\ \A t \in ConsoleThreads : doing[t] \in Drawing => t = Main /\ \E i \in TimerThreads : timers[i] = "new"

\* Nobody has printed progress since the display was stopped who still may.
Printing(d) == d.step \in {"store", "bar", "task"} \/ (d.step = "line" /\ d.below # Nothing)
LateKnown ==
  /\ consoleState = "progress" => \A x \in ConsoleThreads \cup TimerThreads : late[x] = 0
  /\ \A t \in ConsoleThreads : doing[t] # Nothing /\ Printing(doing[t]) => late[t] = 0
  /\ \A i \in TimerThreads : timers[i] = "print" => late[i] = 0

\* As long as no calls have overlapped, one thread at a time is in a call, and
\* what is shown is current, but for what that call has changed.
StatusLine(pct, task) == [pct |-> pct, task |-> task, time |-> TRUE]
CallKnown(d, s, state, pct, task) ==
  /\ d.step = "store" => state = "progress" /\ s = StatusLine(pct, task) /\ pct < d.pct
  /\ d.step = "bar"   => state = "progress" /\ d.pct = pct /\ s.task = task /\ s.time = TRUE
  /\ d.step = "task"  => state = "progress" /\ d.task = task /\ s.pct = pct /\ s.time = TRUE
  /\ d.step = "line"  /\ state = "progress" => d.below = StatusLine(pct, task)
  /\ d.step = "say"   => state # "progress"
  /\ d.step = "draw"  => state # "progress" /\ pct = 0
  /\ d.step = "run"   => state # "progress" /\ pct = 0 /\ (Console!ShowProgress => s = StatusLine(pct, task))
OneCall == \A t, u \in ConsoleThreads : doing[t] # Nothing /\ doing[u] # Nothing => t = u
CurrentKnown ==
  ~overlapped =>
    /\ OneCall
    /\ (\A t \in ConsoleThreads : doing[t] = Nothing) /\ consoleState = "progress" =>
         status = StatusLine(currentPercentage, currentTask)
    /\ \A t \in ConsoleThreads :
         doing[t] # Nothing => CallKnown(doing[t], status, consoleState, currentPercentage, currentTask)

ConsoleInv == ConsoleTyped /\ ProgressKnown /\ LateKnown /\ CurrentKnown

-----------------------------------------------------------------------------
(* What the steps have in common *)

\* The console's sets, and what no call step and no status line is.
LEMMA ConsoleSets ==
  /\ Console!Threads = ConsoleThreads /\ Console!TimerThreads = TimerThreads
  /\ Main \in ConsoleThreads /\ Main \notin Workers /\ ConsoleThreads \cap TimerThreads = {}
  /\ MaxTimers \in Nat /\ TimerThreads \subseteq Nat /\ 0 \notin TimerThreads
  /\ Percentages \subseteq Nat /\ 0 \in Percentages
  /\ Nothing \notin CallSteps /\ Nothing \notin StatusLines
<1>1. Console!ConsoleAssumption
  BY ServicesAssumption
<1>2. /\ Console!Threads = ConsoleThreads /\ Console!TimerThreads = TimerThreads /\ Main \in ConsoleThreads
  BY DEF Console!Threads, Console!TimerThreads, ConsoleThreads, TimerThreads
<1>3. /\ Main \notin Workers /\ ConsoleThreads \cap TimerThreads = {}
      /\ MaxTimers \in Nat /\ Percentages \subseteq Nat /\ 0 \in Percentages
  BY <1>1, <1>2 DEF Console!ConsoleAssumption
<1>4. TimerThreads \subseteq Nat /\ 0 \notin TimerThreads
  BY <1>3 DEF TimerThreads
<1>5. Nothing \notin CallSteps /\ Nothing \notin StatusLines
  <2>1. Console!StatusLines = StatusLines
    BY DEF Console!StatusLines, StatusLines
  <2>2. Console!Steps = CallSteps
    BY <2>1 DEF Console!Steps, CallSteps, Drawing, Progressing, Tasking, Lining, Saying
  <2>. QED BY <1>1, <2>1, <2>2 DEF Console!ConsoleAssumption
<1>. QED BY <1>2, <1>3, <1>4, <1>5

\* What there is to a call at each step.
LEMMA CallStepsAre ==
  ASSUME NEW d \in CallSteps
  PROVE  /\ d.step \in {"draw", "run", "store", "bar", "task", "line", "say"}
         /\ d.step \in {"draw", "run"} => d \in Drawing /\ d = [step |-> d.step]
         /\ d.step \in {"store", "bar"} => d \in Progressing /\ d.pct \in Percentages
         /\ d.step = "task" => d \in Tasking /\ d.task \in Tasks
         /\ d.step = "line" => d \in Lining /\ d.below \in StatusLines \cup {Nothing} /\ d.final \in BOOLEAN
         /\ d.step = "say" => d \in Saying /\ d.force \in BOOLEAN /\ d.final \in BOOLEAN
         /\ d \in Drawing => d.step \in {"draw", "run"}
  BY DEF CallSteps, Drawing, Progressing, Tasking, Lining, Saying

\* The call of t goes on to d, or ends, while the other threads stay where they are.
Goes(t, d) == doing' = [doing EXCEPT ![t] = d]
LEMMA CallGoesOn ==
  ASSUME ConsoleTyped, NEW t \in ConsoleThreads, NEW d \in CallSteps \cup {Nothing}, Goes(t, d)
  PROVE  /\ doing' \in [ConsoleThreads -> CallSteps \cup {Nothing}]
         /\ doing'[t] = d /\ \A u \in ConsoleThreads \ {t} : doing'[u] = doing[u]
  BY DEF ConsoleTyped, Goes

\* What is known of the calls holds after a step when it holds of the thread that
\* took it, and the other threads are in no call unless calls have overlapped.
LEMMA CurrentAfter ==
  ASSUME ConsoleTyped, NEW t \in ConsoleThreads, NEW d \in CallSteps \cup {Nothing}, Goes(t, d),
         ~overlapped' => \A u \in ConsoleThreads \ {t} : doing[u] = Nothing,
         ~overlapped' /\ d = Nothing /\ consoleState' = "progress" => status' = StatusLine(currentPercentage', currentTask'),
         ~overlapped' /\ d # Nothing => CallKnown(d, status, consoleState, currentPercentage, currentTask)',
         UNCHANGED <<terminal, verbosity>>
  PROVE  CurrentKnown'
<1>1. doing'[t] = d /\ \A u \in ConsoleThreads \ {t} : doing'[u] = doing[u]
  BY CallGoesOn
<1>. SUFFICES ASSUME ~overlapped' PROVE CurrentKnown'
  BY DEF CurrentKnown
<1>2. \A u \in ConsoleThreads \ {t} : doing'[u] = Nothing
  BY <1>1
<1>3. OneCall'
  BY <1>2 DEF OneCall, ConsoleThreads
<1>. QED BY <1>1, <1>2, <1>3 DEF CurrentKnown, ConsoleThreads

\* What is known of late prints holds after a step of t that prints or not.
LEMMA LateAfter ==
  ASSUME ConsoleTyped, LateKnown, NEW t \in ConsoleThreads, NEW d \in CallSteps \cup {Nothing}, Goes(t, d),
         d # Nothing /\ Printing(d) => late[t] = 0,
         consoleState' = "progress" => consoleState = "progress",
         UNCHANGED <<late, timers>>
  PROVE  LateKnown'
<1>1. doing'[t] = d /\ \A u \in ConsoleThreads \ {t} : doing'[u] = doing[u]
  BY CallGoesOn
<1>2. \A u \in ConsoleThreads : doing'[u] # Nothing /\ Printing(doing'[u]) => late[u] = 0
  BY <1>1 DEF LateKnown
<1>3. \A u \in ConsoleThreads : Printing(doing[u])' <=> Printing(doing'[u])
  BY DEF Printing
<1>. QED BY <1>2, <1>3 DEF LateKnown, ConsoleThreads, TimerThreads

\* The same when t prints progress: then it has nothing more to print.
LEMMA LatePrinted ==
  ASSUME ConsoleTyped, LateKnown, NEW t \in ConsoleThreads, Goes(t, Nothing),
         NEW progress \in BOOLEAN, progress => doing[t] # Nothing /\ Printing(doing[t]),
         Console!Late(t, progress), UNCHANGED <<consoleState, timers>>
  PROVE  LateKnown' /\ late' \in [ConsoleThreads \cup TimerThreads -> {0, 1}]
<1>1. doing'[t] = Nothing /\ \A u \in ConsoleThreads \ {t} : doing'[u] = doing[u]
  BY CallGoesOn
<1>2. \A u \in ConsoleThreads : Printing(doing[u])' <=> Printing(doing'[u])
  BY DEF Printing
<1>3. CASE ~progress \/ consoleState = "progress"
  <2>1. late' = late
    BY <1>3 DEF Console!Late, Console!Stopped
  <2>2. \A u \in ConsoleThreads : doing'[u] # Nothing /\ Printing(doing'[u]) => late[u] = 0
    BY <1>1 DEF LateKnown
  <2>. QED BY <1>2, <2>1, <2>2 DEF LateKnown, ConsoleThreads, TimerThreads, ConsoleTyped
<1>4. CASE progress /\ consoleState # "progress"
  <2>1. late' = [late EXCEPT ![t] = @ + 1] /\ late[t] = 0
    BY <1>4 DEF Console!Late, Console!Stopped, LateKnown
  <2>2. 0 + 1 = 1 /\ late' = [late EXCEPT ![t] = 1]
    BY <2>1
  <2>3. late' \in [ConsoleThreads \cup TimerThreads -> {0, 1}]
        /\ \A x \in (ConsoleThreads \cup TimerThreads) \ {t} : late'[x] = late[x]
    BY <2>2 DEF ConsoleTyped
  <2>4. \A i \in TimerThreads : i # t
    BY ConsoleSets
  <2>5. \A u \in ConsoleThreads : doing'[u] # Nothing /\ Printing(doing'[u]) => late'[u] = 0
    BY <1>1, <2>3 DEF LateKnown
  <2>6. \A i \in TimerThreads : timers[i] = "print" => late'[i] = 0
    BY <2>3, <2>4 DEF LateKnown
  <2>. QED BY <1>2, <1>4, <2>3, <2>5, <2>6 DEF LateKnown, ConsoleThreads, TimerThreads
<1>. QED BY <1>3, <1>4

\* A call that is entered; and one that goes on.
LEMMA Entered ==
  ASSUME ConsoleTyped, NEW t \in ConsoleThreads, NEW d \in CallSteps, Console!Enter(t, d)
  PROVE  /\ Goes(t, d) /\ doing[t] = Nothing /\ overlapped' \in BOOLEAN
         /\ ~overlapped' => ~overlapped /\ \A u \in ConsoleThreads : doing[u] = Nothing
<1>1. overlapped' = (overlapped \/ (d # Nothing /\ \E u \in ConsoleThreads \ {t} : doing[u] # Nothing))
  BY ConsoleSets DEF Console!Enter
<1>2. doing[t] = Nothing /\ Goes(t, d)
  BY DEF Console!Enter, Console!Idle, Goes
<1>. QED BY <1>1, <1>2, ConsoleSets DEF ConsoleTyped

LEMMA WentOn ==
  ASSUME ConsoleTyped, CurrentKnown, NEW t \in ConsoleThreads, doing[t] # Nothing, NEW d, Console!Step(t, d)
  PROVE  /\ Goes(t, d) /\ overlapped' = overlapped
         /\ ~overlapped' => ~overlapped /\ \A u \in ConsoleThreads \ {t} : doing[u] = Nothing
  BY DEF Console!Step, Goes, CurrentKnown, OneCall

-----------------------------------------------------------------------------
(* The calls *)

\* setProgress() is entered.
LEMMA SetProgressKept ==
  ASSUME ConsoleInv, NEW t \in ConsoleThreads, NEW n \in Percentages, Console!SetProgress(t, n)
  PROVE  ConsoleInv'
<1>. DEFINE d == [step |-> "store", pct |-> n]
<1>1. ConsoleTyped /\ ProgressKnown /\ LateKnown /\ CurrentKnown
  BY DEF ConsoleInv
<1>2. /\ consoleState = "progress" /\ currentPercentage < n /\ Console!Enter(t, d)
      /\ UNCHANGED <<terminal, verbosity, currentPercentage, currentTask, consoleState, thread, timers, status, late>>
  BY ConsoleSets DEF Console!SetProgress, Console!Displayed, Console!Rises, Console!settings, Console!current, Console!shown,
                     ConsoleTyped
<1>3. d \in CallSteps /\ d.step = "store" /\ d.pct = n /\ d \notin Drawing
  BY DEF CallSteps, Progressing, Drawing
<1>. HIDE DEF d
<1>4. Goes(t, d) /\ overlapped' \in BOOLEAN /\ (~overlapped' => ~overlapped /\ \A u \in ConsoleThreads : doing[u] = Nothing)
  BY <1>1, <1>2, <1>3, Entered
<1>5. doing' \in [ConsoleThreads -> CallSteps \cup {Nothing}] /\ doing'[t] = d
      /\ \A u \in ConsoleThreads \ {t} : doing'[u] = doing[u]
  BY <1>1, <1>3, <1>4, CallGoesOn
<1>6. ConsoleTyped'
  BY <1>1, <1>2, <1>4, <1>5 DEF ConsoleTyped, ConsoleThreads, TimerThreads, CallSteps, Drawing, Progressing, Tasking, Lining, Saying, StatusLines
<1>7. ProgressKnown'
  BY <1>1, <1>2, <1>3, <1>5 DEF ProgressKnown, ConsoleThreads, TimerThreads, Drawing
<1>8. LateKnown'
  <2>1. late[t] = 0
    BY <1>1, <1>2 DEF LateKnown
  <2>. QED BY <1>1, <1>2, <1>3, <1>4, <2>1, LateAfter
<1>9. CurrentKnown'
  <2>1. ~overlapped' => status = StatusLine(currentPercentage, currentTask)
    BY <1>1, <1>2, <1>4 DEF CurrentKnown
  <2>2. ~overlapped' => CallKnown(d, status, consoleState, currentPercentage, currentTask)'
    BY <1>2, <1>3, <2>1 DEF CallKnown
  <2>3. d # Nothing
    BY <1>3, ConsoleSets
  <2>. QED BY <1>1, <1>2, <1>3, <1>4, <2>2, <2>3, CurrentAfter
<1>. QED BY <1>6, <1>7, <1>8, <1>9 DEF ConsoleInv

\* setTask() is entered, and changes the task.
LEMMA SetTaskKept ==
  ASSUME ConsoleInv, NEW t \in ConsoleThreads, NEW task \in Tasks, Console!SetTask(t, task)
  PROVE  ConsoleInv'
<1>. DEFINE d == [step |-> "task", task |-> task]
<1>1. ConsoleTyped /\ ProgressKnown /\ LateKnown /\ CurrentKnown
  BY DEF ConsoleInv
<1>2. /\ consoleState = "progress" /\ Console!Enter(t, d) /\ currentTask' = task
      /\ UNCHANGED <<terminal, verbosity, currentPercentage, consoleState, thread, timers, status, late>>
  BY DEF Console!SetTask, Console!Displayed, Console!settings, Console!shown
<1>3. d \in CallSteps /\ d.step = "task" /\ d.task = task /\ d \notin Drawing
  BY DEF CallSteps, Tasking, Drawing
<1>. HIDE DEF d
<1>4. Goes(t, d) /\ overlapped' \in BOOLEAN /\ (~overlapped' => ~overlapped /\ \A u \in ConsoleThreads : doing[u] = Nothing)
  BY <1>1, <1>2, <1>3, Entered
<1>5. doing' \in [ConsoleThreads -> CallSteps \cup {Nothing}] /\ doing'[t] = d
      /\ \A u \in ConsoleThreads \ {t} : doing'[u] = doing[u]
  BY <1>1, <1>3, <1>4, CallGoesOn
<1>6. ConsoleTyped'
  BY <1>1, <1>2, <1>4, <1>5 DEF ConsoleTyped, ConsoleThreads, TimerThreads, CallSteps, Drawing, Progressing, Tasking, Lining, Saying, StatusLines
<1>7. ProgressKnown'
  BY <1>1, <1>2, <1>3, <1>5 DEF ProgressKnown, ConsoleThreads, TimerThreads, Drawing
<1>8. LateKnown'
  <2>1. late[t] = 0
    BY <1>1, <1>2 DEF LateKnown
  <2>. QED BY <1>1, <1>2, <1>3, <1>4, <2>1, LateAfter
<1>9. CurrentKnown'
  <2>1. ~overlapped' => status = StatusLine(currentPercentage, currentTask)
    BY <1>1, <1>2, <1>4 DEF CurrentKnown
  <2>2. ~overlapped' => status.pct = currentPercentage /\ status.time = TRUE
    BY <2>1 DEF StatusLine
  <2>3. ~overlapped' => CallKnown(d, status, consoleState, currentPercentage, currentTask)'
    BY <1>2, <1>3, <2>2 DEF CallKnown
  <2>4. d # Nothing
    BY <1>3, ConsoleSets
  <2>. QED BY <1>1, <1>2, <1>3, <1>4, <2>3, <2>4, CurrentAfter
<1>. QED BY <1>6, <1>7, <1>8, <1>9 DEF ConsoleInv

\* setProgress() stores the percentage.
LEMMA StoreProgressKept ==
  ASSUME ConsoleInv, NEW t \in ConsoleThreads, Console!StoreProgress(t)
  PROVE  ConsoleInv' /\ (~overlapped => currentPercentage < currentPercentage')
<1>1. ConsoleTyped /\ ProgressKnown /\ LateKnown /\ CurrentKnown
  BY DEF ConsoleInv
<1>2. /\ doing[t] # Nothing /\ doing[t].step = "store" /\ currentPercentage' = doing[t].pct
      /\ Console!Step(t, [step |-> "bar", pct |-> doing[t].pct])
      /\ UNCHANGED <<terminal, verbosity, currentTask, consoleState, thread, timers, status, late>>
  BY DEF Console!StoreProgress, Console!settings, Console!shown
<1>3. doing[t] \in CallSteps /\ doing[t].pct \in Percentages
  BY <1>1, <1>2, CallStepsAre DEF ConsoleTyped
<1>. PICK p : p = doing[t].pct
  OBVIOUS
<1>. DEFINE d == [step |-> "bar", pct |-> p]
<1>4. d \in CallSteps /\ d.step = "bar" /\ d.pct = doing[t].pct /\ d \notin Drawing
  BY <1>3 DEF CallSteps, Progressing, Drawing
<1>. HIDE DEF d
<1>5. Goes(t, d) /\ overlapped' = overlapped /\ (~overlapped' => ~overlapped /\ \A u \in ConsoleThreads \ {t} : doing[u] = Nothing)
  BY <1>1, <1>2, WentOn DEF d
<1>6. doing' \in [ConsoleThreads -> CallSteps \cup {Nothing}] /\ doing'[t] = d
      /\ \A u \in ConsoleThreads \ {t} : doing'[u] = doing[u]
  BY <1>1, <1>4, <1>5, CallGoesOn
<1>7. ConsoleTyped'
  BY <1>1, <1>2, <1>3, <1>5, <1>6 DEF ConsoleTyped, ConsoleThreads, TimerThreads, CallSteps, Drawing, Progressing, Tasking, Lining, Saying, StatusLines
<1>8. ProgressKnown'
  BY <1>1, <1>2, <1>4, <1>6 DEF ProgressKnown, ConsoleThreads, TimerThreads, Drawing
<1>9. LateKnown'
  <2>1. late[t] = 0
    BY <1>1, <1>2 DEF LateKnown, Printing
  <2>. QED BY <1>1, <1>2, <1>4, <1>5, <2>1, LateAfter
<1>10. ~overlapped => consoleState = "progress" /\ status = StatusLine(currentPercentage, currentTask) /\ currentPercentage < doing[t].pct
  BY <1>1, <1>2 DEF CurrentKnown, CallKnown
<1>11. CurrentKnown'
  <2>1. ~overlapped => status.task = currentTask /\ status.time = TRUE
    BY <1>10 DEF StatusLine
  <2>2. ~overlapped' => CallKnown(d, status, consoleState, currentPercentage, currentTask)'
    BY <1>2, <1>4, <1>5, <1>10, <2>1 DEF CallKnown
  <2>3. d # Nothing
    BY <1>4, ConsoleSets
  <2>. QED BY <1>1, <1>2, <1>4, <1>5, <2>2, <2>3, CurrentAfter
<1>. QED BY <1>2, <1>7, <1>8, <1>9, <1>10, <1>11 DEF ConsoleInv

\* It draws the percentage.
LEMMA PrintProgressKept ==
  ASSUME ConsoleInv, NEW t \in ConsoleThreads, Console!PrintProgress(t)
  PROVE  ConsoleInv'
<1>1. ConsoleTyped /\ ProgressKnown /\ LateKnown /\ CurrentKnown
  BY DEF ConsoleInv
<1>2. /\ doing[t] # Nothing /\ doing[t].step = "bar" /\ Console!Step(t, Nothing) /\ Console!Late(t, TRUE)
      /\ status' = [status EXCEPT !.pct = doing[t].pct]
      /\ UNCHANGED <<terminal, verbosity, currentPercentage, currentTask, consoleState, thread, timers>>
  BY DEF Console!PrintProgress, Console!settings, Console!current
<1>3. doing[t].pct \in Percentages
  BY <1>1, <1>2, CallStepsAre DEF ConsoleTyped
<1>4. Goes(t, Nothing) /\ overlapped' = overlapped /\ (~overlapped' => ~overlapped /\ \A u \in ConsoleThreads \ {t} : doing[u] = Nothing)
  BY <1>1, <1>2, WentOn
<1>5. doing' \in [ConsoleThreads -> CallSteps \cup {Nothing}] /\ doing'[t] = Nothing
      /\ \A u \in ConsoleThreads \ {t} : doing'[u] = doing[u]
  BY <1>1, <1>4, CallGoesOn
<1>6. LateKnown' /\ late' \in [ConsoleThreads \cup TimerThreads -> {0, 1}]
  <2>1. Printing(doing[t])
    BY <1>2 DEF Printing
  <2>. QED BY <1>1, <1>2, <1>4, <2>1, LatePrinted
<1>7. ConsoleTyped'
  <2>1. status' \in [pct : Percentages \cup {Nothing}, task : Tasks \cup {Nothing}, time : BOOLEAN]
    BY <1>1, <1>2, <1>3 DEF ConsoleTyped
  <2>. QED BY <1>1, <1>2, <1>4, <1>5, <1>6, <2>1 DEF ConsoleTyped, ConsoleThreads, TimerThreads, CallSteps, Drawing, Progressing, Tasking, Lining, Saying, StatusLines
<1>8. ProgressKnown'
  BY <1>1, <1>2, <1>5, ConsoleSets DEF ProgressKnown, ConsoleThreads, TimerThreads, Drawing, CallSteps
<1>9. CurrentKnown'
  <2>1. ~overlapped => CallKnown(doing[t], status, consoleState, currentPercentage, currentTask)
    BY <1>1, <1>2 DEF CurrentKnown
  <2>2. ~overlapped => status' = StatusLine(currentPercentage, currentTask)
    BY <1>1, <1>2, <2>1 DEF CallKnown, StatusLine, ConsoleTyped
  <2>. QED BY <1>1, <1>2, <1>4, <2>2, CurrentAfter
<1>. QED BY <1>6, <1>7, <1>8, <1>9 DEF ConsoleInv

\* setTask() draws the task.
LEMMA PrintTaskKept ==
  ASSUME ConsoleInv, NEW t \in ConsoleThreads, Console!PrintTask(t)
  PROVE  ConsoleInv'
<1>1. ConsoleTyped /\ ProgressKnown /\ LateKnown /\ CurrentKnown
  BY DEF ConsoleInv
<1>2. /\ doing[t] # Nothing /\ doing[t].step = "task" /\ Console!Step(t, Nothing) /\ Console!Late(t, TRUE)
      /\ status' = [status EXCEPT !.task = doing[t].task]
      /\ UNCHANGED <<terminal, verbosity, currentPercentage, currentTask, consoleState, thread, timers>>
  BY DEF Console!PrintTask, Console!settings, Console!current
<1>3. doing[t].task \in Tasks
  BY <1>1, <1>2, CallStepsAre DEF ConsoleTyped
<1>4. Goes(t, Nothing) /\ overlapped' = overlapped /\ (~overlapped' => ~overlapped /\ \A u \in ConsoleThreads \ {t} : doing[u] = Nothing)
  BY <1>1, <1>2, WentOn
<1>5. doing' \in [ConsoleThreads -> CallSteps \cup {Nothing}] /\ doing'[t] = Nothing
      /\ \A u \in ConsoleThreads \ {t} : doing'[u] = doing[u]
  BY <1>1, <1>4, CallGoesOn
<1>6. LateKnown' /\ late' \in [ConsoleThreads \cup TimerThreads -> {0, 1}]
  <2>1. Printing(doing[t])
    BY <1>2 DEF Printing
  <2>. QED BY <1>1, <1>2, <1>4, <2>1, LatePrinted
<1>7. ConsoleTyped'
  <2>1. status' \in [pct : Percentages \cup {Nothing}, task : Tasks \cup {Nothing}, time : BOOLEAN]
    BY <1>1, <1>2, <1>3 DEF ConsoleTyped
  <2>. QED BY <1>1, <1>2, <1>4, <1>5, <1>6, <2>1 DEF ConsoleTyped, ConsoleThreads, TimerThreads, CallSteps, Drawing, Progressing, Tasking, Lining, Saying, StatusLines
<1>8. ProgressKnown'
  BY <1>1, <1>2, <1>5, ConsoleSets DEF ProgressKnown, ConsoleThreads, TimerThreads, Drawing, CallSteps
<1>9. CurrentKnown'
  <2>1. ~overlapped => CallKnown(doing[t], status, consoleState, currentPercentage, currentTask)
    BY <1>1, <1>2 DEF CurrentKnown
  <2>2. ~overlapped => status' = StatusLine(currentPercentage, currentTask)
    BY <1>1, <1>2, <2>1 DEF CallKnown, StatusLine, ConsoleTyped
  <2>. QED BY <1>1, <1>2, <1>4, <2>2, CurrentAfter
<1>. QED BY <1>6, <1>7, <1>8, <1>9 DEF ConsoleInv

\* A timer thread asks whether to go on, draws the time and sleeps.
LEMMA TimerKept ==
  ASSUME ConsoleInv, NEW i \in TimerThreads, Console!Timer(i)
  PROVE  ConsoleInv'
<1>1. ConsoleTyped /\ ProgressKnown /\ LateKnown /\ CurrentKnown
  BY DEF ConsoleInv
<1>2. UNCHANGED <<terminal, verbosity, currentPercentage, currentTask, consoleState, thread, doing, overlapped>>
  BY DEF Console!Timer, Console!settings, Console!current
<1>3. /\ timers[i] \in {"check", "print", "sleep"} /\ timers' \in [TimerThreads -> {"new", "check", "print", "sleep", "done"}]
      /\ timers'[i] # "new" /\ \A j \in TimerThreads \ {i} : timers'[j] = timers[j]
      /\ timers'[i] = "print" => timers[i] = "check" /\ consoleState = "progress"
  BY <1>1 DEF Console!Timer, Console!Stopped, ConsoleTyped
<1>4. ProgressKnown'
  BY <1>1, <1>2, <1>3 DEF ProgressKnown, ConsoleThreads, TimerThreads, Drawing
<1>5. CASE timers[i] # "print"
  <2>1. UNCHANGED <<status, late>>
    BY <1>5 DEF Console!Timer
  <2>2. ConsoleTyped'
    BY <1>1, <1>2, <1>3, <2>1 DEF ConsoleTyped, ConsoleThreads, TimerThreads, CallSteps, Drawing, Progressing, Tasking, Lining, Saying, StatusLines
  <2>3. LateKnown'
    BY <1>1, <1>2, <1>3, <2>1 DEF LateKnown, Printing, ConsoleThreads, TimerThreads
  <2>4. CurrentKnown'
    BY <1>1, <1>2, <2>1 DEF CurrentKnown, OneCall, CallKnown, ConsoleThreads, Console!ShowProgress, StatusLine
  <2>. QED BY <1>4, <2>2, <2>3, <2>4 DEF ConsoleInv
<1>6. CASE timers[i] = "print"
  <2>1. status' = [status EXCEPT !.time = TRUE] /\ Console!Late(i, TRUE) /\ timers'[i] = "sleep"
    BY <1>1, <1>6 DEF Console!Timer, ConsoleTyped
  <2>2. \A t \in ConsoleThreads : t # i
    BY ConsoleSets
  <2>3. /\ late' \in [ConsoleThreads \cup TimerThreads -> {0, 1}]
        /\ \A x \in (ConsoleThreads \cup TimerThreads) \ {i} : late'[x] = late[x]
        /\ consoleState = "progress" => late' = late
    <3>1. CASE consoleState = "progress"
      BY <1>1, <2>1, <3>1 DEF Console!Late, Console!Stopped, ConsoleTyped
    <3>2. CASE consoleState # "progress"
      <4>1. late' = [late EXCEPT ![i] = @ + 1] /\ late[i] = 0
        BY <1>1, <1>6, <2>1, <3>2 DEF Console!Late, Console!Stopped, LateKnown
      <4>2. 0 + 1 = 1 /\ late' = [late EXCEPT ![i] = 1]
        BY <4>1
      <4>. QED BY <1>1, <3>2, <4>2 DEF ConsoleTyped
    <3>. QED BY <3>1, <3>2
  <2>4. /\ status' \in [pct : Percentages \cup {Nothing}, task : Tasks \cup {Nothing}, time : BOOLEAN]
        /\ status'.pct = status.pct /\ status'.task = status.task /\ status'.time = TRUE
    BY <1>1, <2>1 DEF ConsoleTyped
  <2>5. ConsoleTyped'
    BY <1>1, <1>2, <1>3, <2>3, <2>4 DEF ConsoleTyped, ConsoleThreads, TimerThreads, CallSteps, Drawing, Progressing, Tasking, Lining, Saying, StatusLines
  <2>6. LateKnown'
    BY <1>1, <1>2, <1>3, <2>1, <2>2, <2>3 DEF LateKnown, Printing, ConsoleThreads, TimerThreads
  <2>7. \A pct, task : status = StatusLine(pct, task) => status' = StatusLine(pct, task)
    <3>1. status' = [pct |-> status.pct, task |-> status.task, time |-> TRUE]
      BY <1>1, <2>1 DEF ConsoleTyped
    <3>. QED BY <3>1 DEF StatusLine
  <2>8. CurrentKnown'
    BY <1>1, <1>2, <2>4, <2>7 DEF CurrentKnown, OneCall, CallKnown, ConsoleThreads, Console!ShowProgress
  <2>. QED BY <1>4, <2>5, <2>6, <2>8 DEF ConsoleInv
<1>. QED BY <1>5, <1>6

\* What is written below a line, and the call that will print it.
LEMMA LineIs ==
  ASSUME ConsoleTyped, NEW force \in BOOLEAN, NEW final \in BOOLEAN
  PROVE  \E d \in CallSteps \cup {Nothing} :
           /\ d = Console!Line(force, final)
           /\ d # Nothing => /\ d.step = "line" /\ d \notin Drawing
                             /\ d.below # Nothing => consoleState = "progress"
                             /\ terminal /\ consoleState = "progress" => d.below = StatusLine(currentPercentage, currentTask)
<1>. DEFINE line == [step |-> "line", below |-> Console!StatusBelow, final |-> final]
<1>1. /\ Console!StatusBelow \in StatusLines \cup {Nothing}
      /\ Console!StatusBelow # Nothing => consoleState = "progress"
      /\ terminal /\ consoleState = "progress" => Console!StatusBelow = StatusLine(currentPercentage, currentTask)
  BY DEF Console!StatusBelow, StatusLines, StatusLine, ConsoleTyped
<1>2. line \in CallSteps /\ line \notin Drawing /\ line.step = "line" /\ line.below = Console!StatusBelow
  BY <1>1 DEF CallSteps, Lining, Drawing
<1>3. Console!Line(force, final) \in {Nothing, line}
  BY DEF Console!Line
<1>. HIDE DEF line
<1>. QED BY <1>1, <1>2, <1>3

\* A line is written.
LEMMA LogKept ==
  ASSUME ConsoleInv, NEW t \in ConsoleThreads, Console!Log(t)
  PROVE  ConsoleInv'
<1>1. ConsoleTyped /\ ProgressKnown /\ LateKnown /\ CurrentKnown
  BY DEF ConsoleInv
<1>2. PICK d \in CallSteps \cup {Nothing} :
        /\ d = Console!Line(FALSE, FALSE)
        /\ d # Nothing => /\ d.step = "line" /\ d \notin Drawing
                          /\ d.below # Nothing => consoleState = "progress"
                          /\ terminal /\ consoleState = "progress" => d.below = StatusLine(currentPercentage, currentTask)
  BY <1>1, LineIs
<1>3. /\ Console!Enter(t, d)
      /\ UNCHANGED <<terminal, verbosity, currentPercentage, currentTask, consoleState, thread, timers, status, late>>
  BY <1>2 DEF Console!Log, Console!settings, Console!current, Console!shown
<1>4. CASE d = Nothing
  <2>1. doing' = doing /\ overlapped' = overlapped
    BY <1>1, <1>3, <1>4 DEF Console!Enter, Console!Idle, ConsoleTyped
  <2>2. ConsoleTyped'
    BY <1>1, <1>3, <2>1 DEF ConsoleTyped, ConsoleThreads, TimerThreads, CallSteps, Drawing, Progressing, Tasking, Lining, Saying, StatusLines
  <2>3. ProgressKnown' /\ LateKnown'
    BY <1>1, <1>3, <2>1 DEF ProgressKnown, LateKnown, Printing, ConsoleThreads, TimerThreads, Drawing
  <2>4. CurrentKnown'
    BY <1>1, <1>3, <2>1 DEF CurrentKnown, OneCall, CallKnown, ConsoleThreads, Console!ShowProgress, StatusLine
  <2>. QED BY <2>2, <2>3, <2>4 DEF ConsoleInv
<1>5. CASE d # Nothing
  <2>1. d \in CallSteps
    BY <1>5
  <2>2. Goes(t, d) /\ overlapped' \in BOOLEAN /\ (~overlapped' => ~overlapped /\ \A u \in ConsoleThreads : doing[u] = Nothing)
    BY <1>1, <1>3, <2>1, Entered
  <2>3. doing' \in [ConsoleThreads -> CallSteps \cup {Nothing}] /\ doing'[t] = d
        /\ \A u \in ConsoleThreads \ {t} : doing'[u] = doing[u]
    BY <1>1, <2>2, CallGoesOn
  <2>4. ConsoleTyped'
    BY <1>1, <1>3, <2>2, <2>3 DEF ConsoleTyped, ConsoleThreads, TimerThreads, CallSteps, Drawing, Progressing, Tasking, Lining, Saying, StatusLines
  <2>5. ProgressKnown'
    BY <1>1, <1>2, <1>3, <1>5, <2>3 DEF ProgressKnown, ConsoleThreads, TimerThreads, Drawing
  <2>6. LateKnown'
    <3>1. Printing(d) => late[t] = 0
      BY <1>1, <1>2, <1>5 DEF LateKnown, Printing
    <3>. QED BY <1>1, <1>3, <2>2, <3>1, LateAfter
  <2>7. CurrentKnown'
    <3>1. consoleState = "progress" => d.below = StatusLine(currentPercentage, currentTask)
      BY <1>1, <1>2, <1>5 DEF ProgressKnown
    <3>2. CallKnown(d, status, consoleState, currentPercentage, currentTask)'
      BY <1>2, <1>3, <1>5, <3>1 DEF CallKnown
    <3>. QED BY <1>1, <1>3, <1>5, <2>2, <3>2, CurrentAfter
  <2>. QED BY <2>4, <2>5, <2>6, <2>7 DEF ConsoleInv
<1>. QED BY <1>4, <1>5

\* It is printed, with a status line below while progress is shown.
LEMMA PrintLineKept ==
  ASSUME ConsoleInv, NEW t \in ConsoleThreads, Console!PrintLine(t)
  PROVE  ConsoleInv'
<1>1. ConsoleTyped /\ ProgressKnown /\ LateKnown /\ CurrentKnown
  BY DEF ConsoleInv
<1>2. /\ doing[t] # Nothing /\ doing[t].step = "line" /\ Console!Step(t, Nothing)
      /\ Console!Late(t, doing[t].below # Nothing)
      /\ status' = IF ~terminal THEN status ELSE IF doing[t].below = Nothing THEN Console!Blank ELSE doing[t].below
      /\ UNCHANGED <<terminal, verbosity, currentPercentage, currentTask, consoleState, thread, timers>>
  BY DEF Console!PrintLine, Console!settings, Console!current
<1>3. doing[t].below \in StatusLines \cup {Nothing}
  BY <1>1, <1>2, CallStepsAre DEF ConsoleTyped
<1>4. Goes(t, Nothing) /\ overlapped' = overlapped /\ (~overlapped' => ~overlapped /\ \A u \in ConsoleThreads \ {t} : doing[u] = Nothing)
  BY <1>1, <1>2, WentOn
<1>5. doing' \in [ConsoleThreads -> CallSteps \cup {Nothing}] /\ doing'[t] = Nothing
      /\ \A u \in ConsoleThreads \ {t} : doing'[u] = doing[u]
  BY <1>1, <1>4, CallGoesOn
<1>6. LateKnown' /\ late' \in [ConsoleThreads \cup TimerThreads -> {0, 1}]
  <2>. PICK progress \in BOOLEAN : progress = (doing[t].below # Nothing)
    OBVIOUS
  <2>1. progress => Printing(doing[t])
    BY <1>2 DEF Printing
  <2>2. Console!Late(t, progress)
    BY <1>2 DEF Console!Late
  <2>. QED BY <1>1, <1>2, <1>4, <2>1, <2>2, LatePrinted
<1>7. ConsoleTyped'
  <2>1. status' \in [pct : Percentages \cup {Nothing}, task : Tasks \cup {Nothing}, time : BOOLEAN]
    BY <1>1, <1>2, <1>3 DEF ConsoleTyped, StatusLines, Console!Blank
  <2>. QED BY <1>1, <1>2, <1>4, <1>5, <1>6, <2>1 DEF ConsoleTyped, ConsoleThreads, TimerThreads, CallSteps, Drawing, Progressing, Tasking, Lining, Saying, StatusLines
<1>8. ProgressKnown'
  BY <1>1, <1>2, <1>5, ConsoleSets DEF ProgressKnown, ConsoleThreads, TimerThreads, Drawing, CallSteps
<1>9. CurrentKnown'
  <2>1. ~overlapped /\ consoleState = "progress" => doing[t].below = StatusLine(currentPercentage, currentTask)
    BY <1>1, <1>2 DEF CurrentKnown, CallKnown
  <2>2. StatusLine(currentPercentage, currentTask) # Nothing
    <3>1. StatusLine(currentPercentage, currentTask) \in StatusLines
      BY <1>1 DEF StatusLine, StatusLines, ConsoleTyped
    <3>. QED BY <3>1, ConsoleSets
  <2>3. ~overlapped /\ consoleState = "progress" => status' = StatusLine(currentPercentage, currentTask)
    BY <1>1, <1>2, <2>1, <2>2 DEF ProgressKnown
  <2>. QED BY <1>1, <1>2, <1>4, <2>3, CurrentAfter
<1>. QED BY <1>6, <1>7, <1>8, <1>9 DEF ConsoleInv

\* end() stops the display, and will print.
LEMMA EndKept ==
  ASSUME ConsoleInv, Console!End
  PROVE  ConsoleInv'
<1>. DEFINE d == [step |-> "say", force |-> FALSE, final |-> FALSE]
<1>1. ConsoleTyped /\ ProgressKnown /\ LateKnown /\ CurrentKnown
  BY DEF ConsoleInv
<1>2. /\ consoleState' \in {"off", "normal"} /\ Console!Enter(Main, d)
      /\ UNCHANGED <<terminal, verbosity, currentPercentage, currentTask, timers, status, late>>
  BY DEF Console!End, Console!Stop, Console!settings, Console!current, Console!shown
<1>3. d \in CallSteps /\ d.step = "say" /\ d \notin Drawing
  BY DEF CallSteps, Saying, Drawing
<1>. HIDE DEF d
<1>4. Goes(Main, d) /\ overlapped' \in BOOLEAN /\ (~overlapped' => ~overlapped /\ \A u \in ConsoleThreads : doing[u] = Nothing)
  BY <1>1, <1>2, <1>3, Entered, ConsoleSets
<1>5. doing' \in [ConsoleThreads -> CallSteps \cup {Nothing}] /\ doing'[Main] = d
      /\ \A u \in ConsoleThreads \ {Main} : doing'[u] = doing[u]
  BY <1>1, <1>3, <1>4, CallGoesOn, ConsoleSets
<1>6. ConsoleTyped'
  BY <1>1, <1>2, <1>4, <1>5 DEF ConsoleTyped, ConsoleThreads, TimerThreads, CallSteps, Drawing, Progressing, Tasking, Lining, Saying, StatusLines
<1>7. ProgressKnown'
  BY <1>1, <1>2, <1>3, <1>5 DEF ProgressKnown, ConsoleThreads, TimerThreads, Drawing
<1>8. LateKnown'
  <2>1. ~Printing(d)
    BY <1>3 DEF Printing
  <2>. QED BY <1>1, <1>2, <1>3, <1>4, <2>1, LateAfter, ConsoleSets
<1>9. CurrentKnown'
  <2>1. CallKnown(d, status, consoleState, currentPercentage, currentTask)'
    BY <1>2, <1>3 DEF CallKnown
  <2>2. d # Nothing
    BY <1>3, ConsoleSets
  <2>. QED BY <1>1, <1>2, <1>3, <1>4, <2>1, <2>2, CurrentAfter, ConsoleSets
<1>. QED BY <1>6, <1>7, <1>8, <1>9 DEF ConsoleInv

\* So does shutdown(), in whatever thread.
LEMMA ShutdownKept ==
  ASSUME ConsoleInv, NEW t \in ConsoleThreads, Console!Shutdown(t)
  PROVE  ConsoleInv'
<1>1. ConsoleTyped /\ ProgressKnown /\ LateKnown /\ CurrentKnown
  BY DEF ConsoleInv
<1>. PICK force \in BOOLEAN : force = (verbosity # "silent")
  OBVIOUS
<1>. DEFINE d == [step |-> "say", force |-> force, final |-> TRUE]
<1>2. /\ consoleState' \in {"off", "normal"} /\ Goes(t, d) /\ overlapped' = TRUE
      /\ UNCHANGED <<terminal, verbosity, currentPercentage, currentTask, timers, status, late>>
  BY DEF Console!Shutdown, Console!Stop, Console!settings, Console!current, Console!shown, Goes
<1>3. d \in CallSteps /\ d.step = "say" /\ d \notin Drawing
  BY DEF CallSteps, Saying, Drawing
<1>. HIDE DEF d
<1>4. doing' \in [ConsoleThreads -> CallSteps \cup {Nothing}] /\ doing'[t] = d
      /\ \A u \in ConsoleThreads \ {t} : doing'[u] = doing[u]
  BY <1>1, <1>2, <1>3, CallGoesOn
<1>5. ConsoleTyped'
  BY <1>1, <1>2, <1>4 DEF ConsoleTyped, ConsoleThreads, TimerThreads, CallSteps, Drawing, Progressing, Tasking, Lining, Saying, StatusLines
<1>6. ProgressKnown'
  BY <1>1, <1>2, <1>3, <1>4 DEF ProgressKnown, ConsoleThreads, TimerThreads, Drawing
<1>7. LateKnown'
  <2>1. ~Printing(d)
    BY <1>3 DEF Printing
  <2>. QED BY <1>1, <1>2, <1>3, <2>1, LateAfter
<1>8. CurrentKnown'
  BY <1>2 DEF CurrentKnown
<1>. QED BY <1>5, <1>6, <1>7, <1>8 DEF ConsoleInv

\* What is to be printed at the end is put together, and will be printed.
LEMMA SayKept ==
  ASSUME ConsoleInv, NEW t \in ConsoleThreads, Console!Say(t)
  PROVE  ConsoleInv'
<1>1. ConsoleTyped /\ ProgressKnown /\ LateKnown /\ CurrentKnown
  BY DEF ConsoleInv
<1>2. /\ doing[t] # Nothing /\ doing[t].step = "say"
      /\ Console!Step(t, Console!Line(doing[t].force, doing[t].final))
      /\ UNCHANGED <<terminal, verbosity, currentPercentage, currentTask, consoleState, thread, timers, status, late>>
  BY DEF Console!Say, Console!settings, Console!current, Console!shown
<1>3. doing[t].force \in BOOLEAN /\ doing[t].final \in BOOLEAN
  BY <1>1, <1>2, CallStepsAre DEF ConsoleTyped
<1>4. PICK d \in CallSteps \cup {Nothing} :
        /\ d = Console!Line(doing[t].force, doing[t].final)
        /\ d # Nothing => /\ d.step = "line" /\ d \notin Drawing
                          /\ d.below # Nothing => consoleState = "progress"
  BY <1>1, <1>3, LineIs
<1>5. Goes(t, d) /\ overlapped' = overlapped /\ (~overlapped' => ~overlapped /\ \A u \in ConsoleThreads \ {t} : doing[u] = Nothing)
  BY <1>1, <1>2, <1>4, WentOn
<1>6. doing' \in [ConsoleThreads -> CallSteps \cup {Nothing}] /\ doing'[t] = d
      /\ \A u \in ConsoleThreads \ {t} : doing'[u] = doing[u]
  BY <1>1, <1>5, CallGoesOn
<1>7. ConsoleTyped'
  BY <1>1, <1>2, <1>5, <1>6 DEF ConsoleTyped, ConsoleThreads, TimerThreads, CallSteps, Drawing, Progressing, Tasking, Lining, Saying, StatusLines
<1>8. ProgressKnown'
  <2>1. d \notin Drawing
    BY <1>4, ConsoleSets DEF CallSteps
  <2>. QED BY <1>1, <1>2, <1>6, <2>1 DEF ProgressKnown, ConsoleThreads, TimerThreads, Drawing
<1>9. LateKnown'
  <2>1. d # Nothing /\ Printing(d) => late[t] = 0
    BY <1>1, <1>4 DEF LateKnown, Printing
  <2>. QED BY <1>1, <1>2, <1>5, <2>1, LateAfter
<1>10. CurrentKnown'
  <2>1. ~overlapped => consoleState # "progress"
    BY <1>1, <1>2 DEF CurrentKnown, CallKnown
  <2>2. ~overlapped' /\ d # Nothing => CallKnown(d, status, consoleState, currentPercentage, currentTask)'
    BY <1>2, <1>4, <1>5, <2>1 DEF CallKnown
  <2>. QED BY <1>1, <1>2, <1>5, <2>1, <2>2, CurrentAfter
<1>. QED BY <1>7, <1>8, <1>9, <1>10 DEF ConsoleInv

-----------------------------------------------------------------------------
(* start() *)

\* start() sets the percentage back.
LEMMA StartKept ==
  ASSUME ConsoleInv, NEW task \in Tasks, Console!Start(task)
  PROVE  ConsoleInv' /\ doing'[Main] = [step |-> "draw"]
<1>. DEFINE d == [step |-> "draw"]
<1>1. ConsoleTyped /\ ProgressKnown /\ LateKnown /\ CurrentKnown
  BY DEF ConsoleInv
<1>2. /\ thread = 0 /\ doing[Main] = Nothing /\ Goes(Main, d)
      /\ overlapped' = \E u \in Workers : doing[u] # Nothing
      /\ currentPercentage' = 0 /\ currentTask' = task
      /\ UNCHANGED <<terminal, verbosity, consoleState, thread, timers, status, late>>
  BY DEF Console!Start, Console!Idle, Console!settings, Console!shown, Goes
<1>3. PICK i \in TimerThreads : timers[i] = "new"
  BY ConsoleSets DEF Console!Start
<1>4. d \in CallSteps /\ d.step = "draw" /\ d \in Drawing
  BY DEF CallSteps, Drawing
<1>. HIDE DEF d
<1>5. consoleState # "progress"
  BY <1>1, <1>2 DEF ProgressKnown
<1>6. doing' \in [ConsoleThreads -> CallSteps \cup {Nothing}] /\ doing'[Main] = d
      /\ \A u \in ConsoleThreads \ {Main} : doing'[u] = doing[u]
  BY <1>1, <1>2, <1>4, CallGoesOn, ConsoleSets
<1>7. ConsoleTyped'
  BY <1>1, <1>2, <1>6, ConsoleSets DEF ConsoleTyped, ConsoleThreads, TimerThreads, CallSteps, Drawing, Progressing, Tasking, Lining, Saying, StatusLines
<1>8. ProgressKnown'
  BY <1>1, <1>2, <1>3, <1>6 DEF ProgressKnown, ConsoleThreads, TimerThreads, Drawing
<1>9. LateKnown'
  <2>1. ~Printing(d)
    BY <1>4 DEF Printing
  <2>. QED BY <1>1, <1>2, <1>4, <2>1, LateAfter, ConsoleSets
<1>10. CurrentKnown'
  <2>1. CallKnown(d, status, consoleState, currentPercentage, currentTask)'
    BY <1>2, <1>4, <1>5 DEF CallKnown
  <2>2. d # Nothing
    BY <1>4, ConsoleSets
  <2>3. ~overlapped' => \A u \in ConsoleThreads \ {Main} : doing[u] = Nothing
    BY <1>2 DEF ConsoleThreads
  <2>. QED BY <1>1, <1>2, <1>4, <2>1, <2>2, <2>3, CurrentAfter, ConsoleSets
<1>. QED BY <1>6, <1>7, <1>8, <1>9, <1>10 DEF ConsoleInv, d

\* It draws the status line.
LEMMA StartDrawKept ==
  ASSUME ConsoleInv, Console!StartDraw
  PROVE  ConsoleInv'
<1>. DEFINE d == [step |-> "run"]
<1>1. ConsoleTyped /\ ProgressKnown /\ LateKnown /\ CurrentKnown
  BY DEF ConsoleInv
<1>2. /\ doing[Main] = [step |-> "draw"] /\ Console!Step(Main, d)
      /\ status' = IF Console!ShowProgress THEN [pct |-> 0, task |-> currentTask, time |-> TRUE] ELSE status
      /\ UNCHANGED <<terminal, verbosity, currentPercentage, currentTask, consoleState, thread, timers, late>>
  BY DEF Console!StartDraw, Console!settings, Console!current
<1>3. d \in CallSteps /\ d.step = "run" /\ d \in Drawing
  BY DEF CallSteps, Drawing
<1>. HIDE DEF d
<1>4. doing[Main] \in Drawing /\ doing[Main] # Nothing /\ doing[Main].step = "draw" /\ Main \in ConsoleThreads
  BY <1>2, ConsoleSets DEF Drawing, CallSteps
<1>5. Goes(Main, d) /\ overlapped' = overlapped /\ (~overlapped' => ~overlapped /\ \A u \in ConsoleThreads \ {Main} : doing[u] = Nothing)
  BY <1>1, <1>2, <1>4, WentOn
<1>6. doing' \in [ConsoleThreads -> CallSteps \cup {Nothing}] /\ doing'[Main] = d
      /\ \A u \in ConsoleThreads \ {Main} : doing'[u] = doing[u]
  BY <1>1, <1>3, <1>4, <1>5, CallGoesOn
<1>7. ConsoleTyped'
  <2>1. status' \in [pct : Percentages \cup {Nothing}, task : Tasks \cup {Nothing}, time : BOOLEAN]
    BY <1>1, <1>2, ConsoleSets DEF ConsoleTyped
  <2>. QED BY <1>1, <1>2, <1>5, <1>6, <2>1 DEF ConsoleTyped, ConsoleThreads, TimerThreads, CallSteps, Drawing, Progressing, Tasking, Lining, Saying, StatusLines
<1>8. ProgressKnown'
  BY <1>1, <1>2, <1>4, <1>6 DEF ProgressKnown, ConsoleThreads, TimerThreads
<1>9. LateKnown'
  <2>1. ~Printing(d)
    BY <1>3 DEF Printing
  <2>. QED BY <1>1, <1>2, <1>3, <1>4, <1>5, <2>1, LateAfter
<1>10. CurrentKnown'
  <2>1. ~overlapped => consoleState # "progress" /\ currentPercentage = 0
    BY <1>1, <1>4 DEF CurrentKnown, CallKnown
  <2>2. Console!ShowProgress' = Console!ShowProgress
    BY <1>2 DEF Console!ShowProgress
  <2>3. ~overlapped' => CallKnown(d, status, consoleState, currentPercentage, currentTask)'
    BY <1>2, <1>3, <1>5, <2>1, <2>2 DEF CallKnown, StatusLine
  <2>4. d # Nothing
    BY <1>3, ConsoleSets
  <2>. QED BY <1>1, <1>2, <1>3, <1>4, <1>5, <2>3, <2>4, CurrentAfter
<1>. QED BY <1>7, <1>8, <1>9, <1>10 DEF ConsoleInv

\* A set of naturals has a least element, which start() chooses.
LEMMA FirstTimer ==
  ASSUME NEW S, S \subseteq TimerThreads, S # {}
  PROVE  (CHOOSE i \in TimerThreads : i \in S /\ \A j \in TimerThreads : j \in S => i <= j) \in S
<1>1. \E i \in S : \A j \in S : i <= j
  BY ConsoleSets, LeastNat
<1>. QED BY <1>1

\* It makes the timer thread.
LEMMA StartTimerKept ==
  ASSUME ConsoleInv, Console!StartTimer
  PROVE  ConsoleInv'
<1>1. ConsoleTyped /\ ProgressKnown /\ LateKnown /\ CurrentKnown
  BY DEF ConsoleInv
<1>2. /\ doing[Main] = [step |-> "run"] /\ Console!Step(Main, Nothing)
      /\ UNCHANGED <<terminal, verbosity, currentPercentage, currentTask, status>>
  BY DEF Console!StartTimer, Console!settings, Console!current
<1>3. doing[Main] \in Drawing /\ doing[Main] # Nothing /\ doing[Main].step = "run" /\ Main \in ConsoleThreads
  BY <1>2, ConsoleSets DEF Drawing, CallSteps
<1>4. Goes(Main, Nothing) /\ overlapped' = overlapped /\ (~overlapped' => ~overlapped /\ \A u \in ConsoleThreads \ {Main} : doing[u] = Nothing)
  BY <1>1, <1>2, <1>3, WentOn
<1>5. doing' \in [ConsoleThreads -> CallSteps \cup {Nothing}] /\ doing'[Main] = Nothing
      /\ \A u \in ConsoleThreads \ {Main} : doing'[u] = doing[u]
  BY <1>1, <1>3, <1>4, CallGoesOn
<1>6. \A t \in ConsoleThreads : doing'[t] \notin Drawing
  BY <1>1, <1>5, ConsoleSets DEF ProgressKnown, CallSteps
<1>7. ~overlapped => consoleState # "progress" /\ (Console!ShowProgress => status = StatusLine(currentPercentage, currentTask))
  BY <1>1, <1>3 DEF CurrentKnown, CallKnown
<1>8. CASE ~Console!ShowProgress
  <2>1. UNCHANGED <<consoleState, thread, timers, late>>
    BY <1>8 DEF Console!StartTimer
  <2>2. ConsoleTyped'
    BY <1>1, <1>2, <1>4, <1>5, <2>1 DEF ConsoleTyped, ConsoleThreads, TimerThreads, CallSteps, Drawing, Progressing, Tasking, Lining, Saying, StatusLines
  <2>3. ProgressKnown'
    BY <1>1, <1>2, <1>6, <2>1 DEF ProgressKnown, ConsoleThreads, TimerThreads, Drawing
  <2>4. LateKnown'
    BY <1>1, <1>3, <1>4, <2>1, LateAfter
  <2>5. CurrentKnown'
    BY <1>1, <1>2, <1>3, <1>4, <1>7, <2>1, CurrentAfter
  <2>. QED BY <2>2, <2>3, <2>4, <2>5 DEF ConsoleInv
<1>9. CASE Console!ShowProgress
  <2>. DEFINE New == {i \in TimerThreads : timers[i] = "new"}
              first == CHOOSE i \in TimerThreads : i \in New /\ \A j \in TimerThreads : j \in New => i <= j
  <2>1. New # {} /\ New \subseteq TimerThreads
    BY <1>1, <1>3 DEF ProgressKnown
  <2>2. first \in New
    BY <2>1, FirstTimer
  <2>3. (CHOOSE i \in Console!TimerThreads : timers[i] = "new" /\ \A j \in Console!TimerThreads : timers[j] = "new" => i <= j) = first
    BY ConsoleSets
  <2>4. \E i \in {first} :
          /\ consoleState' = "progress" /\ thread' = i
          /\ timers' = [timers EXCEPT ![i] = "check"]
          /\ late' = [t \in DOMAIN late |-> 0]
    BY <1>9, <2>3 DEF Console!StartTimer
  <2>5. PICK i \in TimerThreads : /\ timers[i] = "new" /\ consoleState' = "progress" /\ thread' = i
                                  /\ timers' = [timers EXCEPT ![i] = "check"]
                                  /\ late' = [x \in ConsoleThreads \cup TimerThreads |-> 0]
    BY <1>1, <2>2, <2>4 DEF ConsoleTyped
  <2>6. ConsoleTyped'
    <3>1. late' \in [ConsoleThreads \cup TimerThreads -> {0, 1}]
      BY <2>5
    <3>2. timers' \in [TimerThreads -> {"new", "check", "print", "sleep", "done"}]
      BY <1>1, <2>5 DEF ConsoleTyped
    <3>. QED BY <1>1, <1>2, <1>4, <1>5, <2>5, <3>1, <3>2 DEF ConsoleTyped, ConsoleThreads, TimerThreads, CallSteps, Drawing, Progressing, Tasking, Lining, Saying, StatusLines
  <2>7. ProgressKnown'
    BY <1>2, <1>6, <1>9, <2>5, ConsoleSets DEF ProgressKnown, Console!ShowProgress, ConsoleThreads, TimerThreads, Drawing
  <2>8. LateKnown'
    BY <2>5 DEF LateKnown, ConsoleThreads, TimerThreads
  <2>9. CurrentKnown'
    BY <1>1, <1>2, <1>3, <1>4, <1>7, <1>9, CurrentAfter
  <2>. QED BY <2>6, <2>7, <2>8, <2>9 DEF ConsoleInv
<1>. QED BY <1>8, <1>9

-----------------------------------------------------------------------------
(* The console is always right *)

\* At first nothing is shown.
LEMMA ConsoleStarts ==
  ASSUME Console!Init
  PROVE  ConsoleInv
<1>1. /\ terminal \in BOOLEAN /\ consoleState \in {"off", "normal"}
      /\ currentPercentage = 0 /\ currentTask \in Tasks
      /\ timers = [i \in TimerThreads |-> "new"] /\ doing = [t \in ConsoleThreads |-> Nothing]
      /\ status = Console!Blank /\ overlapped = FALSE
      /\ late = [t \in ConsoleThreads \cup TimerThreads |-> 0]
  BY ConsoleSets DEF Console!Init
<1>2. ConsoleTyped
  BY <1>1, ConsoleSets DEF ConsoleTyped, Console!Blank
<1>3. ProgressKnown
  BY <1>1, ConsoleSets DEF ProgressKnown, CallSteps
<1>4. LateKnown /\ CurrentKnown
  BY <1>1 DEF LateKnown, CurrentKnown, OneCall
<1>. QED BY <1>2, <1>3, <1>4 DEF ConsoleInv

\* Every step of the console keeps the invariant, and the percentage goes back
\* only at start(), or when calls have overlapped.
LEMMA ConsoleSteps ==
  ASSUME ConsoleInv, Console!Next
  PROVE  ConsoleInv' /\ Console!Forward
<1>1. Percentages \subseteq Nat /\ currentPercentage \in Percentages
  BY ConsoleSets DEF ConsoleInv, ConsoleTyped
<1>2. ASSUME UNCHANGED currentPercentage PROVE Console!Forward
  <2>1. ~ (currentPercentage < currentPercentage)
    BY <1>1
  <2>. QED BY <1>2, <2>1 DEF Console!Forward
<1>3. ASSUME NEW task \in Tasks, Console!Start(task) PROVE ConsoleInv' /\ Console!Forward
  BY <1>3, StartKept DEF Console!Forward
<1>4. ASSUME Console!StartDraw PROVE ConsoleInv' /\ Console!Forward
  BY <1>2, <1>4, StartDrawKept DEF Console!StartDraw, Console!current
<1>5. ASSUME Console!StartTimer PROVE ConsoleInv' /\ Console!Forward
  BY <1>2, <1>5, StartTimerKept DEF Console!StartTimer, Console!current
<1>6. ASSUME Console!End PROVE ConsoleInv' /\ Console!Forward
  BY <1>2, <1>6, EndKept DEF Console!End, Console!current
<1>7. ASSUME NEW i \in TimerThreads, Console!Timer(i) PROVE ConsoleInv' /\ Console!Forward
  BY <1>2, <1>7, TimerKept DEF Console!Timer, Console!current
<1>8. ASSUME NEW t \in ConsoleThreads, NEW n \in Percentages, Console!SetProgress(t, n)
      PROVE  ConsoleInv' /\ Console!Forward
  BY <1>2, <1>8, SetProgressKept DEF Console!SetProgress, Console!current
<1>9. ASSUME NEW t \in ConsoleThreads, NEW task \in Tasks, Console!SetTask(t, task)
      PROVE  ConsoleInv' /\ Console!Forward
  BY <1>2, <1>9, SetTaskKept DEF Console!SetTask
<1>10. ASSUME NEW t \in ConsoleThreads, Console!StoreProgress(t) PROVE ConsoleInv' /\ Console!Forward
  <2>1. ConsoleInv' /\ (~overlapped => currentPercentage < currentPercentage')
    BY <1>10, StoreProgressKept
  <2>2. currentPercentage' \in Nat /\ currentPercentage \in Nat
    BY <1>1, <2>1, ConsoleSets DEF ConsoleInv, ConsoleTyped
  <2>3. currentPercentage < currentPercentage' => ~(currentPercentage' < currentPercentage)
    BY <2>2
  <2>. QED BY <2>1, <2>3 DEF Console!Forward
<1>11. ASSUME NEW t \in ConsoleThreads,
              \/ Console!PrintProgress(t) \/ Console!PrintTask(t) \/ Console!Log(t)
              \/ Console!PrintLine(t) \/ Console!Say(t) \/ Console!Shutdown(t)
       PROVE  ConsoleInv' /\ Console!Forward
  <2>1. UNCHANGED currentPercentage
    BY <1>11 DEF Console!PrintProgress, Console!PrintTask, Console!Log, Console!PrintLine, Console!Say,
                 Console!Shutdown, Console!current
  <2>2. ConsoleInv'
    BY <1>11, PrintProgressKept, PrintTaskKept, LogKept, PrintLineKept, SayKept, ShutdownKept
  <2>. QED BY <1>2, <2>1, <2>2
<1>. QED BY <1>3, <1>4, <1>5, <1>6, <1>7, <1>8, <1>9, <1>10, <1>11, ConsoleSets DEF Console!Next

\* The invariant implies the properties.
LEMMA ConsoleImplied ==
  ASSUME ConsoleInv
  PROVE  Console!StatusCurrent /\ Console!LateOnce
<1>1. ConsoleTyped /\ CurrentKnown
  BY DEF ConsoleInv
<1>2. Console!StatusCurrent
  BY <1>1, ConsoleSets DEF CurrentKnown, Console!StatusCurrent, Console!Quiet, StatusLine
<1>3. Console!LateOnce
  BY <1>1 DEF ConsoleTyped, Console!LateOnce
<1>. QED BY <1>2, <1>3

\* The invariant stays when nothing of the console changes.
LEMMA ConsoleUnchanged ==
  ASSUME ConsoleInv, UNCHANGED <<consoleVars, doing>>
  PROVE  ConsoleInv'
<1>1. UNCHANGED <<terminal, verbosity, consoleState, currentPercentage, currentTask, thread, timers,
                  doing, status, late, overlapped>>
  BY DEF consoleVars
<1>2. ConsoleTyped'
  BY <1>1 DEF ConsoleInv, ConsoleTyped, ConsoleThreads, TimerThreads, CallSteps, Drawing, Progressing, Tasking, Lining, Saying, StatusLines
<1>3. ProgressKnown' /\ LateKnown'
  BY <1>1 DEF ConsoleInv, ProgressKnown, LateKnown, Printing, ConsoleThreads, TimerThreads, Drawing
<1>4. CurrentKnown'
  BY <1>1 DEF ConsoleInv, CurrentKnown, OneCall, CallKnown, ConsoleThreads, Console!ShowProgress, StatusLine
<1>. QED BY <1>2, <1>3, <1>4 DEF ConsoleInv

\* The status line shows what is current, and a thread prints progress at most
\* once after the display has stopped (Console.cpp, ConsoleWriter.cpp).
THEOREM ConsoleAlwaysRight == Spec => []ConsoleRight
<1>. DEFINE Inv == subject = "console" => ConsoleInv
<1>1. Init => Inv
  BY ConsoleStarts DEF Init
<1>2. Inv /\ [Next]_vars => Inv'
  <2>. SUFFICES ASSUME Inv, [Next]_vars, subject' = "console" PROVE ConsoleInv'
    OBVIOUS
  <2>1. CASE ConsoleStep
    BY <2>1, ConsoleSteps DEF ConsoleStep
  <2>2. CASE UNCHANGED vars
    BY <2>2, ConsoleUnchanged DEF vars
  <2>3. CASE HandlesStep \/ RegistryStep \/ MappedStep \/ PileStep \/ BufferStep \/ MemoryStep \/ CellsStep
    BY <2>3 DEF HandlesStep, RegistryStep, MappedStep, PileStep, BufferStep, MemoryStep, CellsStep
  <2>. QED BY <2>1, <2>2, <2>3 DEF Next
<1>3. Inv => ConsoleRight
  BY ConsoleImplied DEF ConsoleRight
<1>. QED BY <1>1, <1>2, <1>3, PTL DEF Spec

-----------------------------------------------------------------------------
(* The output buffers: the inductive invariant *)

BufferBytes == Nat \X Nat
BufferSteps == {"idle", "copy", "filled", "flush", "close", "end", "destroy", "gone"}

BufferTyped ==
  /\ kind \in {"dynamic", "stdio", "once", "all"} /\ writer \in BOOLEAN
  /\ step \in BufferSteps /\ thrown \in BOOLEAN /\ calls \in Nat
  /\ memory \in Seq(BufferBytes) /\ pending \in Seq(BufferBytes)
  /\ given \in Seq(BufferBytes) /\ out \in Seq(BufferBytes)
  /\ capacity \in Nat \ {0} /\ Capacity <= capacity
  /\ position \in 0 .. Len(memory) /\ ownPosition \in 0 .. Len(memory)

\* A buffer with a file knows nothing of what its writer has, one that grows
\* writes nothing out, and between calls nothing is left to be copied.
PlacesKnown ==
  /\ writer /\ kind # "dynamic" => position = 0
  /\ kind = "dynamic" => ~thrown /\ (step # "gone" => out = <<>>) /\ step \notin {"flush", "close", "destroy", "end"}
  /\ step \notin {"copy", "filled"} => pending = <<>>
  /\ step = "close" => kind = "all"
  /\ step = "end" => kind \in {"once", "all"} /\ ~thrown /\ (kind = "all" => position = 0)
  /\ step = "destroy" => kind \in {"once", "all"}
  /\ step \in {"close", "destroy"} => ~writer
  /\ thrown => kind \in {"once", "all"} /\ step \in {"idle", "destroy", "gone"}

\* There is room for what is about to be copied.
RoomKnown ==
  /\ Buffer!Position <= capacity
  /\ ~thrown /\ step \in {"idle", "copy"} => Buffer!Position < capacity

\* What was written is out, held or still to be copied.
OrderKnown == ~thrown /\ step # "gone" => out \o Buffer!Held \o pending = given

\* After a write has thrown, what is out and held is the first part of what was
\* written.  Which buffers lose what the system does not take, or tear a part.
Starts(s, t) == \E u \in Seq(BufferBytes) : t = s \o u
ThrownKnown ==
  /\ thrown => /\ step # "gone" => Starts(out \o Buffer!Held, given)
               /\ step = "gone" => Starts(out, given)
  /\ untaken # {} => kind \in {"stdio", "once"}
  /\ torn # 0 => kind = "all" /\ thrown

\* When the buffer is gone, what it knew of is out.
GoneKnown ==
  /\ step = "gone" /\ ~thrown /\ (writer => position <= ownPosition) =>
       /\ Starts(out, given)
       /\ ~writer /\ kind # "stdio" => out = given
       /\ Len(given) - Len(out) <= Len(memory)
  /\ step = "gone" /\ kind = "once" /\ position > 0 => thrown

BufferInv == BufferTyped /\ PlacesKnown /\ RoomKnown /\ OrderKnown /\ ThrownKnown /\ GoneKnown

-----------------------------------------------------------------------------
(* Sequences *)

\* Concatenation under a name: with \o itself the provers compare the sequences
\* byte by byte.
Cat(s, t) == s \o t

\* Three sequences, put together in two ways.
LEMMA CatThree ==
  ASSUME NEW s \in Seq(BufferBytes), NEW t \in Seq(BufferBytes), NEW u \in Seq(BufferBytes)
  PROVE  Cat(Cat(s, t), u) = Cat(s, Cat(t, u)) /\ Cat(s, t) \in Seq(BufferBytes)
<1>1. s \o t \in Seq(BufferBytes)
  BY ConcatProperties
<1>2. (s \o t) \o u = s \o (t \o u)
  BY ConcatAssociative
<1>. QED BY <1>1, <1>2 DEF Cat

\* Four sequences, put together in two ways.
LEMMA CatFour ==
  ASSUME NEW a \in Seq(BufferBytes), NEW b \in Seq(BufferBytes),
         NEW c \in Seq(BufferBytes), NEW d \in Seq(BufferBytes)
  PROVE  Cat(Cat(a, b), Cat(c, d)) = Cat(Cat(a, Cat(b, c)), d)
<1>1. Cat(a, b) \in Seq(BufferBytes)
  BY CatThree
<1>2. Cat(Cat(a, b), Cat(c, d)) = Cat(Cat(Cat(a, b), c), d)
  BY CatThree, <1>1
<1>3. Cat(Cat(a, b), c) = Cat(a, Cat(b, c))
  BY CatThree
<1>. QED BY <1>2, <1>3

\* The length of a memory of which a part is overwritten.
LEMMA OverwrittenLength ==
  ASSUME NEW p \in Nat, NEW n \in Nat, NEW m \in Nat, NEW r \in Nat,
         r = (IF p + n <= m THEN m - (p + n) ELSE 0)
  PROVE  p + n + r \in Nat /\ m <= p + n + r /\ p + n <= p + n + r
OBVIOUS

\* The first part of a concatenation.
LEMMA FirstPart ==
  ASSUME NEW S, NEW s \in Seq(S), NEW t \in Seq(S)
  PROVE  SubSeq(s \o t, 1, Len(s)) = s
<1>1. Len(s) \in Nat /\ SubSeq(s, 1, Len(s)) = s
  BY LenProperties, SubSeqFull
<1>2. CASE s = <<>>
  <2>1. Len(s) = 0
    BY <1>2
  <2>. QED BY <1>2, <2>1, SubSeqEmpty
<1>3. CASE s # <<>>
  <2>1. Len(s) \in 1 .. Len(s) /\ 1 \in 1 .. Len(s)
    BY <1>1, <1>3, EmptySeq
  <2>. QED BY <1>1, <2>1, SubSeqOfConcat1
<1>. QED BY <1>2, <1>3

\* A sequence cut in two.
LEMMA CutInTwo ==
  ASSUME NEW S, NEW s \in Seq(S), NEW n \in 0 .. Len(s)
  PROVE  /\ SubSeq(s, 1, n) \in Seq(S) /\ Len(SubSeq(s, 1, n)) = n
         /\ SubSeq(s, n + 1, Len(s)) \in Seq(S)
         /\ SubSeq(s, 1, n) \o SubSeq(s, n + 1, Len(s)) = s
<1>1. Len(s) \in Nat /\ \A i \in 1 .. Len(s) : s[i] \in S
  BY LenProperties, ElementOfSeq
<1>2. SubSeq(s, 1, n) \in Seq(S) /\ Len(SubSeq(s, 1, n)) = n
  <2>1. 1 \in Int /\ n \in Int /\ (\A i \in 1 .. n : s[i] \in S) /\ (IF 1 <= n THEN n - 1 + 1 ELSE 0) = n
    BY <1>1
  <2>. QED BY <2>1, SubSeqProperties
<1>3. SubSeq(s, n + 1, Len(s)) \in Seq(S)
  <2>1. n + 1 \in Int /\ Len(s) \in Int /\ \A i \in n + 1 .. Len(s) : s[i] \in S
    BY <1>1
  <2>. QED BY <2>1, SubSeqProperties
<1>4. SubSeq(s, 1, n) \o SubSeq(s, n + 1, Len(s)) = SubSeq(s, 1, Len(s))
  <2>1. 1 \in 1 .. Len(s) + 1 /\ n \in 1 - 1 .. Len(s) /\ Len(s) \in n .. Len(s)
    BY <1>1
  <2>. QED BY <2>1, ConcatAdjacentSubSeq
<1>. QED BY <1>2, <1>3, <1>4, SubSeqFull

\* What starts a sequence is its first part.
LEMMA StartsBegins ==
  ASSUME NEW s \in Seq(BufferBytes), NEW t, Starts(s, t)
  PROVE  Buffer!Begins(s, t) /\ t \in Seq(BufferBytes)
<1>1. PICK u \in Seq(BufferBytes) : t = s \o u
  BY DEF Starts
<1>2. t \in Seq(BufferBytes) /\ Len(t) = Len(s) + Len(u) /\ Len(s) \in Nat /\ Len(u) \in Nat
  BY <1>1, ConcatProperties, LenProperties
<1>3. SubSeq(t, 1, Len(s)) = s /\ SubSeq(s, 1, Len(s)) = s
  BY <1>1, FirstPart, SubSeqFull
<1>. QED BY <1>2, <1>3 DEF Buffer!Begins

\* What starts what starts a sequence, starts it.
LEMMA StartsTransitive ==
  ASSUME NEW s \in Seq(BufferBytes), NEW u \in Seq(BufferBytes), NEW t, Starts(s \o u, t)
  PROVE  Starts(s, t)
<1>1. PICK v \in Seq(BufferBytes) : t = (s \o u) \o v
  BY DEF Starts
<1>2. t = s \o (u \o v) /\ u \o v \in Seq(BufferBytes)
  BY <1>1, ConcatAssociative, ConcatProperties
<1>. QED BY <1>2 DEF Starts

\* A part of what starts a sequence, starts it.
LEMMA StartsWithPart ==
  ASSUME NEW a \in Seq(BufferBytes), NEW b \in Seq(BufferBytes), NEW c \in Seq(BufferBytes),
         NEW d \in Seq(BufferBytes), NEW t, (a \o (b \o c)) \o d = t
  PROVE  Starts(a \o b, t)
<1>1. Cat(c, d) \in Seq(BufferBytes)
  BY CatThree
<1>2. Cat(Cat(a, Cat(b, c)), d) = t
  BY DEF Cat
<1>3. Cat(Cat(a, b), Cat(c, d)) = t
  BY <1>2, CatFour
<1>. QED BY <1>1, <1>3 DEF Starts, Cat

\* The bytes of a call.
LEMMA BytesOfCall ==
  ASSUME NEW n \in Nat, calls \in Nat
  PROVE  Buffer!Bytes(n) \in Seq(BufferBytes) /\ Len(Buffer!Bytes(n)) = n
<1>1. Buffer!Bytes(n) \in [1 .. n -> BufferBytes]
  BY DEF Buffer!Bytes, BufferBytes
<1>2. Buffer!Bytes(n) \in Seq(BufferBytes)
  BY <1>1, SeqDef
<1>. QED BY <1>1, <1>2, LenProperties

-----------------------------------------------------------------------------
(* What the steps have in common *)

\* The numbers of the model.
LEMMA BufferNumbers ==
  /\ Capacity \in Nat \ {0} /\ Slack \in Nat \ {0} /\ Lengths \subseteq Nat
  /\ Kinds \subseteq {"dynamic", "stdio", "once", "all"}
  BY ServicesAssumption DEF Buffer!BufferAssumption

\* Where the user of the buffer is, and what is held.
LEMMA HeldIs ==
  ASSUME BufferTyped
  PROVE  /\ Buffer!Position \in 0 .. Len(memory) /\ Len(memory) \in Nat
         /\ Buffer!Held \in Seq(BufferBytes) /\ Len(Buffer!Held) = Buffer!Position
         /\ Buffer!Position = 0 => Buffer!Held = <<>>
<1>1. Buffer!Position \in 0 .. Len(memory) /\ Len(memory) \in Nat
  BY LenProperties DEF BufferTyped, Buffer!Position
<1>2. Buffer!Held \in Seq(BufferBytes) /\ Len(Buffer!Held) = Buffer!Position
  BY <1>1, CutInTwo DEF Buffer!Held, BufferTyped
<1>3. Buffer!Position = 0 => Buffer!Held = <<>>
  BY SubSeqEmpty DEF Buffer!Held
<1>. QED BY <1>1, <1>2, <1>3

\* What is held stays when neither the memory nor a position changes.
LEMMA HeldUnchanged ==
  ASSUME UNCHANGED <<writer, memory, position, ownPosition>>
  PROVE  Buffer!Position' = Buffer!Position /\ Buffer!Held' = Buffer!Held
  BY DEF Buffer!Position, Buffer!Held

\* Between calls nothing is to be copied.
LEMMA OrderIdle ==
  ASSUME BufferInv, pending = <<>>, ~thrown, step # "gone"
  PROVE  out \o Buffer!Held = given
<1>1. out \o Buffer!Held \in Seq(BufferBytes)
  BY HeldIs, ConcatProperties DEF BufferInv, BufferTyped
<1>2. (out \o Buffer!Held) \o pending = given
  BY DEF BufferInv, OrderKnown
<1>. QED BY <1>1, <1>2, ConcatEmptySeq

-----------------------------------------------------------------------------
(* Writing *)

\* A call begins to write: the bytes are to be copied.
LEMMA BeginsToWrite ==
  ASSUME BufferInv, Buffer!Call, NEW n \in Nat,
         pending' = Buffer!Bytes(n), given' = given \o Buffer!Bytes(n),
         \/ step' = "copy" /\ Buffer!Position < capacity
         \/ step' = "filled",
         UNCHANGED <<kind, writer, memory, capacity, position, ownPosition, out, untaken, torn, thrown>>
  PROVE  BufferInv'
<1>1. BufferTyped /\ PlacesKnown /\ RoomKnown /\ OrderKnown /\ ThrownKnown /\ GoneKnown
  BY DEF BufferInv
<1>2. step = "idle" /\ ~thrown /\ calls' = calls + 1 /\ pending = <<>>
  BY <1>1 DEF Buffer!Call, PlacesKnown
<1>3. Buffer!Position' = Buffer!Position /\ Buffer!Held' = Buffer!Held
  BY HeldUnchanged
<1>4. Buffer!Bytes(n) \in Seq(BufferBytes)
  BY <1>1, BytesOfCall DEF BufferTyped
<1>5. BufferTyped'
  <2>1. given' \in Seq(BufferBytes)
    BY <1>1, <1>4, ConcatProperties DEF BufferTyped
  <2>2. calls' \in Nat
    BY <1>1, <1>2 DEF BufferTyped
  <2>. QED BY <1>1, <1>4, <2>1, <2>2 DEF BufferTyped, BufferSteps, BufferBytes
<1>6. PlacesKnown' /\ ThrownKnown' /\ GoneKnown'
  BY <1>1, <1>2 DEF PlacesKnown, ThrownKnown, GoneKnown
<1>7. RoomKnown'
  BY <1>1, <1>3 DEF RoomKnown
<1>8. OrderKnown'
  <2>1. out \o Buffer!Held = given
    BY <1>2, OrderIdle
  <2>. QED BY <1>2, <1>3, <2>1 DEF OrderKnown
<1>. QED BY <1>5, <1>6, <1>7, <1>8 DEF BufferInv

\* write()
LEMMA WriteKept ==
  ASSUME BufferInv, NEW n \in Lengths, Buffer!Write(n)
  PROVE  BufferInv'
<1>1. Buffer!Position < capacity
  BY DEF BufferInv, RoomKnown, Buffer!Write, Buffer!Call
<1>. QED BY <1>1, BufferNumbers, BeginsToWrite DEF Buffer!Write, Buffer!use, Buffer!faults

\* ensureCapacityUnsafe() and putStringUnsafe()
LEMMA PutKept ==
  ASSUME BufferInv, NEW n \in Lengths, Buffer!Put(n)
  PROVE  BufferInv'
<1>1. /\ Buffer!Position <= capacity /\ Buffer!Position \in Nat /\ capacity \in Nat
      /\ n \in Nat /\ Slack \in Nat \ {0}
  BY BufferNumbers, HeldIs DEF BufferInv, RoomKnown, BufferTyped
<1>2. (step' = "copy" /\ Buffer!Position < capacity) \/ step' = "filled"
  BY <1>1 DEF Buffer!Put, Buffer!Short, Buffer!Room
<1>. QED BY <1>1, <1>2, BeginsToWrite DEF Buffer!Put, Buffer!use, Buffer!faults

\* What fits is copied.
LEMMA CopyKept ==
  ASSUME BufferInv, Buffer!Copy
  PROVE  BufferInv'
<1>. DEFINE p == Buffer!Position
            n == Buffer!Copied(Len(pending))
            first == SubSeq(pending, 1, n)
            kept == Buffer!Held
            rest == SubSeq(memory, p + n + 1, Len(memory))
<1>1. BufferTyped /\ PlacesKnown /\ RoomKnown /\ OrderKnown /\ ThrownKnown /\ GoneKnown
  BY DEF BufferInv
<1>2. /\ step = "copy" /\ memory' = kept \o first \o rest
      /\ IF writer THEN ownPosition' = p + n /\ position' = position ELSE position' = p + n /\ ownPosition' = ownPosition
      /\ pending' = SubSeq(pending, n + 1, Len(pending))
      /\ step' = (IF Buffer!Fits(Len(pending)) THEN "idle" ELSE "filled")
      /\ UNCHANGED <<kind, writer, capacity, given, out, untaken, torn, thrown, calls>>
  BY DEF Buffer!Copy, Buffer!Move, Buffer!use, Buffer!faults
<1>3. /\ ~thrown /\ p \in Nat /\ p <= Len(memory) /\ Len(memory) \in Nat /\ capacity \in Nat /\ p < capacity
      /\ kept \in Seq(BufferBytes) /\ Len(kept) = p /\ Len(pending) \in Nat
  BY <1>1, <1>2, HeldIs, LenProperties DEF PlacesKnown, RoomKnown, BufferTyped
<1>4. /\ n \in 0 .. Len(pending) /\ p + n <= capacity
      /\ Buffer!Fits(Len(pending)) => n = Len(pending) /\ p + n < capacity
  BY <1>3 DEF Buffer!Copied, Buffer!Fits, Buffer!Room
<1>. HIDE DEF n, p, kept
<1>5. /\ first \in Seq(BufferBytes) /\ Len(first) = n /\ pending' \in Seq(BufferBytes) /\ first \o pending' = pending
  BY <1>1, <1>2, <1>4, CutInTwo DEF BufferTyped
<1>. HIDE DEF first
<1>6. rest \in Seq(BufferBytes) /\ Len(rest) = (IF p + n <= Len(memory) THEN Len(memory) - (p + n) ELSE 0)
  <2>1. p + n + 1 \in Int /\ Len(memory) \in Int /\ \A i \in p + n + 1 .. Len(memory) : memory[i] \in BufferBytes
    BY <1>1, <1>3, <1>4, ElementOfSeq DEF BufferTyped
  <2>2. Len(rest) = (IF p + n + 1 <= Len(memory) THEN Len(memory) - (p + n + 1) + 1 ELSE 0) /\ rest \in Seq(BufferBytes)
    BY <2>1, SubSeqProperties
  <2>. QED BY <1>3, <1>4, <2>2
<1>. HIDE DEF rest
<1>7. kept \o first \in Seq(BufferBytes) /\ Len(kept \o first) = p + n
  BY <1>3, <1>5, ConcatProperties
<1>8. memory' \in Seq(BufferBytes) /\ Len(memory') = p + n + Len(rest) /\ SubSeq(memory', 1, p + n) = kept \o first
  BY <1>2, <1>6, <1>7, ConcatProperties, FirstPart
<1>9. Buffer!Position' = p + n /\ Buffer!Held' = kept \o first
  BY <1>2, <1>8 DEF Buffer!Position, Buffer!Held
<1>10. BufferTyped'
  <2>1. Len(memory') \in Nat /\ p + n \in 0 .. Len(memory') /\ \A i \in 0 .. Len(memory) : i \in 0 .. Len(memory')
    <3>1. n \in Nat /\ Len(rest) \in Nat
      BY <1>3, <1>4, <1>6, LenProperties
    <3>2. p + n + Len(rest) \in Nat /\ Len(memory) <= p + n + Len(rest) /\ p + n <= p + n + Len(rest)
      BY <1>3, <1>6, <3>1, OverwrittenLength
    <3>3. p + n \in Nat
      BY <1>3, <3>1
    <3>. QED BY <1>3, <1>8, <3>2, <3>3
  <2>2. position' \in 0 .. Len(memory') /\ ownPosition' \in 0 .. Len(memory')
    BY <1>1, <1>2, <2>1 DEF BufferTyped
  <2>. QED BY <1>1, <1>2, <1>5, <1>8, <2>2 DEF BufferTyped, BufferSteps, BufferBytes
<1>11. PlacesKnown'
  <2>1. step' = "idle" => pending' = <<>>
    <3>1. step' = "idle" => n = Len(pending)
      BY <1>2, <1>4
    <3>2. n = Len(pending) => SubSeq(pending, n + 1, Len(pending)) = <<>>
      BY <1>3, SubSeqEmpty
    <3>. QED BY <1>2, <3>1, <3>2
  <2>. QED BY <1>1, <1>2, <1>3, <2>1 DEF PlacesKnown
<1>12. RoomKnown'
  BY <1>2, <1>4, <1>9 DEF RoomKnown
<1>13. OrderKnown'
  <2>1. (out \o kept) \o pending = given
    BY <1>1, <1>2, <1>3 DEF OrderKnown, kept
  <2>2. (out \o kept) \o (first \o pending') = (out \o (kept \o first)) \o pending'
    <3>1. Cat(Cat(out, kept), Cat(first, pending')) = Cat(Cat(out, Cat(kept, first)), pending')
      BY <1>1, <1>3, <1>5, CatFour DEF BufferTyped
    <3>. QED BY <3>1 DEF Cat
  <2>. QED BY <1>2, <1>5, <1>9, <2>1, <2>2 DEF OrderKnown
<1>14. ThrownKnown' /\ GoneKnown'
  BY <1>1, <1>2, <1>3 DEF ThrownKnown, GoneKnown
<1>. QED BY <1>10, <1>11, <1>12, <1>13, <1>14 DEF BufferInv

-----------------------------------------------------------------------------
(* Emptying the buffer *)

\* What is out and held starts what was written.
LEMMA HeldStarts ==
  ASSUME BufferInv, ~thrown, step # "gone"
  PROVE  Starts(out \o Buffer!Held, given) /\ Starts(out, given)
<1>1. out \in Seq(BufferBytes) /\ Buffer!Held \in Seq(BufferBytes) /\ pending \in Seq(BufferBytes)
  BY HeldIs DEF BufferInv, BufferTyped
<1>2. Starts(out \o Buffer!Held, given)
  BY <1>1 DEF BufferInv, OrderKnown, Starts
<1>. QED BY <1>1, <1>2, StartsTransitive

\* filled() of a buffer that grows
LEMMA GrowKept ==
  ASSUME BufferInv, Buffer!Grow
  PROVE  BufferInv'
<1>1. BufferTyped /\ PlacesKnown /\ RoomKnown /\ OrderKnown /\ ThrownKnown /\ GoneKnown
  BY DEF BufferInv
<1>2. /\ step = "filled" /\ kind = "dynamic" /\ ~thrown
      /\ position' = Buffer!Position /\ ownPosition' = Buffer!Position
      /\ capacity' = 2 * capacity /\ step' = "copy"
      /\ UNCHANGED <<kind, writer, memory, pending, given, out, untaken, torn, thrown, calls>>
  BY <1>1 DEF Buffer!Grow, Buffer!Synchronize, Buffer!use, Buffer!faults, PlacesKnown
<1>3. Buffer!Position' = Buffer!Position /\ Buffer!Held' = Buffer!Held
  BY <1>2 DEF Buffer!Position, Buffer!Held
<1>4. /\ capacity \in Nat \ {0} /\ Capacity <= capacity /\ Capacity \in Nat /\ Buffer!Position <= capacity
      /\ Buffer!Position \in 0 .. Len(memory) /\ Buffer!Position \in Nat
  BY <1>1, HeldIs, BufferNumbers DEF BufferTyped, RoomKnown
<1>5. capacity' \in Nat \ {0} /\ Capacity <= capacity' /\ Buffer!Position < capacity' /\ Buffer!Position <= capacity'
  BY <1>2, <1>4
<1>6. BufferTyped'
  BY <1>1, <1>2, <1>4, <1>5 DEF BufferTyped, BufferSteps, BufferBytes
<1>7. PlacesKnown' /\ ThrownKnown' /\ GoneKnown'
  BY <1>1, <1>2 DEF PlacesKnown, ThrownKnown, GoneKnown
<1>8. RoomKnown'
  BY <1>3, <1>5 DEF RoomKnown
<1>9. OrderKnown'
  BY <1>1, <1>2, <1>3 DEF OrderKnown
<1>. QED BY <1>6, <1>7, <1>8, <1>9 DEF BufferInv

\* What a buffer with a file writes is what is held.
LEMMA OutgoingIsHeld ==
  ASSUME BufferInv, kind # "dynamic", step \in {"filled", "flush", "close", "destroy"}
  PROVE  Buffer!Outgoing = Buffer!Held
  BY DEF BufferInv, PlacesKnown, Buffer!Outgoing, Buffer!Held, Buffer!Position

\* The buffer is empty after the write.
LEMMA EmptiedByWrite ==
  ASSUME BufferInv, kind # "dynamic", step \in {"filled", "flush", "close", "destroy"},
         out' = out \o Buffer!Held, position' = 0, ownPosition' = 0, step' = Buffer!AfterWrite,
         untaken' # {} => kind \in {"stdio", "once"},
         UNCHANGED <<kind, writer, memory, capacity, pending, given, torn, thrown, calls>>
  PROVE  BufferInv'
<1>1. BufferTyped /\ PlacesKnown /\ RoomKnown /\ OrderKnown /\ ThrownKnown /\ GoneKnown
  BY DEF BufferInv
<1>2. /\ step = "filled" => step' = "copy"
      /\ step = "flush" => step' = "idle"
      /\ step = "close" => step' = "end"
      /\ step = "destroy" => step' = "gone"
  BY DEF Buffer!AfterWrite
<1>3. Buffer!Position' = 0
  BY DEF Buffer!Position
<1>4. Buffer!Held' = <<>>
  BY <1>3, SubSeqEmpty DEF Buffer!Held
<1>5. BufferTyped'
  <2>1. 0 \in 0 .. Len(memory)
    BY <1>1, HeldIs
  <2>2. out' \in Seq(BufferBytes)
    BY <1>1, HeldIs, ConcatProperties DEF BufferTyped
  <2>. QED BY <1>1, <1>2, <2>1, <2>2 DEF BufferTyped, BufferSteps, BufferBytes
<1>6. PlacesKnown'
  BY <1>1, <1>2 DEF PlacesKnown
<1>7. RoomKnown'
  <2>1. 0 <= capacity /\ 0 < capacity
    BY <1>1 DEF BufferTyped
  <2>. QED BY <1>3, <2>1 DEF RoomKnown
<1>8. out' \o Buffer!Held' = out'
  BY <1>4, <1>5, ConcatEmptySeq DEF BufferTyped
<1>9. OrderKnown'
  <2>1. ~thrown => (out \o Buffer!Held) \o pending = given
    BY <1>1 DEF OrderKnown
  <2>. QED BY <1>8, <2>1 DEF OrderKnown
<1>10. ThrownKnown'
  <2>1. thrown => step = "destroy"
    BY <1>1 DEF PlacesKnown
  <2>2. thrown => Starts(out', given)
    BY <1>1, <2>1 DEF ThrownKnown
  <2>. QED BY <1>1, <1>2, <2>1, <2>2 DEF ThrownKnown, Starts
<1>11. ASSUME step' = "gone", ~thrown PROVE out' = given
  <2>1. pending = <<>>
    BY <1>1, <1>2, <1>11 DEF PlacesKnown
  <2>. QED BY <1>11, <2>1, OrderIdle
<1>12. GoneKnown'
  <2>1. out' = given => Starts(out', given) /\ Len(given) - Len(out') <= Len(memory)
    <3>1. given \in Seq(BufferBytes) /\ given \o <<>> = given /\ <<>> \in Seq(BufferBytes)
      BY <1>1, ConcatEmptySeq, EmptySeq DEF BufferTyped
    <3>2. Len(given) \in Nat /\ Len(memory) \in Nat
      BY <1>1, LenProperties DEF BufferTyped
    <3>3. Len(given) - Len(given) <= Len(memory)
      BY <3>2
    <3>. QED BY <3>1, <3>3 DEF Starts
  <2>2. ~(position' > 0)
    OBVIOUS
  <2>. QED BY <1>11, <2>1, <2>2 DEF GoneKnown, Starts
<1>. QED BY <1>5, <1>6, <1>7, <1>9, <1>10, <1>12 DEF BufferInv

\* A write that throws: the buffer keeps what it has, or is gone with the part of
\* it that the file got.
LEMMA FailedWrite ==
  ASSUME BufferInv, kind \in {"once", "all"}, step \in {"filled", "flush", "close", "destroy"},
         NEW n \in 0 .. Len(Buffer!Held), kind = "once" => n = 0,
         \/ step = "destroy" /\ step' = "gone" /\ out' = out \o SubSeq(Buffer!Held, 1, n) /\ torn' = torn
         \/ step # "destroy" /\ step' = "idle" /\ out' = out /\ torn' = n,
         pending' = <<>>, thrown' = TRUE,
         UNCHANGED <<kind, writer, memory, capacity, position, ownPosition, given, untaken, calls>>
  PROVE  BufferInv'
<1>. DEFINE kept == Buffer!Held
            first == SubSeq(kept, 1, n)
            rest == SubSeq(kept, n + 1, Len(kept))
<1>1. BufferTyped /\ PlacesKnown /\ RoomKnown /\ OrderKnown /\ ThrownKnown /\ GoneKnown
  BY DEF BufferInv
<1>2. Buffer!Position' = Buffer!Position /\ Buffer!Held' = Buffer!Held
  BY HeldUnchanged
<1>3. kept \in Seq(BufferBytes) /\ out \in Seq(BufferBytes) /\ pending \in Seq(BufferBytes)
  BY <1>1, HeldIs DEF BufferTyped
<1>4. first \in Seq(BufferBytes) /\ rest \in Seq(BufferBytes) /\ first \o rest = kept
  BY <1>3, CutInTwo
<1>5. out \o first \in Seq(BufferBytes)
  BY <1>3, <1>4, ConcatProperties
<1>6. BufferTyped'
  BY <1>1, <1>5, EmptySeq DEF BufferTyped, BufferSteps, BufferBytes
<1>7. PlacesKnown'
  BY <1>1 DEF PlacesKnown
<1>8. RoomKnown' /\ OrderKnown' /\ GoneKnown'
  BY <1>1, <1>2 DEF RoomKnown, OrderKnown, GoneKnown
<1>9. Starts(out \o Buffer!Held, given)
  BY <1>1, HeldStarts DEF ThrownKnown
<1>10. Starts(out \o first, given)
  <2>1. PICK u \in Seq(BufferBytes) : given = (out \o kept) \o u
    BY <1>9 DEF Starts
  <2>. HIDE DEF kept, first, rest
  <2>2. (out \o (first \o rest)) \o u = given
    BY <1>4, <2>1
  <2>. QED BY <1>3, <1>4, <2>2, StartsWithPart
<1>11. ThrownKnown'
  <2>1. step' = "gone" => Starts(out', given)
    BY <1>10
  <2>2. step' # "gone" => Starts(out' \o Buffer!Held', given)
    BY <1>2, <1>9
  <2>3. torn' # 0 => kind = "all"
    BY <1>1 DEF ThrownKnown
  <2>. QED BY <1>1, <2>1, <2>2, <2>3 DEF ThrownKnown, Starts
<1>. QED BY <1>6, <1>7, <1>8, <1>11 DEF BufferInv

\* filled(), flush(), close() and the destructor of a buffer with a file
LEMMA WriteOutKept ==
  ASSUME BufferInv, NEW n \in 0 .. Len(Buffer!Outgoing), NEW error \in BOOLEAN, Buffer!WriteOut(n, error)
  PROVE  BufferInv'
<1>1. /\ kind # "dynamic" /\ step \in {"filled", "flush", "close", "destroy"}
      /\ UNCHANGED <<kind, writer, memory, capacity, given, calls>>
  BY DEF Buffer!WriteOut, Buffer!use
<1>2. Buffer!Outgoing = Buffer!Held /\ n \in 0 .. Len(Buffer!Held)
  BY <1>1, OutgoingIsHeld
<1>3. kind \in {"stdio", "once", "all"} /\ Len(out) \in Nat /\ n \in Nat /\ ThrownKnown
  BY <1>1, <1>2, LenProperties DEF BufferInv, BufferTyped
<1>4. CASE n = Len(Buffer!Outgoing) \/ Buffer!Ignored(error)
  <2>1. /\ out' = out \o Buffer!Held /\ position' = 0 /\ ownPosition' = 0 /\ step' = Buffer!AfterWrite
        /\ untaken' = untaken \union (Len(out) + n + 1 .. Len(out) + Len(Buffer!Outgoing))
        /\ UNCHANGED <<pending, torn, thrown>>
    BY <1>2, <1>4 DEF Buffer!WriteOut, Buffer!Synchronize, Buffer!Emptied
  <2>2. ASSUME kind = "all" PROVE untaken' = {}
    <3>1. untaken = {} /\ n = Len(Buffer!Outgoing)
      BY <1>3, <1>4, <2>2 DEF ThrownKnown, Buffer!Ignored
    <3>2. Len(out) + n + 1 .. Len(out) + n = {}
      BY <1>3
    <3>. QED BY <2>1, <3>1, <3>2
  <2>3. untaken' # {} => kind \in {"stdio", "once"}
    BY <1>3, <2>2
  <2>. QED BY <1>1, <2>1, <2>3, EmptiedByWrite
<1>5. CASE ~(n = Len(Buffer!Outgoing) \/ Buffer!Ignored(error))
  <2>1. /\ kind = "once" => n = 0
        /\ \/ step = "destroy" /\ step' = "gone" /\ out' = out \o SubSeq(Buffer!Held, 1, n) /\ torn' = torn
           \/ step # "destroy" /\ step' = "idle" /\ out' = out /\ torn' = n
        /\ pending' = <<>> /\ thrown' = TRUE /\ UNCHANGED <<position, ownPosition, untaken>>
    BY <1>2, <1>5 DEF Buffer!WriteOut
  <2>2. kind \in {"once", "all"}
    BY <1>3, <1>5 DEF Buffer!Ignored
  <2>. QED BY <1>1, <1>2, <2>1, <2>2, FailedWrite
<1>. QED BY <1>4, <1>5

-----------------------------------------------------------------------------
(* The other calls *)

\* flush()
LEMMA FlushKept ==
  ASSUME BufferInv, Buffer!Flush
  PROVE  BufferInv'
<1>1. BufferTyped /\ PlacesKnown /\ RoomKnown /\ OrderKnown /\ ThrownKnown /\ GoneKnown
  BY DEF BufferInv
<1>2. /\ step = "idle" /\ ~thrown /\ calls' = calls + 1
      /\ UNCHANGED <<kind, writer, memory, capacity, pending, given, out, untaken, torn, thrown>>
  BY DEF Buffer!Flush, Buffer!Call, Buffer!use, Buffer!faults
<1>3. \/ /\ kind = "dynamic" /\ position' = Buffer!Position /\ ownPosition' = Buffer!Position /\ step' = "idle"
      \/ /\ kind # "dynamic" /\ step' = "flush" /\ UNCHANGED <<position, ownPosition>>
  BY DEF Buffer!Flush, Buffer!Synchronize
<1>4. Buffer!Position' = Buffer!Position /\ Buffer!Held' = Buffer!Held
  BY <1>2, <1>3 DEF Buffer!Position, Buffer!Held
<1>5. BufferTyped'
  <2>1. calls' \in Nat
    BY <1>1, <1>2 DEF BufferTyped
  <2>2. Buffer!Position \in 0 .. Len(memory)
    BY <1>1, HeldIs
  <2>. QED BY <1>1, <1>2, <1>3, <2>1, <2>2 DEF BufferTyped, BufferSteps, BufferBytes
<1>6. PlacesKnown' /\ ThrownKnown' /\ GoneKnown'
  BY <1>1, <1>2, <1>3 DEF PlacesKnown, ThrownKnown, GoneKnown
<1>7. RoomKnown' /\ OrderKnown'
  BY <1>1, <1>2, <1>3, <1>4 DEF RoomKnown, OrderKnown
<1>. QED BY <1>5, <1>6, <1>7 DEF BufferInv

\* clear()
LEMMA ClearKept ==
  ASSUME BufferInv, Buffer!Clear
  PROVE  BufferInv'
<1>1. BufferTyped /\ PlacesKnown /\ RoomKnown /\ OrderKnown /\ ThrownKnown /\ GoneKnown
  BY DEF BufferInv
<1>2. /\ step = "idle" /\ ~thrown /\ calls' = calls + 1 /\ given' = out
      /\ IF writer THEN ownPosition' = 0 /\ position' = position ELSE position' = 0 /\ ownPosition' = ownPosition
      /\ UNCHANGED <<kind, writer, memory, capacity, pending, step, out, untaken, torn, thrown>>
  BY DEF Buffer!Clear, Buffer!Call, Buffer!Move, Buffer!use, Buffer!faults
<1>3. Buffer!Position' = 0
  BY <1>2 DEF Buffer!Position
<1>4. Buffer!Held' = <<>>
  BY <1>3, SubSeqEmpty DEF Buffer!Held
<1>5. BufferTyped'
  <2>1. calls' \in Nat
    BY <1>1, <1>2 DEF BufferTyped
  <2>2. 0 \in 0 .. Len(memory)
    BY <1>1, HeldIs
  <2>. QED BY <1>1, <1>2, <2>1, <2>2 DEF BufferTyped, BufferSteps, BufferBytes
<1>6. PlacesKnown' /\ ThrownKnown' /\ GoneKnown'
  BY <1>1, <1>2 DEF PlacesKnown, ThrownKnown, GoneKnown
<1>7. RoomKnown'
  <2>1. 0 <= capacity /\ 0 < capacity
    BY <1>1 DEF BufferTyped
  <2>. QED BY <1>2, <1>3, <2>1 DEF RoomKnown
<1>8. OrderKnown'
  <2>1. pending = <<>> /\ out \in Seq(BufferBytes)
    BY <1>1, <1>2 DEF PlacesKnown, BufferTyped
  <2>2. (out \o <<>>) \o <<>> = out
    BY <2>1, ConcatEmptySeq
  <2>. QED BY <1>2, <1>4, <2>1, <2>2 DEF OrderKnown
<1>. QED BY <1>5, <1>6, <1>7, <1>8 DEF BufferInv

\* close() of a FileBuffer2 or FileBuffer3
LEMMA CloseKept ==
  ASSUME BufferInv, Buffer!Close
  PROVE  BufferInv'
<1>1. BufferTyped /\ PlacesKnown /\ RoomKnown /\ OrderKnown /\ ThrownKnown /\ GoneKnown
  BY DEF BufferInv
<1>2. /\ step = "idle" /\ ~thrown /\ calls' = calls + 1 /\ kind \in {"once", "all"}
      /\ step' = (IF kind = "all" /\ position > 0 THEN "close" ELSE "end")
      /\ UNCHANGED <<kind, writer, memory, capacity, position, ownPosition, pending, given, out, untaken, torn, thrown>>
  BY DEF Buffer!Close, Buffer!Call, Buffer!use, Buffer!faults
<1>3. Buffer!Position' = Buffer!Position /\ Buffer!Held' = Buffer!Held
  BY <1>2, HeldUnchanged
<1>4. position = 0 \/ position > 0
  BY <1>1, HeldIs DEF BufferTyped
<1>5. 0 > 0 <=> FALSE
  OBVIOUS
<1>6. BufferTyped'
  <2>1. calls' \in Nat
    BY <1>1, <1>2 DEF BufferTyped
  <2>. QED BY <1>1, <1>2, <2>1 DEF BufferTyped, BufferSteps, BufferBytes
<1>7. PlacesKnown'
  <2>1. step' = "end" /\ kind = "all" => position = 0
    BY <1>2, <1>4
  <2>2. step' = "close" => ~writer /\ kind = "all"
    BY <1>1, <1>2, <1>5 DEF PlacesKnown
  <2>. QED BY <1>1, <1>2, <2>1, <2>2 DEF PlacesKnown
<1>8. ThrownKnown' /\ GoneKnown' /\ RoomKnown' /\ OrderKnown'
  BY <1>1, <1>2, <1>3 DEF ThrownKnown, GoneKnown, RoomKnown, OrderKnown
<1>. QED BY <1>6, <1>7, <1>8 DEF BufferInv

-----------------------------------------------------------------------------
(* The end of a buffer *)

\* The first part of what is held.
LEMMA HeldInParts ==
  ASSUME BufferTyped, position <= Buffer!Position
  PROVE  /\ Starts(SubSeq(memory, 1, position), Buffer!Held)
         /\ Len(SubSeq(memory, 1, position)) = position
         /\ SubSeq(memory, 1, position) \in Seq(BufferBytes)
<1>. DEFINE p == Buffer!Position
<1>1. p \in 0 .. Len(memory) /\ Len(memory) \in Nat /\ position \in 0 .. Len(memory) /\ memory \in Seq(BufferBytes)
  BY HeldIs DEF BufferTyped
<1>2. SubSeq(memory, 1, position) \in Seq(BufferBytes) /\ Len(SubSeq(memory, 1, position)) = position
  BY <1>1, CutInTwo
<1>3. SubSeq(memory, position + 1, p) \in Seq(BufferBytes)
  <2>1. position + 1 \in Int /\ p \in Int /\ \A i \in position + 1 .. p : memory[i] \in BufferBytes
    BY <1>1, ElementOfSeq
  <2>. QED BY <2>1, SubSeqProperties
<1>4. SubSeq(memory, 1, position) \o SubSeq(memory, position + 1, p) = SubSeq(memory, 1, p)
  <2>1. 1 \in 1 .. Len(memory) + 1 /\ position \in 1 - 1 .. Len(memory) /\ p \in position .. Len(memory)
    BY <1>1
  <2>. QED BY <1>1, <2>1, ConcatAdjacentSubSeq
<1>. QED BY <1>2, <1>3, <1>4 DEF Starts, Buffer!Held

\* A buffer that grows is gone: its bytes are out.
LEMMA GrownIsOut ==
  ASSUME BufferInv, kind = "dynamic", step = "idle", out' = SubSeq(memory, 1, position),
         writer => position <= ownPosition
  PROVE  /\ Starts(out', given) /\ (~writer => out' = given)
         /\ Len(given) - Len(out') <= Len(memory)
<1>1. BufferTyped /\ ~thrown /\ out = <<>> /\ pending = <<>>
  BY DEF BufferInv, PlacesKnown
<1>2. /\ position <= Buffer!Position /\ Buffer!Position \in 0 .. Len(memory) /\ Len(memory) \in Nat /\ position \in Nat
      /\ Buffer!Held \in Seq(BufferBytes) /\ Len(Buffer!Held) = Buffer!Position
  BY <1>1, HeldIs DEF Buffer!Position, BufferTyped
<1>3. given = Buffer!Held
  <2>1. out \o Buffer!Held = given
    BY <1>1, OrderIdle
  <2>. QED BY <1>1, <1>2, <2>1, ConcatEmptySeq
<1>4. ~writer => out' = Buffer!Held
  BY DEF Buffer!Held, Buffer!Position
<1>5. Starts(out', Buffer!Held) /\ Len(out') = position
  BY <1>1, <1>2, HeldInParts DEF Starts
<1>6. Buffer!Position - position <= Len(memory)
  BY <1>2
<1>. QED BY <1>2, <1>3, <1>4, <1>5, <1>6 DEF Starts

\* A buffer with a file is gone, and nothing is left that it knows of.
LEMMA WrittenIsOut ==
  ASSUME BufferInv, step \in {"idle", "end"}, ~thrown,
         kind \in {"once", "all"} => position = 0, kind # "dynamic"
  PROVE  /\ Starts(out, given)
         /\ ~writer /\ kind # "stdio" => out = given
         /\ Len(given) - Len(out) <= Len(memory)
<1>1. BufferTyped /\ PlacesKnown /\ pending = <<>> /\ out \in Seq(BufferBytes)
  BY DEF BufferInv, PlacesKnown, BufferTyped
<1>2. /\ Buffer!Position \in 0 .. Len(memory) /\ Len(memory) \in Nat
      /\ Buffer!Held \in Seq(BufferBytes) /\ Len(Buffer!Held) = Buffer!Position
      /\ Buffer!Position = 0 => Buffer!Held = <<>>
  BY <1>1, HeldIs
<1>3. out \o Buffer!Held = given
  BY <1>1, OrderIdle
<1>4. Len(given) - Len(out) <= Len(memory)
  <2>1. Len(given) = Len(out) + Len(Buffer!Held) /\ Len(out) \in Nat
    BY <1>1, <1>2, <1>3, ConcatProperties, LenProperties
  <2>. QED BY <1>2, <2>1
<1>5. ASSUME ~writer, kind # "stdio" PROVE out = given
  <2>1. kind \in {"once", "all"}
    BY <1>1, <1>5 DEF BufferTyped
  <2>2. position = 0
    BY <2>1
  <2>3. Buffer!Held = <<>>
    BY <1>2, <1>5, <2>2 DEF Buffer!Position
  <2>. QED BY <1>1, <1>3, <2>3, ConcatEmptySeq
<1>. QED BY <1>4, <1>5, HeldStarts

\* The destructors, and takeBytes()
LEMMA DestroyKept ==
  ASSUME BufferInv, Buffer!Destroy
  PROVE  BufferInv'
<1>1. BufferTyped /\ PlacesKnown /\ RoomKnown /\ OrderKnown /\ ThrownKnown /\ GoneKnown
  BY DEF BufferInv
<1>2. /\ step \in {"idle", "end"}
      /\ step' = (IF step = "idle" /\ kind \in {"once", "all"} /\ position > 0 THEN "destroy" ELSE "gone")
      /\ out' = (IF kind = "dynamic" THEN SubSeq(memory, 1, position) ELSE out)
      /\ thrown' = (thrown \/ Buffer!ClosedTooEarly)
      /\ UNCHANGED <<kind, writer, memory, capacity, position, ownPosition, pending, given, untaken, torn, calls>>
  BY DEF Buffer!Destroy, Buffer!use
<1>3. Buffer!Position' = Buffer!Position /\ Buffer!Held' = Buffer!Held
  BY <1>2, HeldUnchanged
<1>4. position \in Nat /\ (position > 0 <=> position # 0)
  BY <1>1, HeldIs DEF BufferTyped
<1>5. BufferTyped'
  <2>1. SubSeq(memory, 1, position) \in Seq(BufferBytes)
    BY <1>1, CutInTwo DEF BufferTyped
  <2>2. thrown' \in BOOLEAN
    BY <1>2
  <2>. QED BY <1>1, <1>2, <2>1, <2>2 DEF BufferTyped, BufferSteps, BufferBytes
<1>6. RoomKnown'
  BY <1>1, <1>2, <1>3 DEF RoomKnown
<1>7. out \in Seq(BufferBytes) /\ Buffer!Held \in Seq(BufferBytes)
  BY <1>1, HeldIs DEF BufferTyped
<1>8. CASE Buffer!ClosedTooEarly
  <2>1. step = "end" /\ kind = "once" /\ ~thrown /\ step' = "gone" /\ out' = out /\ thrown'
    BY <1>1, <1>2, <1>8 DEF Buffer!ClosedTooEarly, PlacesKnown
  <2>2. PlacesKnown'
    BY <1>1, <1>2, <2>1 DEF PlacesKnown
  <2>3. OrderKnown' /\ GoneKnown'
    BY <2>1 DEF OrderKnown, GoneKnown
  <2>4. Starts(out, given)
    BY <2>1, HeldStarts
  <2>5. ThrownKnown'
    BY <1>1, <1>2, <2>1, <2>4 DEF ThrownKnown, Starts
  <2>. QED BY <1>5, <1>6, <2>2, <2>3, <2>5 DEF BufferInv
<1>9. CASE ~Buffer!ClosedTooEarly
  <2>1. thrown' = thrown
    BY <1>1, <1>2, <1>9 DEF BufferTyped
  <2>2. PlacesKnown'
    BY <1>1, <1>2, <1>4, <2>1 DEF PlacesKnown
  <2>3. OrderKnown'
    BY <1>1, <1>2, <1>3, <2>1 DEF OrderKnown
  <2>4. ThrownKnown'
    <3>1. ASSUME thrown PROVE Starts(out \o Buffer!Held, given) /\ Starts(out, given) /\ out' = out
      <4>1. kind # "dynamic" /\ step # "gone"
        BY <1>1, <1>2, <3>1 DEF PlacesKnown
      <4>. QED BY <1>1, <1>2, <1>7, <3>1, <4>1, StartsTransitive DEF ThrownKnown
    <3>2. /\ untaken' # {} => kind' \in {"stdio", "once"}
          /\ torn' # 0 => kind' = "all" /\ thrown'
      BY <1>1, <1>2, <2>1 DEF ThrownKnown
    <3>3. ASSUME thrown'
          PROVE  /\ step' # "gone" => Starts(out' \o Buffer!Held', given')
                 /\ step' = "gone" => Starts(out', given')
      <4>1. thrown
        BY <2>1, <3>3
      <4>2. /\ Starts(out \o Buffer!Held, given) /\ Starts(out, given)
            /\ out' = out /\ Buffer!Held' = Buffer!Held /\ given' = given
        BY <1>2, <1>3, <3>1, <4>1
      <4>3. out' \o Buffer!Held' = out \o Buffer!Held
        BY <4>2
      <4>4. Starts(out' \o Buffer!Held', given')
        BY <4>2, <4>3
      <4>5. Starts(out', given')
        BY <4>2
      <4>. QED BY <4>4, <4>5
    <3>. QED BY <3>2, <3>3 DEF ThrownKnown, Starts
  <2>5. step' = "gone" /\ kind \in {"once", "all"} => position = 0
    BY <1>1, <1>2, <1>4, <1>9 DEF PlacesKnown, Buffer!ClosedTooEarly
  <2>6. ASSUME step' = "gone", ~thrown, writer => position <= ownPosition
        PROVE  /\ Starts(out', given)
               /\ ~writer /\ kind # "stdio" => out' = given
               /\ Len(given) - Len(out') <= Len(memory)
    <3>1. CASE kind = "dynamic"
      <4>1. step = "idle"
        BY <1>1, <1>2, <3>1 DEF PlacesKnown
      <4>. QED BY <1>2, <2>6, <3>1, <4>1, GrownIsOut
    <3>2. CASE kind # "dynamic"
      <4>1. out' = out
        BY <1>2, <3>2
      <4>. QED BY <1>2, <2>5, <2>6, <3>2, <4>1, WrittenIsOut
    <3>. QED BY <3>1, <3>2
  <2>7. GoneKnown'
    BY <1>2, <1>4, <2>1, <2>5, <2>6 DEF GoneKnown, Starts
  <2>. QED BY <1>5, <1>6, <2>2, <2>3, <2>4, <2>7 DEF BufferInv
<1>. QED BY <1>8, <1>9

-----------------------------------------------------------------------------
(* The theorem *)

\* A new buffer is empty.
LEMMA BufferStarts ==
  ASSUME Buffer!Init, calls = 0
  PROVE  BufferInv
<1>1. /\ kind \in Kinds /\ writer \in BOOLEAN /\ memory = <<>> /\ capacity = Capacity /\ position = 0 /\ ownPosition = 0
      /\ pending = <<>> /\ step = "idle" /\ given = <<>> /\ out = <<>> /\ thrown = FALSE
      /\ untaken = {} /\ torn = 0
  BY DEF Buffer!Init
<1>2. <<>> \in Seq(BufferBytes) /\ Len(<<>>) = 0 /\ <<>> \o <<>> = <<>>
  BY EmptySeq, ConcatEmptySeq
<1>3. Buffer!Position = 0
  BY <1>1 DEF Buffer!Position
<1>4. Buffer!Held = <<>>
  BY <1>3, SubSeqEmpty DEF Buffer!Held
<1>5. Capacity \in Nat \ {0} /\ Capacity <= Capacity /\ 0 < Capacity /\ 0 <= Capacity
  BY BufferNumbers
<1>6. BufferTyped
  <2>1. kind \in {"dynamic", "stdio", "once", "all"}
    BY <1>1, BufferNumbers
  <2>2. 0 \in 0 .. Len(memory)
    BY <1>1, <1>2
  <2>. QED BY <1>1, <1>2, <1>5, <2>1, <2>2 DEF BufferTyped, BufferSteps
<1>7. PlacesKnown /\ ThrownKnown /\ GoneKnown
  BY <1>1 DEF PlacesKnown, ThrownKnown, GoneKnown
<1>8. RoomKnown
  BY <1>1, <1>3, <1>5 DEF RoomKnown
<1>9. OrderKnown
  BY <1>1, <1>2, <1>4 DEF OrderKnown
<1>. QED BY <1>6, <1>7, <1>8, <1>9 DEF BufferInv

\* Every step keeps the invariant.
LEMMA EveryBufferStep ==
  ASSUME BufferInv, Buffer!Next
  PROVE  BufferInv'
<1>1. \A n \in Lengths : Buffer!Write(n) \/ Buffer!Put(n) => BufferInv'
  BY WriteKept, PutKept
<1>2. \A error \in BOOLEAN : \A n \in 0 .. Len(Buffer!Outgoing) : Buffer!WriteOut(n, error) => BufferInv'
  BY WriteOutKept
<1>3. Buffer!Copy \/ Buffer!Grow \/ Buffer!Flush \/ Buffer!Clear \/ Buffer!Close \/ Buffer!Destroy => BufferInv'
  BY CopyKept, GrowKept, FlushKept, ClearKept, CloseKept, DestroyKept
<1>. QED BY <1>1, <1>2, <1>3 DEF Buffer!Next

\* The invariant implies the properties.
LEMMA BufferImplied ==
  ASSUME BufferInv
  PROVE  Buffer!InOrder /\ Buffer!RoomLeft /\ Buffer!AllOut /\ Buffer!OnceOnly
<1>1. BufferTyped /\ PlacesKnown /\ RoomKnown /\ OrderKnown /\ ThrownKnown /\ GoneKnown
  BY DEF BufferInv
<1>2. out \in Seq(BufferBytes) /\ Buffer!Held \in Seq(BufferBytes) /\ out \o Buffer!Held \in Seq(BufferBytes)
  BY <1>1, HeldIs, ConcatProperties DEF BufferTyped
<1>3. Buffer!RoomLeft
  <2>1. capacity \in Nat /\ Buffer!Position \in Nat
    BY <1>1, HeldIs DEF BufferTyped
  <2>2. Buffer!Position < capacity => capacity - Buffer!Position > 0
    BY <2>1
  <2>. QED BY <1>1, <2>2 DEF Buffer!RoomLeft, RoomKnown, Buffer!Room
<1>4. Starts(out, given) => Buffer!Begins(out, given)
  BY <1>2, StartsBegins
<1>5. Starts(out \o Buffer!Held, given) => Buffer!Begins(out \o Buffer!Held, given)
  BY <1>2, StartsBegins
<1>6. Buffer!InOrder
  BY <1>1, <1>5 DEF Buffer!InOrder, OrderKnown, ThrownKnown
<1>7. Buffer!AllOut
  BY <1>1, <1>4 DEF Buffer!AllOut, GoneKnown, ThrownKnown
<1>8. Buffer!OnceOnly
  <2>1. ASSUME kind # "dynamic" PROVE Starts(out, given)
    <3>1. CASE ~thrown /\ step # "gone"
      BY <3>1, HeldStarts
    <3>2. CASE ~thrown /\ step = "gone"
      <4>1. writer => position <= ownPosition
        <5>1. ownPosition \in Nat /\ 0 <= ownPosition
          BY <1>1, HeldIs DEF BufferTyped
        <5>. QED BY <1>1, <2>1, <5>1 DEF PlacesKnown
      <4>. QED BY <1>1, <3>2, <4>1 DEF GoneKnown
    <3>3. CASE thrown
      BY <1>1, <1>2, <3>3, StartsTransitive DEF ThrownKnown
    <3>. QED BY <3>1, <3>2, <3>3
  <2>. QED BY <1>1, <1>4, <2>1 DEF Buffer!OnceOnly, ThrownKnown
<1>. QED BY <1>3, <1>6, <1>7, <1>8

\* The invariant stays when nothing of the buffer changes.
LEMMA BufferUnchanged ==
  ASSUME BufferInv, UNCHANGED <<buffersVars, calls>>
  PROVE  BufferInv'
<1>1. UNCHANGED <<kind, writer, memory, capacity, position, ownPosition, pending, step, given, out, untaken, torn, thrown, calls>>
  BY DEF buffersVars
<1>2. Buffer!Position' = Buffer!Position /\ Buffer!Held' = Buffer!Held
  BY <1>1, HeldUnchanged
<1>3. BufferTyped'
  BY <1>1 DEF BufferInv, BufferTyped, BufferSteps, BufferBytes
<1>4. PlacesKnown' /\ ThrownKnown' /\ GoneKnown'
  BY <1>1, <1>2 DEF BufferInv, PlacesKnown, ThrownKnown, GoneKnown, Starts
<1>5. RoomKnown' /\ OrderKnown'
  BY <1>1, <1>2 DEF BufferInv, RoomKnown, OrderKnown
<1>. QED BY <1>3, <1>4, <1>5 DEF BufferInv

\* A buffer gets rid of what is written to it in order and of nothing else, also
\* when a write throws; between calls there is room for a byte; a buffer that is
\* gone has got rid of all that it knew of, or a write has thrown; and only
\* FileBuffer and FileBuffer2 lose what the system does not take (Buffer.h,
\* Buffer.cpp, BufferWriter.h, FileBuffer2.h, FileBuffer3.h).
THEOREM BufferAlwaysRight == Spec => []BufferRight
<1>. DEFINE Inv == subject = "buffers" => BufferInv
<1>1. Init => Inv
  BY BufferStarts DEF Init, Buffer!Init
<1>2. Inv /\ [Next]_vars => Inv'
  <2>. SUFFICES ASSUME Inv, [Next]_vars, subject' = "buffers" PROVE BufferInv'
    OBVIOUS
  <2>1. CASE BufferStep
    BY <2>1, EveryBufferStep DEF BufferStep
  <2>2. CASE UNCHANGED vars
    BY <2>2, BufferUnchanged DEF vars
  <2>3. CASE HandlesStep \/ RegistryStep \/ MappedStep \/ PileStep \/ ConsoleStep \/ MemoryStep \/ CellsStep
    BY <2>3 DEF HandlesStep, RegistryStep, MappedStep, PileStep, ConsoleStep, MemoryStep, CellsStep
  <2>. QED BY <2>1, <2>2, <2>3 DEF Next
<1>3. Inv => BufferRight
  BY BufferImplied DEF BufferRight
<1>. QED BY <1>1, <1>2, <1>3, PTL DEF Spec

-----------------------------------------------------------------------------
(* File handles: the inductive invariant *)

LockRecords == [proc : Procs, slot : Slots, file : Nat, bytes : SUBSET Nat, shared : BOOLEAN]
TransferRecords ==
  [op : {"read", "write"}, all : BOOLEAN, at : BOOLEAN, slot : Slots, file : Nat, ofs : Nat,
   len : Nat \ {0}, total : Nat, buf : Seq(Nat), seen : Seq(SUBSET Nat)]

DiskTyped ==
  /\ platform \in {"posix", "windows"} /\ menu \in Menus
  /\ IsFiniteSet(DOMAIN disk) /\ DOMAIN disk \subseteq Nat /\ name \in {0} \cup DOMAIN disk
  /\ \A f \in DOMAIN disk : disk[f] \in Seq(Nat)
  /\ DOMAIN call = Procs /\ DOMAIN result = Procs
HandlesTyped ==
  /\ handles \in [Procs -> [Slots -> Handles!Opened \cup {NoFileOpen}]]
  /\ \A p \in Procs, s \in Slots : handles[p][s] # NoFileOpen => handles[p][s].file \in DOMAIN disk

\* What a transfer has moved it has seen in its place, and what is in its place
\* now it has seen.
MovedKnown(p, c) ==
  /\ c.op = "read" => Len(c.buf) = c.total /\ \A i \in 1 .. c.total : c.buf[i] \in c.seen[i]
  /\ c.op = "write" => \A i \in 1 .. c.total : Handles!Data(p, i) \in c.seen[i]
SeenKnown(c, content) ==
  \A i \in 1 .. c.len : c.ofs + i \in DOMAIN content => content[c.ofs + i] \in c.seen[i]
TransferFits(p, c, hs) ==
  /\ c \in TransferRecords /\ c.total < c.len /\ Len(c.seen) = c.len
  /\ hs[c.slot] # NoFileOpen /\ hs[c.slot].file = c.file /\ MovedKnown(p, c)
TransfersKnown ==
  \A p \in Procs :
    call[p] # NoCall => TransferFits(p, call[p], handles[p]) /\ SeenKnown(call[p], disk[call[p].file])

\* A lock that a process believes to have is that of an open handle.  Its bytes
\* are locked, unless the process has had two handles of the file at once.
Covered(b, ls) ==
  \A x \in b.bytes : \E l \in ls : /\ l.proc = b.proc /\ l.file = b.file /\ l.shared = b.shared
                                   /\ x \in l.bytes
LocksTyped == locks \subseteq LockRecords /\ believed \subseteq LockRecords
LocksKnown ==
  /\ \A b \in believed : handles[b.proc][b.slot] # NoFileOpen /\ handles[b.proc][b.slot].file = b.file
  /\ \A p \in Procs, s \in Slots, t \in Slots :
       s # t /\ handles[p][s] # NoFileOpen /\ handles[p][t] # NoFileOpen /\ handles[p][s].file = handles[p][t].file
         => <<p, handles[p][s].file>> \in shared
  /\ \A a \in locks, b \in locks : a.proc # b.proc => ~ Handles!Overlap(a, b)
  /\ platform = "windows" => believed \subseteq locks
  /\ platform = "posix" => \A b \in believed : <<b.proc, b.file>> \in shared \/ Covered(b, locks)

FilesInv ==
  /\ DiskTyped /\ HandlesTyped /\ TransfersKnown /\ LocksTyped /\ LocksKnown
  /\ Handles!TransferExact /\ Handles!OpenedAsAsked

-----------------------------------------------------------------------------
(* Locks *)

SameLock(a, b) == a.proc = b.proc /\ a.slot = b.slot /\ a.file = b.file /\ a.shared = b.shared

\* What remains of locks when bytes are taken out of some of them.
LEMMA WithoutIs ==
  ASSUME NEW ls \in SUBSET LockRecords, NEW mine \in SUBSET ls, NEW bytes \in SUBSET Nat
  PROVE  LET w == Handles!Without(ls, mine, bytes)
         IN  /\ w \subseteq LockRecords /\ ls \ mine \subseteq w
             /\ \A e \in w : e \in ls \ mine \/ \E o \in mine : SameLock(e, o) /\ e.bytes = o.bytes \ bytes
             /\ \A o \in mine : \A x \in o.bytes \ bytes : \E e \in w : SameLock(e, o) /\ x \in e.bytes
<1>. DEFINE cut(o) == [o EXCEPT !.bytes = @ \ bytes]
            w == Handles!Without(ls, mine, bytes)
<1>1. w = (ls \ mine) \cup {cut(o) : o \in {o \in mine : ~(o.bytes \subseteq bytes)}}
  BY DEF Handles!Without
<1>2. ASSUME NEW o \in mine PROVE cut(o) \in LockRecords /\ SameLock(cut(o), o) /\ cut(o).bytes = o.bytes \ bytes
  BY DEF LockRecords, SameLock
<1>. HIDE DEF cut, w
<1>3. w \subseteq LockRecords /\ ls \ mine \subseteq w
  BY <1>1, <1>2
<1>4. \A e \in w : e \in ls \ mine \/ \E o \in mine : SameLock(e, o) /\ e.bytes = o.bytes \ bytes
  BY <1>1, <1>2
<1>5. ASSUME NEW o \in mine, NEW x \in o.bytes \ bytes PROVE \E e \in w : SameLock(e, o) /\ x \in e.bytes
  <2>1. cut(o) \in w
    BY <1>1, <1>5
  <2>. QED BY <1>2, <1>5, <2>1
<1>. QED BY <1>3, <1>4, <1>5 DEF w

\* A process's locks without some bytes: nothing overlaps that did not, and what
\* is believed and was covered is covered.
LEMMA OwnLocksCut ==
  ASSUME FilesInv, NEW p \in Procs, NEW s \in Slots, Handles!IsOpen(p, s), NEW bytes \in SUBSET Nat,
         platform = "posix"
  PROVE  /\ Handles!OthersLocks(p, s, bytes) \subseteq LockRecords
         /\ Handles!OthersBeliefs(p, s, bytes) \subseteq LockRecords
         /\ \A e \in Handles!OthersLocks(p, s, bytes) : \E o \in locks : SameLock(e, o) /\ e.bytes \subseteq o.bytes
         /\ \A b \in Handles!OthersBeliefs(p, s, bytes) :
              /\ \E o \in believed : SameLock(b, o)
              /\ <<b.proc, b.file>> \in shared \/ Covered(b, Handles!OthersLocks(p, s, bytes))
<1>. DEFINE f == handles[p][s].file
            mine == {l \in locks : l.proc = p /\ l.file = f}
            mybs == {l \in believed : l.proc = p /\ l.slot = s}
            ls == Handles!OthersLocks(p, s, bytes)
            bs == Handles!OthersBeliefs(p, s, bytes)
<1>1. locks \in SUBSET LockRecords /\ believed \in SUBSET LockRecords /\ mine \in SUBSET locks /\ mybs \in SUBSET believed
  BY DEF FilesInv, LocksTyped
<1>2. /\ ls \subseteq LockRecords /\ locks \ mine \subseteq ls
      /\ \A e \in ls : e \in locks \ mine \/ \E o \in mine : SameLock(e, o) /\ e.bytes = o.bytes \ bytes
      /\ \A o \in mine : \A x \in o.bytes \ bytes : \E e \in ls : SameLock(e, o) /\ x \in e.bytes
  BY <1>1, WithoutIs DEF Handles!OthersLocks
<1>. HIDE DEF mybs
<1>3. /\ bs \subseteq LockRecords /\ believed \ mybs \subseteq bs
      /\ \A e \in bs : e \in believed \ mybs \/ \E o \in mybs : SameLock(e, o) /\ e.bytes = o.bytes \ bytes
  <2>1. bs = Handles!Without(believed, mybs, bytes)
    BY DEF Handles!OthersBeliefs, mybs
  <2>. HIDE DEF bs
  <2>. QED BY <1>1, <2>1, WithoutIs
<1>. USE DEF mybs
<1>. HIDE DEF ls, bs
<1>4. \A e \in ls : \E o \in locks : SameLock(e, o) /\ e.bytes \subseteq o.bytes
  BY <1>2 DEF SameLock
<1>5. /\ \A b \in believed : handles[b.proc][b.slot] # NoFileOpen /\ handles[b.proc][b.slot].file = b.file
      /\ \A t \in Slots : s # t /\ handles[p][t] # NoFileOpen /\ f = handles[p][t].file => <<p, f>> \in shared
      /\ \A b \in believed : <<b.proc, b.file>> \in shared \/ Covered(b, locks)
  BY DEF FilesInv, LocksKnown, Handles!IsOpen
<1>6. ASSUME NEW b \in believed \ mybs PROVE <<b.proc, b.file>> \in shared \/ Covered(b, ls)
  <2>1. b \in LockRecords
    BY <1>1
  <2>2. CASE b.proc = p /\ b.file = f
    <3>1. b.slot \in Slots /\ b.slot # s
      BY <2>1, <2>2, <1>6 DEF LockRecords
    <3>. QED BY <1>5, <2>2, <3>1
  <2>3. CASE ~(b.proc = p /\ b.file = f)
    <3>1. ASSUME Covered(b, locks) PROVE Covered(b, ls)
      <4>. SUFFICES ASSUME NEW x \in b.bytes
                    PROVE  \E l \in ls : l.proc = b.proc /\ l.file = b.file /\ l.shared = b.shared /\ x \in l.bytes
        BY DEF Covered
      <4>1. PICK l \in locks : l.proc = b.proc /\ l.file = b.file /\ l.shared = b.shared /\ x \in l.bytes
        BY <3>1 DEF Covered
      <4>2. l \in ls
        BY <1>2, <2>3, <4>1
      <4>. QED BY <4>1, <4>2
    <3>. QED BY <1>5, <3>1
  <2>. QED BY <2>2, <2>3
<1>7. ASSUME NEW b \in bs, NEW o \in mybs, SameLock(b, o), b.bytes = o.bytes \ bytes
      PROVE  <<b.proc, b.file>> \in shared \/ Covered(b, ls)
  <2>1. o.proc = p /\ o.file = f /\ o \in believed
    BY <1>5, <1>7
  <2>2. ASSUME Covered(o, locks) PROVE Covered(b, ls)
    <3>. SUFFICES ASSUME NEW x \in b.bytes
                  PROVE  \E l \in ls : l.proc = b.proc /\ l.file = b.file /\ l.shared = b.shared /\ x \in l.bytes
      BY DEF Covered
    <3>1. x \in o.bytes /\ x \notin bytes
      BY <1>7
    <3>2. PICK l \in locks : l.proc = o.proc /\ l.file = o.file /\ l.shared = o.shared /\ x \in l.bytes
      BY <2>2, <3>1 DEF Covered
    <3>3. l \in mine /\ x \in l.bytes \ bytes
      BY <2>1, <3>1, <3>2
    <3>4. PICK e \in ls : SameLock(e, l) /\ x \in e.bytes
      BY <1>2, <3>3
    <3>. QED BY <1>7, <3>2, <3>4 DEF SameLock
  <2>3. <<o.proc, o.file>> \in shared \/ Covered(o, locks)
    BY <1>5, <2>1
  <2>. QED BY <1>7, <2>2, <2>3 DEF SameLock
<1>8. ASSUME NEW b \in bs
      PROVE  (\E o \in believed : SameLock(b, o)) /\ (<<b.proc, b.file>> \in shared \/ Covered(b, ls))
  <2>1. CASE b \in believed \ mybs
    BY <1>6, <2>1 DEF SameLock
  <2>2. CASE b \notin believed \ mybs
    <3>1. PICK o \in mybs : SameLock(b, o) /\ b.bytes = o.bytes \ bytes
      BY <1>3, <1>8, <2>2
    <3>. QED BY <1>7, <3>1
  <2>. QED BY <2>1, <2>2
<1>. QED BY <1>2, <1>3, <1>4, <1>8 DEF ls, bs

\* Smaller locks overlap no more than those they are parts of.
LEMMA OverlapLess ==
  ASSUME NEW a, NEW b, NEW oa, NEW ob, SameLock(a, oa), SameLock(b, ob),
         a.bytes \subseteq oa.bytes, b.bytes \subseteq ob.bytes, Handles!Overlap(a, b)
  PROVE  Handles!Overlap(oa, ob) /\ Handles!Overlap(ob, oa)
BY DEF Handles!Overlap, SameLock

\* The lock of an open handle.
LEMMA LockIs ==
  ASSUME FilesInv, NEW p \in Procs, NEW s \in Slots, Handles!IsOpen(p, s), NEW bytes \in SUBSET Nat, NEW sh \in BOOLEAN
  PROVE  LET l == Handles!Lock(p, s, bytes, sh)
         IN  /\ l \in LockRecords /\ l.proc = p /\ l.slot = s /\ l.file = handles[p][s].file
             /\ l.bytes = bytes /\ l.shared = sh
<1>1. handles[p][s] \in Handles!Opened
  BY DEF FilesInv, HandlesTyped, Handles!IsOpen
<1>2. handles[p][s].file \in Nat
  BY <1>1 DEF Handles!Opened
<1>. QED BY <1>2 DEF LockRecords, Handles!Lock

\* POSIX: bytes are locked or unlocked through a handle.
LEMMA PosixLocks ==
  ASSUME FilesInv, NEW p \in Procs, NEW s \in Slots, Handles!IsOpen(p, s), NEW bytes \in SUBSET Nat,
         platform = "posix", UNCHANGED <<platform, handles, shared>>,
         NEW sh \in BOOLEAN, NEW new \in SUBSET {Handles!Lock(p, s, bytes, sh)},
         \A l \in new : ~ \E o \in locks : o.proc # p /\ Handles!Overlap(o, l),
         locks' = Handles!OthersLocks(p, s, bytes) \cup new,
         believed' = Handles!OthersBeliefs(p, s, bytes) \cup new
  PROVE  LocksTyped' /\ LocksKnown'
<1>. DEFINE ls == Handles!OthersLocks(p, s, bytes)
            bs == Handles!OthersBeliefs(p, s, bytes)
<1>1. /\ ls \subseteq LockRecords /\ bs \subseteq LockRecords
      /\ \A e \in ls : \E o \in locks : SameLock(e, o) /\ e.bytes \subseteq o.bytes
      /\ \A b \in bs : \E o \in believed : SameLock(b, o)
      /\ \A b \in bs : <<b.proc, b.file>> \in shared \/ Covered(b, ls)
  BY OwnLocksCut
<1>2. \A l \in new : /\ l \in LockRecords /\ l.proc = p /\ l.slot = s /\ l.file = handles[p][s].file
  BY LockIs
<1>3. locks' = ls \cup new /\ believed' = bs \cup new
  OBVIOUS
<1>. HIDE DEF ls, bs
<1>4. LocksTyped'
  BY <1>1, <1>2, <1>3 DEF LocksTyped
<1>5. \A b \in believed : handles[b.proc][b.slot] # NoFileOpen /\ handles[b.proc][b.slot].file = b.file
  BY DEF FilesInv, LocksKnown
<1>6. \A b \in believed' : handles'[b.proc][b.slot] # NoFileOpen /\ handles'[b.proc][b.slot].file = b.file
  <2>1. \A b \in bs : handles[b.proc][b.slot] # NoFileOpen /\ handles[b.proc][b.slot].file = b.file
    BY <1>1, <1>5 DEF SameLock
  <2>2. \A b \in new : handles[b.proc][b.slot] # NoFileOpen /\ handles[b.proc][b.slot].file = b.file
    BY <1>2 DEF Handles!IsOpen
  <2>. QED BY <1>3, <2>1, <2>2
<1>7. ASSUME NEW a \in locks', NEW b \in locks', a.proc # b.proc, Handles!Overlap(a, b) PROVE FALSE
  <2>1. \A c \in locks, d \in locks : c.proc # d.proc => ~ Handles!Overlap(c, d)
    BY DEF FilesInv, LocksKnown
  <2>2. CASE a \in ls /\ b \in ls
    <3>1. PICK oa \in locks : SameLock(a, oa) /\ a.bytes \subseteq oa.bytes
      BY <1>1, <2>2
    <3>2. PICK ob \in locks : SameLock(b, ob) /\ b.bytes \subseteq ob.bytes
      BY <1>1, <2>2
    <3>3. Handles!Overlap(oa, ob)
      BY <1>7, <3>1, <3>2, OverlapLess
    <3>. QED BY <1>7, <2>1, <3>1, <3>2, <3>3 DEF SameLock
  <2>3. ASSUME NEW c \in ls, NEW l \in new, c.proc # l.proc, Handles!Overlap(c, l) \/ Handles!Overlap(l, c) PROVE FALSE
    <3>1. PICK oc \in locks : SameLock(c, oc) /\ c.bytes \subseteq oc.bytes
      BY <1>1, <2>3
    <3>2. SameLock(l, l) /\ l.bytes \subseteq l.bytes
      BY DEF SameLock
    <3>3. Handles!Overlap(oc, l)
      BY <2>3, <3>1, <3>2, OverlapLess
    <3>4. oc.proc # p
      BY <1>2, <2>3, <3>1 DEF SameLock
    <3>. QED BY <3>3, <3>4
  <2>4. CASE a \in new /\ b \in new
    BY <1>2, <1>7, <2>4
  <2>. QED BY <1>3, <1>7, <2>2, <2>3, <2>4
<1>8. ASSUME NEW b \in believed' PROVE <<b.proc, b.file>> \in shared \/ Covered(b, locks')
  <2>1. CASE b \in bs
    <3>1. Covered(b, ls) => Covered(b, locks')
      BY <1>3 DEF Covered
    <3>. QED BY <1>1, <2>1, <3>1
  <2>2. CASE b \in new
    BY <1>3, <2>2 DEF Covered
  <2>. QED BY <1>3, <2>1, <2>2
<1>9. \A q \in Procs, t \in Slots, u \in Slots :
        t # u /\ handles[q][t] # NoFileOpen /\ handles[q][u] # NoFileOpen /\ handles[q][t].file = handles[q][u].file
          => <<q, handles[q][t].file>> \in shared
  BY DEF FilesInv, LocksKnown
<1>10. platform' # "windows"
  OBVIOUS
<1>. QED BY <1>4, <1>6, <1>7, <1>8, <1>9, <1>10 DEF LocksKnown

\* Windows: the same, the lock of a handle is apart from all others.
LEMMA WindowsLocks ==
  ASSUME FilesInv, NEW p \in Procs, NEW s \in Slots, platform = "windows",
         UNCHANGED <<platform, handles, shared>>,
         \/ \E bytes \in SUBSET Nat, sh \in BOOLEAN : \E l \in {Handles!Lock(p, s, bytes, sh)} :
              /\ Handles!IsOpen(p, s) /\ ~ \E o \in locks : Handles!Overlap(o, l)
              /\ locks' = locks \cup {l} /\ believed' = believed \cup {l}
         \/ \E l \in locks : locks' = locks \ {l} /\ believed' = believed \ {l}
  PROVE  LocksTyped' /\ LocksKnown'
<1>1. /\ locks \subseteq LockRecords /\ believed \subseteq locks
      /\ \A b \in believed : handles[b.proc][b.slot] # NoFileOpen /\ handles[b.proc][b.slot].file = b.file
      /\ \A q \in Procs, t \in Slots, u \in Slots :
           t # u /\ handles[q][t] # NoFileOpen /\ handles[q][u] # NoFileOpen /\ handles[q][t].file = handles[q][u].file
             => <<q, handles[q][t].file>> \in shared
      /\ \A a \in locks, b \in locks : a.proc # b.proc => ~ Handles!Overlap(a, b)
  BY DEF FilesInv, LocksKnown, LocksTyped
<1>2. ASSUME NEW l \in locks, locks' = locks \ {l}, believed' = believed \ {l} PROVE LocksTyped' /\ LocksKnown'
  BY <1>1, <1>2 DEF LocksTyped, LocksKnown
<1>3. ASSUME NEW bytes \in SUBSET Nat, NEW sh \in BOOLEAN, NEW l, l = Handles!Lock(p, s, bytes, sh),
             Handles!IsOpen(p, s), ~ \E o \in locks : Handles!Overlap(o, l),
             locks' = locks \cup {l}, believed' = believed \cup {l}
      PROVE  LocksTyped' /\ LocksKnown'
  <2>1. l \in LockRecords /\ l.proc = p /\ l.slot = s /\ l.file = handles[p][s].file
    <3>. DEFINE k == Handles!Lock(p, s, bytes, sh)
    <3>1. k \in LockRecords /\ k.proc = p /\ k.slot = s /\ k.file = handles[p][s].file
      BY <1>3, LockIs
    <3>. HIDE DEF k
    <3>2. l = k
      BY <1>3 DEF k
    <3>. QED BY <3>1, <3>2
  <2>2. \A o \in locks : ~ Handles!Overlap(o, l) /\ ~ Handles!Overlap(l, o)
    BY <1>3 DEF Handles!Overlap
  <2>3. handles'[p][s] # NoFileOpen
    BY <1>3 DEF Handles!IsOpen
  <2>. QED BY <1>1, <1>3, <2>1, <2>2, <2>3 DEF LocksTyped, LocksKnown
<1>. QED BY <1>2, <1>3

-----------------------------------------------------------------------------
(* Transfers *)

Shown(c, content) ==
  [i \in DOMAIN c.seen |-> c.seen[i] \cup {content[j] : j \in {c.ofs + i} \cap DOMAIN content}]

\* What a transfer in progress has seen after a step, or no transfer.
LEMMA WatchedIs ==
  ASSUME NEW p \in Procs, NEW cs, NEW d, cs[p] # NoCall
  PROVE  Handles!Watched(d, cs)[p] = [cs[p] EXCEPT !.seen = Shown(cs[p], d[cs[p].file])]
BY DEF Handles!Watched, Shown

\* A process without a transfer sees nothing.
LEMMA WatchedNone ==
  ASSUME NEW p \in Procs, NEW cs, NEW d, cs[p] = NoCall
  PROVE  Handles!Watched(d, cs)[p] = NoCall
BY DEF Handles!Watched

\* What a transfer has been shown.
LEMMA ShownIs ==
  ASSUME NEW c \in TransferRecords, Len(c.seen) = c.len, NEW content \in Seq(Nat)
  PROVE  LET w == [c EXCEPT !.seen = Shown(c, content)]
         IN  /\ w \in TransferRecords /\ Len(w.seen) = w.len /\ SeenKnown(w, content)
             /\ w.op = c.op /\ w.all = c.all /\ w.at = c.at /\ w.slot = c.slot /\ w.file = c.file
             /\ w.ofs = c.ofs /\ w.len = c.len /\ w.total = c.total /\ w.buf = c.buf
             /\ \A i \in 1 .. c.len : c.seen[i] \subseteq w.seen[i]
<1>. DEFINE w == [c EXCEPT !.seen = Shown(c, content)]
            sh == Shown(c, content)
<1>1. /\ c.seen \in Seq(SUBSET Nat) /\ c.len \in Nat \ {0} /\ c.ofs \in Nat
      /\ DOMAIN content = 1 .. Len(content) /\ \A j \in DOMAIN content : content[j] \in Nat
  BY DEF TransferRecords
<1>2. DOMAIN c.seen = 1 .. c.len /\ \A i \in 1 .. c.len : c.seen[i] \in SUBSET Nat
  BY <1>1
<1>3. \A i \in 1 .. c.len : /\ sh[i] = c.seen[i] \cup {content[j] : j \in {c.ofs + i} \cap DOMAIN content}
                            /\ sh[i] \in SUBSET Nat
  BY <1>1, <1>2 DEF Shown
<1>4. sh \in Seq(SUBSET Nat) /\ Len(sh) = c.len
  <2>1. sh \in [1 .. c.len -> SUBSET Nat]
    BY <1>2, <1>3 DEF Shown
  <2>2. sh \in Seq(SUBSET Nat)
    <3>. HIDE DEF sh
    <3>1. [i \in 1 .. c.len |-> sh[i]] \in Seq(SUBSET Nat)
      BY <1>1, <1>3
    <3>. QED BY <2>1, <3>1
  <2>3. DOMAIN sh = 1 .. Len(sh) /\ Len(sh) \in Nat /\ DOMAIN sh = 1 .. c.len
    BY <2>1, <2>2, LenProperties
  <2>. QED BY <1>1, <2>2, <2>3
<1>. HIDE DEF sh
<1>5. /\ w.op = c.op /\ w.all = c.all /\ w.at = c.at /\ w.slot = c.slot /\ w.file = c.file
      /\ w.ofs = c.ofs /\ w.len = c.len /\ w.total = c.total /\ w.buf = c.buf /\ w.seen = sh /\ w \in TransferRecords
  BY <1>4 DEF TransferRecords, sh
<1>6. SeenKnown(w, content)
  <2>. SUFFICES ASSUME NEW i \in 1 .. c.len, c.ofs + i \in DOMAIN content PROVE content[c.ofs + i] \in sh[i]
    BY <1>5 DEF SeenKnown
  <2>. QED BY <1>3
<1>. QED BY <1>3, <1>4, <1>5, <1>6

\* To be shown more changes nothing else.
LEMMA ShownFits ==
  ASSUME NEW p \in Procs, NEW c, NEW hs, TransferFits(p, c, hs), NEW content \in Seq(Nat)
  PROVE  LET w == [c EXCEPT !.seen = Shown(c, content)]
         IN  TransferFits(p, w, hs) /\ SeenKnown(w, content) /\ w.file = c.file
<1>. DEFINE w == [c EXCEPT !.seen = Shown(c, content)]
<1>1. c \in TransferRecords /\ Len(c.seen) = c.len
  BY DEF TransferFits
<1>2. /\ w \in TransferRecords /\ Len(w.seen) = w.len /\ SeenKnown(w, content)
      /\ w.op = c.op /\ w.slot = c.slot /\ w.file = c.file
      /\ w.ofs = c.ofs /\ w.len = c.len /\ w.total = c.total /\ w.buf = c.buf
      /\ \A i \in 1 .. c.len : c.seen[i] \subseteq w.seen[i]
  BY <1>1, ShownIs
<1>. HIDE DEF w
<1>3. c.total < c.len /\ c.total \in Nat /\ c.len \in Nat
  BY DEF TransferFits, TransferRecords
<1>4. MovedKnown(p, w)
  <2>1. MovedKnown(p, c)
    BY DEF TransferFits
  <2>2. \A i \in 1 .. c.total : i \in 1 .. c.len
    BY <1>3
  <2>. QED BY <1>2, <2>1, <2>2 DEF MovedKnown
<1>5. TransferFits(p, w, hs)
  BY <1>2, <1>3, <1>4 DEF TransferFits
<1>. QED BY <1>2, <1>5 DEF w

\* The transfers that are in progress after a step.
LEMMA TransfersAfter ==
  ASSUME HandlesTyped', \A f \in DOMAIN disk' : disk'[f] \in Seq(Nat),
         NEW cs, \A q \in Procs : cs[q] # NoCall => TransferFits(q, cs[q], handles'[q]),
         \A q \in Procs : call'[q] = NoCall \/ call'[q] = Handles!Watched(disk', cs)[q]
  PROVE  TransfersKnown'
<1>. SUFFICES ASSUME NEW q \in Procs, call'[q] # NoCall
              PROVE  TransferFits(q, call'[q], handles'[q]) /\ SeenKnown(call'[q], disk'[call'[q].file])
  BY DEF TransfersKnown
<1>1. cs[q] # NoCall /\ TransferFits(q, cs[q], handles'[q])
  BY WatchedNone
<1>2. disk'[cs[q].file] \in Seq(Nat)
  <2>1. cs[q].slot \in Slots /\ handles'[q][cs[q].slot] # NoFileOpen /\ handles'[q][cs[q].slot].file = cs[q].file
    BY <1>1 DEF TransferFits, TransferRecords
  <2>. QED BY <2>1 DEF HandlesTyped
<1>3. call'[q] = [cs[q] EXCEPT !.seen = Shown(cs[q], disk'[cs[q].file])]
  BY <1>1, WatchedIs
<1>. DEFINE c == cs[q]
            content == disk'[cs[q].file]
            w == [c EXCEPT !.seen = Shown(c, content)]
<1>4. TransferFits(q, w, handles'[q]) /\ SeenKnown(w, content) /\ w.file = c.file
  BY <1>1, <1>2, ShownFits, ZenonT(30)
<1>5. call'[q] = w /\ content = disk'[c.file]
  BY <1>3
<1>. HIDE DEF w, content, c
<1>. QED BY <1>4, <1>5

-----------------------------------------------------------------------------
(* Handles *)

\* What is said of locks depends on which handles are open, and on which files.
LEMMA LocksStay ==
  ASSUME FilesInv, UNCHANGED <<platform, locks, believed, shared>>,
         \A p \in Procs, s \in Slots : /\ handles'[p][s] # NoFileOpen <=> handles[p][s] # NoFileOpen
                                       /\ handles'[p][s].file = handles[p][s].file
  PROVE  LocksTyped' /\ LocksKnown'
<1>1. believed \subseteq LockRecords
  BY DEF FilesInv, LocksTyped
<1>2. \A b \in believed : b.proc \in Procs /\ b.slot \in Slots
  BY <1>1 DEF LockRecords
<1>. QED BY <1>2 DEF FilesInv, LocksTyped, LocksKnown, Covered

\* A process that has no transfer in progress may change its handles.
LEMMA OthersFit ==
  ASSUME FilesInv, NEW p \in Procs, call[p] = NoCall, \A q \in Procs : q # p => handles'[q] = handles[q]
  PROVE  \A q \in Procs : call[q] # NoCall => TransferFits(q, call[q], handles'[q])
BY DEF FilesInv, TransfersKnown

\* The result of a call.
LEMMA ResultsAfter ==
  ASSUME FilesInv, DOMAIN result' = Procs,
         NEW p \in Procs, \A q \in Procs : q # p => result'[q] = result[q],
         LET r == result'[p]
         IN  \/ r = NoCall
             \/ /\ r.op = "open"
                /\ r.mode.new => ~r.existed
                /\ r.mode.trunc \/ r.mode.new => r.empty
                /\ r.existed /\ ~r.mode.trunc => r.kept
                /\ ~r.existed => r.mode.create \/ r.mode.new
             \/ /\ r.op # "open"
                /\ r.ok /\ r.all => r.total = r.len
                /\ r.op = "read" => Len(r.buf) = r.total /\ \A i \in 1 .. r.total : r.buf[i] \in r.seen[i]
                /\ r.op = "write" /\ r.ok => \A i \in 1 .. r.total : Handles!Data(p, i) \in r.seen[i]
                /\ ~r.ok => r.why = "error" \/ r.total < r.len
  PROVE  Handles!TransferExact' /\ Handles!OpenedAsAsked'
BY DEF FilesInv, Handles!TransferExact, Handles!OpenedAsAsked, Handles!Data

-----------------------------------------------------------------------------
(* The calls *)

\* A name that refers to no file, a mode that wants one or none.
LEMMA OpenKept ==
  ASSUME FilesInv, NEW p \in Procs, NEW s \in Slots, NEW m \in Handles!Modes, Handles!Open(p, s, m)
  PROVE  FilesInv'
<1>. DEFINE d == Handles!Disposition(m)
            f == IF name = 0 THEN Handles!Cardinality(DOMAIN disk) + 1 ELSE name
<1>1. /\ DiskTyped /\ HandlesTyped /\ TransfersKnown /\ LocksTyped /\ LocksKnown
      /\ Handles!TransferExact /\ Handles!OpenedAsAsked
  BY DEF FilesInv
<1>2. /\ call[p] = NoCall /\ handles[p][s] = NoFileOpen
      /\ UNCHANGED <<platform, menu, locks, believed>>
  BY DEF Handles!Open, Handles!Calls, Handles!IsOpen
<1>3. /\ m.read \in BOOLEAN /\ m.write \in BOOLEAN /\ m.create \in BOOLEAN /\ m.new \in BOOLEAN /\ m.trunc \in BOOLEAN
  BY DEF Handles!Modes
<1>4. \/ Handles!Refused(m, d) /\ UNCHANGED <<name, disk, handles, call, shared>> /\ result' = [result EXCEPT ![p] = NoCall]
      \/ /\ ~ Handles!Refused(m, d)
         /\ name' = f
         /\ disk' = [g \in DOMAIN disk \cup {f} |-> IF g = f /\ (name = 0 \/ d.empties) THEN <<>> ELSE disk[g]]
         /\ handles' = [handles EXCEPT ![p][s] = Handles!Handle(f, m)]
         /\ call' = Handles!Watched(disk', call)
         /\ shared' = shared \cup {<<p, f>> : t \in {t \in Slots : Handles!IsOpen(p, t) /\ handles[p][t].file = f}}
         /\ result' = [result EXCEPT ![p] =
              [op |-> "open", mode |-> m, existed |-> name # 0,
               kept |-> name # 0 /\ disk'[f] = disk[f], empty |-> disk'[f] = <<>>]]
  <2>1. IF Handles!Refused(m, d)
        THEN UNCHANGED <<name, disk, handles, call, shared>> /\ result' = [result EXCEPT ![p] = NoCall]
        ELSE \E g \in {f} :
              /\ name' = g
              /\ disk' = [h \in DOMAIN disk \cup {g} |-> IF h = g /\ (name = 0 \/ d.empties) THEN <<>> ELSE disk[h]]
              /\ handles' = [handles EXCEPT ![p][s] = Handles!Handle(g, m)]
              /\ call' = Handles!Watched(disk', call)
              /\ shared' = shared \cup {<<p, g>> : t \in {t \in Slots : Handles!IsOpen(p, t) /\ handles[p][t].file = g}}
              /\ result' = [result EXCEPT ![p] =
                   [op |-> "open", mode |-> m, existed |-> name # 0,
                    kept |-> name # 0 /\ disk'[g] = disk[g], empty |-> disk'[g] = <<>>]]
    BY DEF Handles!Open
  <2>. HIDE DEF d, f
  <2>2. CASE Handles!Refused(m, d)
    BY <2>1, <2>2
  <2>3. CASE ~ Handles!Refused(m, d)
    BY <2>1, <2>3
  <2>. QED BY <2>2, <2>3
<1>5. CASE Handles!Refused(m, d) /\ UNCHANGED <<name, disk, handles, call, shared>> /\ result' = [result EXCEPT ![p] = NoCall]
  <2>1. DiskTyped' /\ HandlesTyped'
    BY <1>1, <1>2, <1>5 DEF DiskTyped, HandlesTyped
  <2>2. TransfersKnown'
    BY <1>1, <1>5 DEF TransfersKnown
  <2>3. LocksTyped' /\ LocksKnown'
    BY <1>2, <1>5, LocksStay
  <2>4. result'[p] = NoCall /\ DOMAIN result' = Procs /\ \A q \in Procs : q # p => result'[q] = result[q]
    BY <1>1, <1>5 DEF DiskTyped
  <2>5. Handles!TransferExact' /\ Handles!OpenedAsAsked'
    BY <2>4, ResultsAfter
  <2>. QED BY <2>1, <2>2, <2>3, <2>5 DEF FilesInv
<1>6. ASSUME ~ Handles!Refused(m, d), name' = f,
             disk' = [g \in DOMAIN disk \cup {f} |-> IF g = f /\ (name = 0 \/ d.empties) THEN <<>> ELSE disk[g]],
             handles' = [handles EXCEPT ![p][s] = Handles!Handle(f, m)],
             call' = Handles!Watched(disk', call),
             shared' = shared \cup {<<p, f>> : t \in {t \in Slots : Handles!IsOpen(p, t) /\ handles[p][t].file = f}},
             result' = [result EXCEPT ![p] =
               [op |-> "open", mode |-> m, existed |-> name # 0,
                kept |-> name # 0 /\ disk'[f] = disk[f], empty |-> disk'[f] = <<>>]]
      PROVE  FilesInv'
  <2>1. f \in Nat /\ (name # 0 => f \in DOMAIN disk)
    <3>1. Handles!Cardinality(DOMAIN disk) \in Nat
      <4>1. Cardinality(DOMAIN disk) \in Nat
        BY <1>1, FS_CardinalityType DEF DiskTyped
      <4>. QED BY <4>1 DEF Handles!Cardinality, Cardinality
    <3>. QED BY <1>1, <3>1 DEF DiskTyped
  <2>2. /\ DOMAIN disk' = DOMAIN disk \cup {f} /\ disk'[f] = (IF name = 0 \/ d.empties THEN <<>> ELSE disk[f])
        /\ \A g \in DOMAIN disk : g # f => disk'[g] = disk[g]
    BY <1>6
  <2>. HIDE DEF f
  <2>3. DiskTyped'
    <3>1. IsFiniteSet(DOMAIN disk')
      <4>1. IsFiniteSet(DOMAIN disk \cup {f})
        <5>1. IsFiniteSet(DOMAIN disk)
          BY <1>1 DEF DiskTyped
        <5>. QED BY <5>1, FS_AddElement
      <4>. QED BY <2>2, <4>1
    <3>2. \A g \in DOMAIN disk' : disk'[g] \in Seq(Nat)
      <4>1. <<>> \in Seq(Nat)
        OBVIOUS
      <4>. QED BY <1>1, <2>1, <2>2, <4>1 DEF DiskTyped
    <3>3. DOMAIN call' = Procs /\ DOMAIN result' = Procs
      BY <1>1, <1>6 DEF DiskTyped, Handles!Watched
    <3>. QED BY <1>1, <1>2, <1>6, <2>1, <2>2, <3>1, <3>2, <3>3 DEF DiskTyped
  <2>4. Handles!Handle(f, m) \in Handles!Opened /\ Handles!Handle(f, m).file = f
    BY <1>3, <2>1 DEF Handles!Handle, Handles!Opened
  <2>5. /\ handles'[p][s] = Handles!Handle(f, m)
        /\ \A t \in Slots : t # s => handles'[p][t] = handles[p][t]
        /\ \A q \in Procs : q # p => handles'[q] = handles[q]
    BY <1>1, <1>6 DEF HandlesTyped
  <2>6. HandlesTyped'
    <3>1. handles' \in [Procs -> [Slots -> Handles!Opened \cup {NoFileOpen}]]
      BY <1>1, <1>6, <2>4 DEF HandlesTyped
    <3>2. \A q \in Procs, t \in Slots : handles'[q][t] # NoFileOpen => handles'[q][t].file \in DOMAIN disk'
      BY <1>1, <2>2, <2>4, <2>5 DEF HandlesTyped
    <3>. QED BY <3>1, <3>2 DEF HandlesTyped
  <2>7. TransfersKnown'
    <3>1. \A q \in Procs : call[q] # NoCall => TransferFits(q, call[q], handles'[q])
      BY <1>2, <2>5, OthersFit
    <3>. QED BY <1>6, <2>3, <2>6, <3>1, TransfersAfter DEF DiskTyped
  <2>8. LocksTyped'
    BY <1>1, <1>2 DEF LocksTyped
  <2>9. LocksKnown'
    <3>0. shared \subseteq shared'
      BY <1>6
    <3>1. \A b \in believed : handles'[b.proc][b.slot] # NoFileOpen /\ handles'[b.proc][b.slot].file = b.file
      <4>1. \A b \in believed : b.proc \in Procs /\ b.slot \in Slots
        BY <1>1 DEF LocksTyped, LockRecords
      <4>. QED BY <1>1, <1>2, <2>5, <4>1 DEF LocksKnown
    <3>2. ASSUME NEW q \in Procs, NEW t \in Slots, NEW u \in Slots, t # u, handles'[q][t] # NoFileOpen,
                 handles'[q][u] # NoFileOpen, handles'[q][t].file = handles'[q][u].file
          PROVE  <<q, handles'[q][t].file>> \in shared'
      <4>1. CASE q = p /\ t = s
        <5>1. handles[p][u] # NoFileOpen /\ handles[p][u].file = f /\ handles'[q][t].file = f
          BY <2>4, <2>5, <3>2, <4>1
        <5>. QED BY <1>6, <4>1, <5>1 DEF Handles!IsOpen
      <4>2. CASE q = p /\ u = s
        <5>1. handles[p][t] # NoFileOpen /\ handles[p][t].file = f /\ handles'[q][t].file = f
          BY <2>4, <2>5, <3>2, <4>2
        <5>. QED BY <1>6, <4>2, <5>1 DEF Handles!IsOpen
      <4>3. CASE q # p \/ (t # s /\ u # s)
        BY <1>1, <2>5, <3>0, <3>2, <4>3 DEF LocksKnown
      <4>. QED BY <4>1, <4>2, <4>3
    <3>3. /\ \A a \in locks, b \in locks : a.proc # b.proc => ~ Handles!Overlap(a, b)
          /\ platform = "windows" => believed \subseteq locks
          /\ platform = "posix" => \A b \in believed : <<b.proc, b.file>> \in shared' \/ Covered(b, locks)
      BY <1>1, <3>0 DEF LocksKnown
    <3>. QED BY <1>2, <3>1, <3>2, <3>3 DEF LocksKnown
  <2>10. DOMAIN result' = Procs /\ \A q \in Procs : q # p => result'[q] = result[q]
    BY <1>1, <1>6 DEF DiskTyped
  <2>11. /\ result'[p].op = "open" /\ result'[p].mode = m /\ result'[p].existed = (name # 0)
         /\ result'[p].kept = (name # 0 /\ disk'[f] = disk[f]) /\ result'[p].empty = (disk'[f] = <<>>)
    BY <1>1, <1>6 DEF DiskTyped
  <2>12. /\ m.new => name = 0
         /\ m.trunc \/ m.new => disk'[f] = <<>>
         /\ name # 0 /\ ~m.trunc => disk'[f] = disk[f]
         /\ name = 0 => m.create \/ m.new
    BY <1>3, <1>6, <2>2 DEF Handles!Refused, Handles!Disposition
  <2>13. Handles!TransferExact' /\ Handles!OpenedAsAsked'
    BY <2>10, <2>11, <2>12, ResultsAfter
  <2>. QED BY <2>3, <2>6, <2>7, <2>8, <2>9, <2>13 DEF FilesInv
<1>. QED BY <1>4, <1>5, <1>6

\* Closing gives up the locks of the handle, and on POSIX those of the process's
\* other handles of the file.
LEMMA CloseHandleKept ==
  ASSUME FilesInv, NEW p \in Procs, NEW s \in Slots, Handles!Close(p, s)
  PROVE  FilesInv'
<1>1. /\ DiskTyped /\ HandlesTyped /\ TransfersKnown /\ LocksTyped /\ LocksKnown
      /\ Handles!TransferExact /\ Handles!OpenedAsAsked
  BY DEF FilesInv
<1>2. /\ call[p] = NoCall /\ handles[p][s] # NoFileOpen
      /\ handles' = [handles EXCEPT ![p][s] = NoFileOpen]
      /\ locks' = {l \in locks : l.proc # p \/ (IF platform = "posix" THEN l.file # handles[p][s].file ELSE l.slot # s)}
      /\ believed' = {l \in believed : l.proc # p \/ l.slot # s}
      /\ UNCHANGED <<platform, menu, name, disk, call, result, shared>>
  BY DEF Handles!Close, Handles!Calls, Handles!IsOpen
<1>3. /\ handles'[p][s] = NoFileOpen
      /\ \A t \in Slots : t # s => handles'[p][t] = handles[p][t]
      /\ \A q \in Procs : q # p => handles'[q] = handles[q]
  BY <1>1, <1>2 DEF HandlesTyped
<1>4. DiskTyped' /\ Handles!TransferExact' /\ Handles!OpenedAsAsked'
  BY <1>1, <1>2 DEF DiskTyped, Handles!TransferExact, Handles!OpenedAsAsked, Handles!Data
<1>5. HandlesTyped'
  <2>1. handles' \in [Procs -> [Slots -> Handles!Opened \cup {NoFileOpen}]]
    BY <1>1, <1>2 DEF HandlesTyped
  <2>2. \A q \in Procs, t \in Slots : handles'[q][t] # NoFileOpen => handles'[q][t].file \in DOMAIN disk'
    BY <1>1, <1>2, <1>3 DEF HandlesTyped
  <2>. QED BY <2>1, <2>2 DEF HandlesTyped
<1>6. TransfersKnown'
  BY <1>1, <1>2, <1>3 DEF TransfersKnown
<1>7. LocksTyped'
  BY <1>1, <1>2 DEF LocksTyped
<1>8. \A b \in believed' : b \in believed /\ b.proc \in Procs /\ b.slot \in Slots /\ (b.proc # p \/ b.slot # s)
  BY <1>1, <1>2 DEF LocksTyped, LockRecords
<1>9. \A b \in believed' : handles'[b.proc][b.slot] # NoFileOpen /\ handles'[b.proc][b.slot].file = b.file
  BY <1>1, <1>3, <1>8 DEF LocksKnown
<1>10. ASSUME NEW q \in Procs, NEW t \in Slots, NEW u \in Slots, t # u, handles'[q][t] # NoFileOpen,
              handles'[q][u] # NoFileOpen, handles'[q][t].file = handles'[q][u].file
       PROVE  <<q, handles'[q][t].file>> \in shared'
  BY <1>1, <1>2, <1>3, <1>10 DEF LocksKnown
<1>11. \A a \in locks', b \in locks' : a.proc # b.proc => ~ Handles!Overlap(a, b)
  BY <1>1, <1>2 DEF LocksKnown
<1>12. platform = "windows" => believed' \subseteq locks'
  BY <1>1, <1>2 DEF LocksKnown
<1>13. ASSUME platform = "posix", NEW b \in believed' PROVE <<b.proc, b.file>> \in shared \/ Covered(b, locks')
  <2>1. CASE b.proc = p /\ b.file = handles[p][s].file
    <3>1. b.slot # s /\ handles[p][b.slot] # NoFileOpen /\ handles[p][b.slot].file = b.file
      BY <1>1, <1>8, <2>1 DEF LocksKnown
    <3>. QED BY <1>1, <1>2, <1>8, <2>1, <3>1 DEF LocksKnown
  <2>2. CASE b.proc # p \/ b.file # handles[p][s].file
    <3>1. <<b.proc, b.file>> \in shared \/ Covered(b, locks)
      BY <1>1, <1>8, <1>13 DEF LocksKnown
    <3>. QED BY <1>2, <1>13, <2>2, <3>1 DEF Covered
  <2>. QED BY <2>1, <2>2
<1>14. LocksKnown'
  BY <1>2, <1>9, <1>10, <1>11, <1>12, <1>13 DEF LocksKnown
<1>. QED BY <1>4, <1>5, <1>6, <1>7, <1>14 DEF FilesInv

-----------------------------------------------------------------------------
\* The name is removed: handles keep the file.
LEMMA RemoveNameKept ==
  ASSUME FilesInv, Handles!RemoveName
  PROVE  FilesInv'
<1>1. name' = 0 /\ UNCHANGED <<platform, menu, disk, handles, locks, believed, call, result, shared>>
  BY DEF Handles!RemoveName
<1>2. LocksTyped' /\ LocksKnown'
  BY <1>1, LocksStay
<1>. QED BY <1>1, <1>2 DEF FilesInv, DiskTyped, HandlesTyped, TransfersKnown, Handles!TransferExact,
                            Handles!OpenedAsAsked, Handles!Data

\* A file of another size.
LEMMA ResizedIs ==
  ASSUME NEW content \in Seq(Nat), NEW n \in Nat
  PROVE  /\ Handles!Resized(content, n) \in Seq(Nat) /\ DOMAIN Handles!Resized(content, n) = 1 .. n
         /\ \A i \in 1 .. n : Handles!Resized(content, n)[i] \in Nat
<1>1. \A i \in 1 .. n : (IF i \in DOMAIN content THEN content[i] ELSE 0) \in Nat
  OBVIOUS
<1>. QED BY <1>1 DEF Handles!Resized

\* The file of a handle gets another size.
LEMMA SetSizeKept ==
  ASSUME FilesInv, NEW p \in Procs, NEW s \in Slots, NEW n \in Nat, Handles!SetSize(p, s, n)
  PROVE  FilesInv'
<1>. DEFINE f == handles[p][s].file
<1>1. /\ DiskTyped /\ HandlesTyped /\ TransfersKnown /\ Handles!TransferExact /\ Handles!OpenedAsAsked
      /\ f \in DOMAIN disk
      /\ disk' = [disk EXCEPT ![f] = Handles!Resized(@, n)]
      /\ call' = Handles!Watched(disk', call)
      /\ UNCHANGED <<platform, menu, name, handles, locks, believed, result, shared>>
  BY DEF FilesInv, HandlesTyped, Handles!SetSize, Handles!IsOpen
<1>2. DOMAIN disk' = DOMAIN disk /\ \A g \in DOMAIN disk : disk'[g] \in Seq(Nat)
  <2>1. disk[f] \in Seq(Nat)
    BY <1>1 DEF DiskTyped
  <2>2. Handles!Resized(disk[f], n) \in Seq(Nat)
    BY <2>1, ResizedIs
  <2>3. \A g \in DOMAIN disk : disk'[g] = IF g = f THEN Handles!Resized(disk[f], n) ELSE disk[g]
    BY <1>1
  <2>. HIDE DEF f
  <2>. QED BY <1>1, <2>2, <2>3 DEF DiskTyped
<1>3. DiskTyped'
  BY <1>1, <1>2 DEF DiskTyped, Handles!Watched
<1>4. HandlesTyped'
  BY <1>1, <1>2 DEF HandlesTyped
<1>5. TransfersKnown'
  <2>1. \A q \in Procs : call[q] # NoCall => TransferFits(q, call[q], handles'[q])
    BY <1>1 DEF TransfersKnown
  <2>. QED BY <1>1, <1>2, <1>4, <2>1, TransfersAfter
<1>6. LocksTyped' /\ LocksKnown'
  BY <1>1, LocksStay
<1>7. Handles!TransferExact' /\ Handles!OpenedAsAsked'
  BY <1>1 DEF Handles!TransferExact, Handles!OpenedAsAsked, Handles!Data
<1>. QED BY <1>3, <1>4, <1>5, <1>6, <1>7 DEF FilesInv

\* What locking and unlocking leave alone.
LEMMA OnlyLocks ==
  ASSUME FilesInv, LocksTyped' /\ LocksKnown',
         UNCHANGED <<platform, menu, name, disk, handles, call, result, shared>>
  PROVE  FilesInv'
BY DEF FilesInv, DiskTyped, HandlesTyped, TransfersKnown, Handles!TransferExact, Handles!OpenedAsAsked, Handles!Data

\* A lock is obtained.
LEMMA TryLockKept ==
  ASSUME FilesInv, NEW p \in Procs, NEW s \in Slots, NEW bytes \in SUBSET Nat, NEW sh \in BOOLEAN,
         Handles!TryLock(p, s, bytes, sh)
  PROVE  FilesInv'
<1>. DEFINE l == Handles!Lock(p, s, bytes, sh)
<1>1. /\ Handles!IsOpen(p, s)
      /\ platform = "posix" => /\ ~ \E o \in locks : o.proc # p /\ Handles!Overlap(o, l)
                               /\ locks' = Handles!OthersLocks(p, s, bytes) \cup {l}
                               /\ believed' = Handles!OthersBeliefs(p, s, bytes) \cup {l}
      /\ platform # "posix" => /\ ~ \E o \in locks : Handles!Overlap(o, l)
                               /\ locks' = locks \cup {l} /\ believed' = believed \cup {l}
      /\ UNCHANGED <<platform, menu, name, disk, handles, call, result, shared>>
  BY DEF Handles!TryLock, Handles!LockType
<1>2. CASE platform = "posix"
  <2>0. /\ {l} \in SUBSET {Handles!Lock(p, s, bytes, sh)}
        /\ \A k \in {l} : ~ \E o \in locks : o.proc # p /\ Handles!Overlap(o, k)
        /\ locks' = Handles!OthersLocks(p, s, bytes) \cup {l}
        /\ believed' = Handles!OthersBeliefs(p, s, bytes) \cup {l}
        /\ Handles!IsOpen(p, s) /\ UNCHANGED <<platform, handles, shared>>
    BY <1>1, <1>2
  <2>. HIDE DEF l
  <2>1. LocksTyped' /\ LocksKnown'
    BY <1>2, <2>0, PosixLocks
  <2>. QED BY <1>1, <2>1, OnlyLocks
<1>3. CASE platform = "windows"
  <2>1. LocksTyped' /\ LocksKnown'
    BY <1>1, <1>3, WindowsLocks
  <2>. QED BY <1>1, <2>1, OnlyLocks
<1>. QED BY <1>2, <1>3 DEF FilesInv, DiskTyped

\* Bytes are unlocked.
LEMMA TryUnlockKept ==
  ASSUME FilesInv, NEW p \in Procs, NEW s \in Slots, NEW bytes \in SUBSET Nat, Handles!TryUnlock(p, s, bytes)
  PROVE  FilesInv'
<1>1. /\ Handles!IsOpen(p, s)
      /\ platform = "posix" => /\ locks' = Handles!OthersLocks(p, s, bytes)
                               /\ believed' = Handles!OthersBeliefs(p, s, bytes)
      /\ platform # "posix" => \E l \in locks : locks' = locks \ {l} /\ believed' = believed \ {l}
      /\ UNCHANGED <<platform, menu, name, disk, handles, call, result, shared>>
  BY DEF Handles!TryUnlock
<1>2. CASE platform = "posix"
  <2>1. /\ locks' = Handles!OthersLocks(p, s, bytes) \cup {}
        /\ believed' = Handles!OthersBeliefs(p, s, bytes) \cup {}
    BY <1>1, <1>2
  <2>2. {} \in SUBSET {Handles!Lock(p, s, bytes, TRUE)}
    OBVIOUS
  <2>3. LocksTyped' /\ LocksKnown'
    BY <1>1, <1>2, <2>1, <2>2, PosixLocks
  <2>. QED BY <1>1, <2>3, OnlyLocks
<1>3. CASE platform = "windows"
  <2>1. LocksTyped' /\ LocksKnown'
    BY <1>1, <1>3, WindowsLocks
  <2>. QED BY <1>1, <2>1, OnlyLocks
<1>. QED BY <1>2, <1>3 DEF FilesInv, DiskTyped

\* A transfer begins: nothing is moved, and all that is in its place is seen.
LEMMA BeginKept ==
  ASSUME FilesInv, NEW p \in Procs, NEW s \in Slots, NEW t \in Handles!Transfers, Handles!BeginTransfer(p, s, t)
  PROVE  FilesInv'
<1>. DEFINE f == handles[p][s].file
            ofs == IF t.at THEN t.ofs ELSE handles[p][s].pos
            c == [op |-> t.op, all |-> t.all, at |-> t.at, slot |-> s, file |-> f, ofs |-> ofs,
                  len |-> t.len, total |-> 0, buf |-> <<>>, seen |-> [i \in 1 .. t.len |-> {}]]
            cs == [call EXCEPT ![p] = c]
<1>1. /\ DiskTyped /\ HandlesTyped /\ TransfersKnown /\ Handles!TransferExact /\ Handles!OpenedAsAsked
      /\ handles[p][s] # NoFileOpen /\ t.len > 0
      /\ UNCHANGED <<platform, menu, name, disk, handles, locks, believed, result, shared>>
  BY DEF FilesInv, Handles!BeginTransfer, Handles!IsOpen
<1>2. call' = Handles!Watched(disk, cs)
  BY DEF Handles!BeginTransfer
<1>3. /\ t.op \in {"read", "write"} /\ t.all \in BOOLEAN /\ t.at \in BOOLEAN /\ t.ofs \in Nat /\ t.len \in Nat \ {0}
      /\ f \in Nat /\ ofs \in Nat
  <2>1. handles[p][s] \in Handles!Opened
    BY <1>1 DEF HandlesTyped
  <2>. QED BY <1>1, <2>1 DEF Handles!Opened, Handles!Transfers
<1>. HIDE DEF f, ofs
<1>4. /\ [i \in 1 .. t.len |-> {}] \in Seq(SUBSET Nat) /\ Len([i \in 1 .. t.len |-> {}]) = t.len
      /\ <<>> \in Seq(Nat) /\ Len(<<>>) = 0
  BY <1>3
<1>5. TransferFits(p, c, handles[p])
  <2>1. c \in TransferRecords
    BY <1>3, <1>4 DEF TransferRecords
  <2>2. MovedKnown(p, c)
    BY <1>4 DEF MovedKnown
  <2>3. c.total < c.len /\ Len(c.seen) = c.len /\ c.slot = s /\ c.file = f
    BY <1>3, <1>4
  <2>. HIDE DEF c
  <2>. QED BY <1>1, <2>1, <2>2, <2>3 DEF TransferFits, f
<1>. HIDE DEF c
<1>6. \A q \in Procs : cs[q] # NoCall => TransferFits(q, cs[q], handles'[q])
  BY <1>1, <1>5 DEF DiskTyped, TransfersKnown
<1>7. HandlesTyped' /\ \A g \in DOMAIN disk' : disk'[g] \in Seq(Nat)
  BY <1>1 DEF HandlesTyped, DiskTyped
<1>8. TransfersKnown'
  BY <1>1, <1>2, <1>6, <1>7, TransfersAfter
<1>9. DiskTyped'
  BY <1>1, <1>2 DEF DiskTyped, Handles!Watched
<1>10. LocksTyped' /\ LocksKnown'
  BY <1>1, LocksStay
<1>11. Handles!TransferExact' /\ Handles!OpenedAsAsked'
  BY <1>1 DEF Handles!TransferExact, Handles!OpenedAsAsked, Handles!Data
<1>. QED BY <1>7, <1>8, <1>9, <1>10, <1>11 DEF FilesInv

-----------------------------------------------------------------------------
\* A transfer moves the position of its handle.
LEMMA PositionMoved ==
  ASSUME NEW h \in Handles!Opened, NEW n \in Nat
  PROVE  [h EXCEPT !.pos = @ + n] \in Handles!Opened /\ [h EXCEPT !.pos = @ + n].file = h.file
BY DEF Handles!Opened

\* The files and the transfers after a transfer of p has moved on, or ended.
LEMMA MovedOn ==
  ASSUME FilesInv, NEW p \in Procs, NEW c, call[p] # NoCall,
         DOMAIN disk' = DOMAIN disk, \A g \in DOMAIN disk : disk'[g] \in Seq(Nat),
         UNCHANGED <<platform, menu, name, locks, believed, shared>>,
         \/ handles' = handles
         \/ \E n \in Nat : handles' = [handles EXCEPT ![p][call[p].slot].pos = @ + n],
         \/ /\ call' = [Handles!Watched(disk', call) EXCEPT ![p] = NoCall]
            /\ DOMAIN result' = Procs /\ \A q \in Procs : q # p => result'[q] = result[q]
            /\ Handles!TransferExact' /\ Handles!OpenedAsAsked'
         \/ /\ call' = Handles!Watched(disk', [call EXCEPT ![p] = c]) /\ result' = result
            /\ TransferFits(p, c, handles[p])
  PROVE  FilesInv'
<1>. DEFINE s == call[p].slot
<1>1. /\ DiskTyped /\ HandlesTyped /\ TransfersKnown /\ Handles!TransferExact /\ Handles!OpenedAsAsked
      /\ s \in Slots /\ handles[p][s] # NoFileOpen
  BY DEF FilesInv, TransfersKnown, TransferFits, TransferRecords
<1>2. /\ handles' \in [Procs -> [Slots -> Handles!Opened \cup {NoFileOpen}]]
      /\ \A q \in Procs, t \in Slots : /\ handles'[q][t] # NoFileOpen <=> handles[q][t] # NoFileOpen
                                       /\ handles'[q][t].file = handles[q][t].file
  <2>1. CASE handles' = handles
    BY <1>1, <2>1 DEF HandlesTyped
  <2>2. ASSUME NEW n \in Nat, handles' = [handles EXCEPT ![p][s].pos = @ + n]
        PROVE  /\ handles' \in [Procs -> [Slots -> Handles!Opened \cup {NoFileOpen}]]
               /\ \A q \in Procs, t \in Slots : /\ handles'[q][t] # NoFileOpen <=> handles[q][t] # NoFileOpen
                                                /\ handles'[q][t].file = handles[q][t].file
    <3>. DEFINE h == [handles[p][s] EXCEPT !.pos = @ + n]
    <3>1. handles[p][s] \in Handles!Opened
      BY <1>1 DEF HandlesTyped
    <3>2. h \in Handles!Opened /\ h.file = handles[p][s].file
      BY <3>1, PositionMoved
    <3>3. NoFileOpen \notin Handles!Opened
      BY ServicesAssumption DEF Handles!FilesAssumption
    <3>4. handles' = [handles EXCEPT ![p] = [@ EXCEPT ![s] = h]]
      BY <1>1, <2>2 DEF HandlesTyped
    <3>. HIDE DEF h, s
    <3>5. handles' \in [Procs -> [Slots -> Handles!Opened \cup {NoFileOpen}]]
      BY <1>1, <3>2, <3>4 DEF HandlesTyped
    <3>6. \A q \in Procs, t \in Slots : handles'[q][t] = IF q = p /\ t = s THEN h ELSE handles[q][t]
      BY <1>1, <3>4 DEF HandlesTyped
    <3>. QED BY <1>1, <3>2, <3>3, <3>5, <3>6
  <2>. QED BY <2>1, <2>2
<1>3. HandlesTyped'
  BY <1>1, <1>2 DEF HandlesTyped
<1>4. DiskTyped'
  <2>1. DOMAIN call' = Procs
    BY DEF Handles!Watched
  <2>2. DOMAIN result' = Procs
    BY <1>1 DEF DiskTyped
  <2>. QED BY <1>1, <2>1, <2>2 DEF DiskTyped
<1>5. \A q \in Procs : call[q] # NoCall => TransferFits(q, call[q], handles'[q])
  BY <1>1, <1>2, ZenonT(30) DEF TransfersKnown, TransferFits, TransferRecords
<1>6. TransferFits(p, c, handles[p]) => TransferFits(p, c, handles'[p])
  BY <1>2 DEF TransferFits, TransferRecords
<1>7. TransfersKnown'
  <2>1. CASE call' = [Handles!Watched(disk', call) EXCEPT ![p] = NoCall]
    <3>1. \A q \in Procs : call'[q] = NoCall \/ call'[q] = Handles!Watched(disk', call)[q]
      BY <2>1, ZenonT(30) DEF Handles!Watched
    <3>. QED BY <1>3, <1>5, <3>1, TransfersAfter
  <2>2. CASE call' = Handles!Watched(disk', [call EXCEPT ![p] = c]) /\ TransferFits(p, c, handles[p])
    <3>. DEFINE cs == [call EXCEPT ![p] = c]
    <3>1. \A q \in Procs : cs[q] # NoCall => TransferFits(q, cs[q], handles'[q])
      BY <1>1, <1>5, <1>6, <2>2 DEF DiskTyped
    <3>2. \A q \in Procs : call'[q] = Handles!Watched(disk', cs)[q]
      BY <2>2
    <3>. HIDE DEF cs
    <3>. QED BY <1>3, <3>1, <3>2, TransfersAfter
  <2>. QED BY <2>1, <2>2
<1>8. LocksTyped' /\ LocksKnown'
  BY <1>2, LocksStay
<1>9. Handles!TransferExact' /\ Handles!OpenedAsAsked'
  BY <1>1, ZenonT(30) DEF Handles!TransferExact, Handles!OpenedAsAsked, Handles!Data
<1>. QED BY <1>3, <1>4, <1>7, <1>8, <1>9 DEF FilesInv

\* A transfer that ends returns what it has moved.
LEMMA Ended ==
  ASSUME FilesInv, NEW p \in Procs, NEW c, NEW ok \in BOOLEAN, NEW why,
         c.op \in {"read", "write"}, MovedKnown(p, c), ok /\ c.all => c.total = c.len,
         ~ok => why = "error" \/ c.total < c.len,
         Handles!Finish(p, c, ok, why)
  PROVE  /\ call' = [Handles!Watched(disk', call) EXCEPT ![p] = NoCall]
         /\ DOMAIN result' = Procs /\ \A q \in Procs : q # p => result'[q] = result[q]
         /\ Handles!TransferExact' /\ Handles!OpenedAsAsked'
<1>1. /\ call' = [Handles!Watched(disk', call) EXCEPT ![p] = NoCall]
      /\ result' = [result EXCEPT ![p] = [op |-> c.op, all |-> c.all, len |-> c.len, total |-> c.total,
                                          buf |-> c.buf, seen |-> c.seen, ok |-> ok, why |-> why]]
  BY DEF Handles!Finish
<1>2. DOMAIN result' = Procs /\ \A q \in Procs : q # p => result'[q] = result[q]
  BY <1>1 DEF FilesInv, DiskTyped
<1>3. /\ result'[p].op = c.op /\ result'[p].all = c.all /\ result'[p].len = c.len /\ result'[p].total = c.total
      /\ result'[p].buf = c.buf /\ result'[p].seen = c.seen /\ result'[p].ok = ok /\ result'[p].why = why
  BY <1>1 DEF FilesInv, DiskTyped
<1>4. Handles!TransferExact' /\ Handles!OpenedAsAsked'
  BY <1>2, <1>3, ResultsAfter DEF MovedKnown
<1>. QED BY <1>1, <1>2, <1>4

\* The end of the file.
LEMMA ReadNothingKept ==
  ASSUME FilesInv, NEW p \in Procs, Handles!ReadNothing(p)
  PROVE  FilesInv'
<1>1. /\ call[p] # NoCall /\ disk' = disk /\ Handles!Finish(p, call[p], ~call[p].all, "end")
      /\ UNCHANGED <<platform, menu, name, handles, locks, believed, shared>>
  BY DEF Handles!ReadNothing
<1>2. /\ call[p] \in TransferRecords /\ call[p].total < call[p].len /\ MovedKnown(p, call[p])
      /\ DiskTyped
  BY <1>1 DEF FilesInv, TransfersKnown, TransferFits
<1>3. call[p].op \in {"read", "write"} /\ call[p].all \in BOOLEAN
  BY <1>2 DEF TransferRecords
<1>4. /\ call' = [Handles!Watched(disk', call) EXCEPT ![p] = NoCall]
      /\ DOMAIN result' = Procs /\ \A q \in Procs : q # p => result'[q] = result[q]
      /\ Handles!TransferExact' /\ Handles!OpenedAsAsked'
  <2>. DEFINE c == call[p]
              ok == ~call[p].all
  <2>1. /\ c.op \in {"read", "write"} /\ ok \in BOOLEAN /\ (ok /\ c.all => c.total = c.len)
        /\ (~ok => "end" = "error" \/ c.total < c.len)
    BY <1>2, <1>3
  <2>2. MovedKnown(p, c) /\ Handles!Finish(p, c, ok, "end")
    BY <1>1, <1>2
  <2>. HIDE DEF c, ok
  <2>. QED BY <2>1, <2>2, Ended
<1>. QED BY <1>1, <1>2, <1>4, MovedOn DEF DiskTyped

\* An error.
LEMMA FailKept ==
  ASSUME FilesInv, NEW p \in Procs, Handles!Fail(p)
  PROVE  FilesInv'
<1>1. /\ call[p] # NoCall /\ disk' = disk /\ Handles!Finish(p, call[p], FALSE, "error")
      /\ UNCHANGED <<platform, menu, name, handles, locks, believed, shared>>
  BY DEF Handles!Fail
<1>2. call[p] \in TransferRecords /\ MovedKnown(p, call[p]) /\ DiskTyped
  BY <1>1 DEF FilesInv, TransfersKnown, TransferFits
<1>3. call[p].op \in {"read", "write"}
  BY <1>2 DEF TransferRecords
<1>4. /\ call' = [Handles!Watched(disk', call) EXCEPT ![p] = NoCall]
      /\ DOMAIN result' = Procs /\ \A q \in Procs : q # p => result'[q] = result[q]
      /\ Handles!TransferExact' /\ Handles!OpenedAsAsked'
  <2>. DEFINE c == call[p]
              ok == FALSE
  <2>1. /\ c.op \in {"read", "write"} /\ ok \in BOOLEAN /\ (ok /\ c.all => c.total = c.len)
        /\ (~ok => "error" = "error" \/ c.total < c.len)
    BY <1>2, <1>3
  <2>2. MovedKnown(p, c) /\ Handles!Finish(p, c, ok, "error")
    BY <1>1, <1>2
  <2>. HIDE DEF c, ok
  <2>. QED BY <2>1, <2>2, Ended
<1>. QED BY <1>1, <1>2, <1>4, MovedOn DEF DiskTyped

-----------------------------------------------------------------------------
\* Some bytes are moved.
LEMMA SomeMoved ==
  ASSUME FilesInv, NEW p \in Procs, NEW n \in Nat, NEW k \in TransferRecords, call[p] # NoCall,
         k.slot = call[p].slot, k.file = call[p].file, k.total <= k.len, Len(k.seen) = k.len, MovedKnown(p, k),
         DOMAIN disk' = DOMAIN disk, \A g \in DOMAIN disk : disk'[g] \in Seq(Nat),
         UNCHANGED <<platform, menu, name, locks, believed, shared>>,
         Handles!Moved(p, n, k)
  PROVE  FilesInv'
<1>1. k.op \in {"read", "write"} /\ k.all \in BOOLEAN /\ k.total \in Nat /\ k.len \in Nat
  BY DEF TransferRecords
<1>2. handles' = handles \/ \E m \in Nat : handles' = [handles EXCEPT ![p][call[p].slot].pos = @ + m]
  BY DEF Handles!Moved
<1>3. CASE ~k.all \/ k.total = k.len
  <2>1. Handles!Finish(p, k, TRUE, "moved")
    BY <1>3 DEF Handles!Moved
  <2>2. /\ call' = [Handles!Watched(disk', call) EXCEPT ![p] = NoCall]
        /\ DOMAIN result' = Procs /\ \A q \in Procs : q # p => result'[q] = result[q]
        /\ Handles!TransferExact' /\ Handles!OpenedAsAsked'
    <3>. DEFINE ok == TRUE
    <3>1. ok \in BOOLEAN /\ (ok /\ k.all => k.total = k.len) /\ (~ok => "moved" = "error" \/ k.total < k.len)
      BY <1>3
    <3>2. Handles!Finish(p, k, ok, "moved")
      BY <2>1
    <3>. HIDE DEF ok
    <3>. QED BY <1>1, <3>1, <3>2, Ended
  <2>. QED BY <1>2, <2>2, MovedOn
<1>4. CASE k.all /\ k.total # k.len
  <2>1. call' = Handles!Watched(disk', [call EXCEPT ![p] = k]) /\ result' = result
    BY <1>4 DEF Handles!Moved, Handles!Continue
  <2>2. TransferFits(p, k, handles[p])
    <3>1. handles[p][call[p].slot] # NoFileOpen /\ handles[p][call[p].slot].file = call[p].file
      BY DEF FilesInv, TransfersKnown, TransferFits
    <3>2. k.total < k.len
      BY <1>1, <1>4
    <3>. QED BY <3>1, <3>2 DEF TransferFits
  <2>. QED BY <1>2, <2>1, <2>2, MovedOn
<1>. QED BY <1>1, <1>3, <1>4

\* A transfer that has moved n bytes more.
ReadTo(c, n, b) == [c EXCEPT !.total = @ + n, !.buf = b]
WriteTo(c, n, w) == [c EXCEPT !.total = @ + n, !.seen = w]
Added(b, content, o, n) == b \o SubSeq(content, o + 1, o + n)

\* Reading changes the buffer, and how much was moved.
LEMMA ReadOn ==
  ASSUME NEW c \in TransferRecords, NEW n \in Nat, NEW b \in Seq(Nat)
  PROVE  LET k == ReadTo(c, n, b)
         IN  /\ k \in TransferRecords /\ k.slot = c.slot /\ k.file = c.file /\ k.op = c.op /\ k.len = c.len
             /\ k.total = c.total + n /\ k.buf = b /\ k.seen = c.seen
<1>1. c.total + n \in Nat
  BY DEF TransferRecords
<1>. QED BY <1>1 DEF TransferRecords, ReadTo

\* Writing changes what was seen, and how much was moved.
LEMMA WriteOn ==
  ASSUME NEW c \in TransferRecords, NEW n \in Nat, NEW w \in Seq(SUBSET Nat)
  PROVE  LET k == WriteTo(c, n, w)
         IN  /\ k \in TransferRecords /\ k.slot = c.slot /\ k.file = c.file /\ k.op = c.op /\ k.len = c.len
             /\ k.total = c.total + n /\ k.buf = c.buf /\ k.seen = w
<1>1. c.total + n \in Nat
  BY DEF TransferRecords
<1>. QED BY <1>1 DEF TransferRecords, WriteTo

\* A part of a file is added to what was read.
LEMMA ReadMore ==
  ASSUME NEW b \in Seq(Nat), NEW content \in Seq(Nat), NEW o \in Nat, NEW n \in Nat \ {0}, o + n <= Len(content)
  PROVE  LET new == Added(b, content, o, n)
         IN  /\ new \in Seq(Nat) /\ Len(new) = Len(b) + n
             /\ \A i \in 1 .. n : new[Len(b) + i] = content[o + i] /\ o + i \in DOMAIN content
<1>. DEFINE more == SubSeq(content, o + 1, o + n)
<1>1. Len(content) \in Nat /\ DOMAIN content = 1 .. Len(content) /\ Len(b) \in Nat
  BY LenProperties
<1>2. \A i \in 1 .. n : o + i \in DOMAIN content
  BY <1>1
<1>3. \A i \in o + 1 .. o + n : i \in 1 .. Len(content)
  BY <1>1
<1>4. more \in Seq(Nat) /\ Len(more) = n
  BY <1>1, <1>3, SubSeqProperties
<1>5. ASSUME NEW i \in 1 .. n PROVE more[i] = content[o + i]
  <2>1. i \in 1 .. (o + n) - (o + 1) + 1 /\ o + 1 + i - 1 = o + i
    OBVIOUS
  <2>. DEFINE first == o + 1
              last == o + n
  <2>2. first \in Int /\ last \in Int /\ \A j \in first .. last : j \in 1 .. Len(content)
    BY <1>3
  <2>. HIDE DEF first, last
  <2>3. \A k \in 1 .. last - first + 1 : SubSeq(content, first, last)[k] = content[first + k - 1]
    BY <2>2, SubSeqProperties
  <2>. HIDE DEF more
  <2>. QED BY <2>1, <2>3 DEF first, last, more
<1>. HIDE DEF more
<1>6. /\ b \o more \in Seq(Nat) /\ Len(b \o more) = Len(b) + n
      /\ \A i \in 1 .. Len(b) + n : (b \o more)[i] = IF i <= Len(b) THEN b[i] ELSE more[i - Len(b)]
  BY <1>4, ConcatProperties
<1>7. ASSUME NEW i \in 1 .. n PROVE (b \o more)[Len(b) + i] = more[i]
  <2>1. Len(b) + i \in 1 .. Len(b) + n /\ ~(Len(b) + i <= Len(b)) /\ Len(b) + i - Len(b) = i
    BY <1>1
  <2>. DEFINE k == Len(b) + i
  <2>2. k \in 1 .. Len(b) + n /\ ~(k <= Len(b)) /\ k - Len(b) = i
    BY <2>1
  <2>. HIDE DEF k
  <2>3. (b \o more)[k] = more[k - Len(b)]
    BY <1>6, <2>2
  <2>. QED BY <2>2, <2>3 DEF k
<1>9. Added(b, content, o, n) = b \o more
  BY DEF Added, more
<1>. QED BY <1>2, <1>5, <1>6, <1>7, <1>9

\* What was read before stays.
LEMMA ReadKeeps ==
  ASSUME NEW b \in Seq(Nat), NEW content \in Seq(Nat), NEW o \in Nat, NEW n \in Nat \ {0}, o + n <= Len(content),
         NEW i \in 1 .. Len(b)
  PROVE  Added(b, content, o, n)[i] = b[i]
<1>. DEFINE more == SubSeq(content, o + 1, o + n)
<1>1. Len(content) \in Nat /\ DOMAIN content = 1 .. Len(content) /\ Len(b) \in Nat
  BY LenProperties
<1>2. more \in Seq(Nat)
  BY <1>1, SubSeqProperties
<1>. HIDE DEF more
<1>3. \A j \in 1 .. Len(b) + Len(more) : (b \o more)[j] = IF j <= Len(b) THEN b[j] ELSE more[j - Len(b)]
  BY <1>2, ConcatProperties
<1>4. i \in 1 .. Len(b) + Len(more) /\ i <= Len(b)
  BY <1>1, <1>2
<1>5. Added(b, content, o, n) = b \o more
  BY DEF Added, more
<1>. QED BY <1>3, <1>4, <1>5

\* What a read adds to the buffer was in its place when it was read.
LEMMA ReadSomeKept ==
  ASSUME FilesInv, NEW p \in Procs, Handles!ReadSome(p)
  PROVE  FilesInv'
<1>. DEFINE c == call[p]
            content == disk[c.file]
<1>1. PICK n \in 1 .. Handles!Rest(c) :
        /\ c # NoCall /\ c.op = "read" /\ Handles!Place(c) + n <= Len(content) /\ disk' = disk
        /\ Handles!Moved(p, n, [c EXCEPT !.total = @ + n,
                                         !.buf = @ \o SubSeq(content, Handles!Place(c) + 1, Handles!Place(c) + n)])
        /\ UNCHANGED <<platform, menu, name, locks, believed, shared>>
  BY ZenonT(30) DEF Handles!ReadSome
<1>. DEFINE o == c.ofs + c.total
            new == Added(c.buf, content, o, n)
            k == ReadTo(c, n, new)
<1>2. /\ c \in TransferRecords /\ c.total < c.len /\ Len(c.seen) = c.len /\ MovedKnown(p, c)
      /\ SeenKnown(c, content)
      /\ DiskTyped /\ HandlesTyped /\ handles[p][c.slot] # NoFileOpen /\ handles[p][c.slot].file = c.file
  BY <1>1 DEF FilesInv, TransfersKnown, TransferFits
<1>3. /\ c.len \in Nat /\ c.total \in Nat /\ c.ofs \in Nat /\ c.buf \in Seq(Nat) /\ c.slot \in Slots
      /\ n \in Nat \ {0} /\ c.total + n <= c.len
  BY <1>1, <1>2 DEF TransferRecords, Handles!Rest
<1>4. content \in Seq(Nat)
  BY <1>2, <1>3 DEF HandlesTyped, DiskTyped
<1>5. Handles!Moved(p, n, k) /\ o + n <= Len(content)
  BY <1>1 DEF Handles!Place, ReadTo, Added
<1>6. o \in Nat
  BY <1>3
<1>. HIDE DEF content, c, o
<1>7. /\ new \in Seq(Nat) /\ Len(new) = Len(c.buf) + n
      /\ \A i \in 1 .. Len(c.buf) : new[i] = c.buf[i]
      /\ \A i \in 1 .. n : new[Len(c.buf) + i] = content[o + i] /\ o + i \in DOMAIN content
  <2>1. c.buf \in Seq(Nat) /\ n \in Nat \ {0}
    BY <1>3
  <2>2. o + n <= Len(content)
    BY <1>5
  <2>. DEFINE b == c.buf
  <2>3. b \in Seq(Nat) /\ new = Added(b, content, o, n)
    BY <2>1
  <2>. HIDE DEF b, new
  <2>4. /\ new \in Seq(Nat) /\ Len(new) = Len(b) + n
        /\ \A i \in 1 .. Len(b) : new[i] = b[i]
        /\ \A i \in 1 .. n : new[Len(b) + i] = content[o + i] /\ o + i \in DOMAIN content
    <3>1. Added(b, content, o, n) \in Seq(Nat)
      BY <1>4, <1>6, <2>1, <2>2, <2>3, ReadMore
    <3>2. Len(Added(b, content, o, n)) = Len(b) + n
      BY <1>4, <1>6, <2>1, <2>2, <2>3, ReadMore
    <3>3. ASSUME NEW i \in 1 .. Len(b) PROVE Added(b, content, o, n)[i] = b[i]
      BY <1>4, <1>6, <2>1, <2>2, <2>3, ReadKeeps
    <3>4. \A i \in 1 .. n : Added(b, content, o, n)[Len(b) + i] = content[o + i] /\ o + i \in DOMAIN content
      BY <1>4, <1>6, <2>1, <2>2, <2>3, ReadMore
    <3>. QED BY <2>3, <3>1, <3>2, <3>3, <3>4
  <2>. QED BY <2>4 DEF b
<1>. HIDE DEF new
<1>8. /\ k \in TransferRecords /\ k.slot = c.slot /\ k.file = c.file /\ k.op = c.op /\ k.len = c.len
      /\ k.total = c.total + n /\ k.buf = new /\ k.seen = c.seen /\ c.op = "read"
  <2>1. c \in TransferRecords /\ n \in Nat /\ new \in Seq(Nat)
    BY <1>2, <1>3, <1>7
  <2>2. c.op = "read"
    BY <1>1
  <2>. QED BY <2>1, <2>2, ReadOn
<1>. HIDE DEF k
<1>9. MovedKnown(p, k)
  <2>1. Len(c.buf) = c.total /\ \A i \in 1 .. c.total : c.buf[i] \in c.seen[i]
    BY <1>1, <1>2 DEF MovedKnown, c
  <2>2. Len(k.buf) = k.total
    BY <1>7, <1>8, <2>1
  <2>3. ASSUME NEW i \in 1 .. k.total PROVE k.buf[i] \in k.seen[i]
    <3>1. CASE i <= c.total
      BY <1>3, <1>7, <1>8, <2>1, <2>3, <3>1
    <3>2. CASE i > c.total
      <4>. DEFINE j == i - c.total
      <4>0. i \in Nat /\ i > c.total /\ i <= c.total + n
        BY <1>3, <1>8, <2>3, <3>2
      <4>1. j \in 1 .. n /\ c.total + j = i /\ o + j = c.ofs + i /\ i \in 1 .. c.len
        BY <1>3, <4>0 DEF o
      <4>. HIDE DEF j
      <4>2. new[c.total + j] = content[o + j] /\ o + j \in DOMAIN content
        BY <1>7, <2>1, <4>1
      <4>3. content[c.ofs + i] \in c.seen[i]
        BY <1>2, <4>1, <4>2 DEF SeenKnown
      <4>. QED BY <1>8, <4>1, <4>2, <4>3
    <3>. QED BY <1>3, <1>8, <2>3, <3>1, <3>2
  <2>. QED BY <1>8, <2>2, <2>3 DEF MovedKnown
<1>10. k.total <= k.len /\ Len(k.seen) = k.len
  BY <1>2, <1>3, <1>8
<1>11. DOMAIN disk' = DOMAIN disk /\ \A g \in DOMAIN disk : disk'[g] \in Seq(Nat)
  BY <1>1, <1>2 DEF DiskTyped
<1>. QED BY <1>1, <1>3, <1>5, <1>8, <1>9, <1>10, <1>11, SomeMoved DEF c

\* The greater of two numbers.
LEMMA GreaterIs ==
  ASSUME NEW a \in Nat, NEW b \in Nat
  PROVE  Handles!Farther(a, b) \in Nat /\ a <= Handles!Farther(a, b) /\ b <= Handles!Farther(a, b)
BY DEF Handles!Farther

\* What a write has moved is in its place in the file, and so it is seen.
LEMMA WriteSomeKept ==
  ASSUME FilesInv, NEW p \in Procs, Handles!WriteSome(p)
  PROVE  FilesInv'
<1>. DEFINE c == call[p]
            content == disk[c.file]
            Size(n) == Handles!Farther(Len(content), Handles!Place(c) + n)
            Put(n) == [i \in DOMAIN Handles!Resized(content, Size(n)) |->
                         IF i \in Handles!Place(c) + 1 .. Handles!Place(c) + n
                         THEN Handles!Data(p, c.total + i - Handles!Place(c))
                         ELSE Handles!Resized(content, Size(n))[i]]
<1>1. /\ c \in TransferRecords /\ c.total < c.len /\ Len(c.seen) = c.len /\ MovedKnown(p, c) /\ c # NoCall
      /\ DiskTyped /\ HandlesTyped /\ handles[p][c.slot] # NoFileOpen /\ handles[p][c.slot].file = c.file
      /\ c.op = "write"
  BY DEF FilesInv, TransfersKnown, TransferFits, Handles!WriteSome
<1>2. c.slot \in Slots /\ c.file \in DOMAIN disk
  BY <1>1 DEF HandlesTyped, TransferRecords
<1>3. PICK n \in 1 .. Handles!Rest(c) :
        /\ disk' = [disk EXCEPT ![c.file] = Put(n)]
        /\ Handles!Moved(p, n, [c EXCEPT !.total = @ + n, !.seen = Handles!Watched(disk', call)[p].seen])
        /\ UNCHANGED <<platform, menu, name, locks, believed, shared>>
  BY <1>2, ZenonT(30) DEF Handles!WriteSome
<1>0. n \in 1 .. Handles!Rest(c)
  OBVIOUS
<1>4. /\ c.len \in Nat /\ c.total \in Nat /\ c.ofs \in Nat
      /\ n \in Nat \ {0} /\ c.total + n <= c.len /\ Handles!Place(c) = c.ofs + c.total
  <2>. HIDE DEF c
  <2>. QED BY <1>1, <1>0 DEF TransferRecords, Handles!Rest, Handles!Place
<1>5. content \in Seq(Nat) /\ Len(content) \in Nat
  BY <1>1, <1>2 DEF DiskTyped
<1>. DEFINE w == [c EXCEPT !.seen = Shown(c, Put(n))]
            k == WriteTo(c, n, w.seen)
<1>6. /\ Put(n) \in Seq(Nat)
      /\ \A i \in c.ofs + c.total + 1 .. c.ofs + c.total + n :
           i \in DOMAIN Put(n) /\ Put(n)[i] = Handles!Data(p, c.total + i - (c.ofs + c.total))
  <2>. DEFINE size == Size(n)
  <2>1. size \in Nat /\ c.ofs + c.total + n <= size
    <3>1. c.ofs + c.total + n \in Nat
      BY <1>4
    <3>2. /\ Handles!Farther(Len(content), c.ofs + c.total + n) \in Nat
          /\ c.ofs + c.total + n <= Handles!Farther(Len(content), c.ofs + c.total + n)
      BY <1>5, <3>1, GreaterIs
    <3>. QED BY <1>4, <3>2
  <2>. HIDE DEF size
  <2>2. /\ DOMAIN Handles!Resized(content, size) = 1 .. size
        /\ \A i \in 1 .. size : Handles!Resized(content, size)[i] \in Nat
    BY <1>5, <2>1, ResizedIs
  <2>3. p \in Nat
    BY ServicesAssumption DEF Handles!FilesAssumption
  <2>. DEFINE e(i) == IF i \in c.ofs + c.total + 1 .. c.ofs + c.total + n
                      THEN Handles!Data(p, c.total + i - (c.ofs + c.total))
                      ELSE Handles!Resized(content, size)[i]
  <2>4. ASSUME NEW i \in 1 .. size PROVE e(i) \in Nat
    <3>1. CASE i \in c.ofs + c.total + 1 .. c.ofs + c.total + n
      <4>1. c.total + i - (c.ofs + c.total) \in Nat
        BY <1>4, <3>1
      <4>2. Handles!Data(p, c.total + i - (c.ofs + c.total)) \in Nat
        BY <2>3, <4>1 DEF Handles!Data
      <4>. QED BY <3>1, <4>2
    <3>2. CASE i \notin c.ofs + c.total + 1 .. c.ofs + c.total + n
      BY <2>2, <3>2
    <3>. QED BY <3>1, <3>2
  <2>5. Put(n) = [i \in 1 .. size |-> e(i)]
    BY <1>4, <2>2 DEF size
  <2>6. \A i \in c.ofs + c.total + 1 .. c.ofs + c.total + n : i \in 1 .. size
    BY <1>4, <2>1
  <2>. HIDE DEF Put
  <2>7. \A i \in 1 .. size : Put(n)[i] = e(i)
    BY <2>5
  <2>8. DOMAIN Put(n) = 1 .. size
    BY <2>5
  <2>9. Put(n) \in Seq(Nat)
    <3>. HIDE DEF e
    <3>. QED BY <2>1, <2>4, <2>5
  <2>. QED BY <2>6, <2>7, <2>8, <2>9
<1>. HIDE DEF Put
<1>7. disk'[c.file] = Put(n) /\ DOMAIN disk' = DOMAIN disk /\ \A g \in DOMAIN disk : disk'[g] \in Seq(Nat)
  BY <1>1, <1>2, <1>3, <1>6 DEF DiskTyped
<1>8. Handles!Watched(disk', call)[p] = w
  BY <1>1, <1>7, WatchedIs
<1>9. Handles!Moved(p, n, k)
  BY <1>3, <1>8 DEF WriteTo
<1>10. /\ w \in TransferRecords /\ Len(w.seen) = w.len /\ SeenKnown(w, Put(n))
       /\ w.ofs = c.ofs /\ w.len = c.len /\ w.total = c.total
       /\ \A i \in 1 .. c.len : c.seen[i] \subseteq w.seen[i]
  BY <1>1, <1>6, ShownIs
<1>. HIDE DEF w
<1>11. w.seen \in Seq(SUBSET Nat) /\ c.op = "write"
  BY <1>1, <1>10 DEF TransferRecords
<1>. HIDE DEF c
<1>12. /\ k \in TransferRecords /\ k.slot = c.slot /\ k.file = c.file /\ k.op = "write" /\ k.len = c.len
       /\ k.total = c.total + n /\ k.seen = w.seen
  BY <1>1, <1>4, <1>11, WriteOn, ZenonT(30)
<1>. HIDE DEF k
<1>13. MovedKnown(p, k)
  <2>1. \A i \in 1 .. c.total : Handles!Data(p, i) \in c.seen[i]
    BY <1>1 DEF MovedKnown
  <2>2. ASSUME NEW i \in 1 .. k.total PROVE Handles!Data(p, i) \in k.seen[i]
    <3>1. CASE i <= c.total
      BY <1>4, <1>10, <1>12, <2>1, <2>2, <3>1
    <3>2. CASE i > c.total
      <4>1. /\ c.ofs + i \in c.ofs + c.total + 1 .. c.ofs + c.total + n /\ i \in 1 .. c.len
            /\ c.total + (c.ofs + i) - (c.ofs + c.total) = i
        BY <1>4, <1>12, <2>2, <3>2
      <4>2. c.ofs + i \in DOMAIN Put(n) /\ Put(n)[c.ofs + i] = Handles!Data(p, i)
        BY <1>6, <4>1
      <4>. QED BY <1>10, <1>12, <4>1, <4>2 DEF SeenKnown
    <3>. QED BY <1>4, <1>12, <2>2, <3>1, <3>2
  <2>. QED BY <1>12, <2>2 DEF MovedKnown
<1>14. k.total <= k.len /\ Len(k.seen) = k.len
  BY <1>4, <1>10, <1>12
<1>. QED BY <1>1, <1>3, <1>4, <1>7, <1>9, <1>12, <1>13, <1>14, SomeMoved DEF c

-----------------------------------------------------------------------------
\* The invariant holds at first.
LEMMA FilesStart ==
  ASSUME Handles!Init
  PROVE  FilesInv
<1>1. /\ platform \in {"posix", "windows"} /\ menu \in Menus /\ name \in {0, 1}
      /\ disk = [f \in {name} \ {0} |-> <<0>>]
      /\ handles = [p \in Procs |-> [s \in Slots |-> NoFileOpen]]
      /\ locks = {} /\ believed = {} /\ shared = {}
      /\ call = [p \in Procs |-> NoCall] /\ result = [p \in Procs |-> NoCall]
  BY ServicesAssumption DEF Handles!Init, Handles!FilesAssumption
<1>2. DiskTyped
  <2>1. IsFiniteSet({name} \ {0})
    BY FS_Singleton, FS_Subset
  <2>2. <<0>> \in Seq(Nat)
    OBVIOUS
  <2>. QED BY <1>1, <2>1, <2>2 DEF DiskTyped
<1>3. HandlesTyped /\ TransfersKnown /\ LocksTyped /\ LocksKnown
  BY <1>1 DEF HandlesTyped, TransfersKnown, LocksTyped, LocksKnown
<1>4. Handles!TransferExact /\ Handles!OpenedAsAsked
  BY <1>1 DEF Handles!TransferExact, Handles!OpenedAsAsked
<1>. QED BY <1>2, <1>3, <1>4 DEF FilesInv

\* Every call keeps the invariant.
LEMMA FilesSteps ==
  ASSUME FilesInv, Handles!Next
  PROVE  FilesInv'
<1>1. /\ menu.modes \subseteq Handles!Modes /\ menu.transfers \subseteq Handles!Transfers
      /\ menu.regions \subseteq SUBSET Nat /\ menu.sizes \subseteq Nat
      /\ \A p \in Procs : menu.slots[p] \subseteq Slots
  BY ServicesAssumption DEF FilesInv, DiskTyped, Handles!FilesAssumption
<1>2. ASSUME NEW p \in Procs, NEW s \in Slots, NEW m \in Handles!Modes, Handles!Open(p, s, m) PROVE FilesInv'
  BY <1>2, OpenKept
<1>3. ASSUME NEW p \in Procs, NEW s \in Slots, Handles!Close(p, s) PROVE FilesInv'
  BY <1>3, CloseHandleKept
<1>4. ASSUME NEW p \in Procs, NEW s \in Slots, NEW n \in Nat, Handles!SetSize(p, s, n) PROVE FilesInv'
  BY <1>4, SetSizeKept
<1>5. ASSUME NEW p \in Procs, NEW s \in Slots, NEW r \in SUBSET Nat, NEW sh \in BOOLEAN, Handles!TryLock(p, s, r, sh)
      PROVE  FilesInv'
  BY <1>5, TryLockKept
<1>6. ASSUME NEW p \in Procs, NEW s \in Slots, NEW r \in SUBSET Nat, Handles!TryUnlock(p, s, r) PROVE FilesInv'
  BY <1>6, TryUnlockKept
<1>7. ASSUME NEW p \in Procs, NEW s \in Slots, NEW t \in Handles!Transfers, Handles!BeginTransfer(p, s, t) PROVE FilesInv'
  BY <1>7, BeginKept
<1>8. ASSUME NEW p \in Procs, NEW s \in menu.slots[p],
             \/ \E m \in menu.modes : Handles!Open(p, s, m)
             \/ Handles!Close(p, s)
             \/ \E n \in menu.sizes : Handles!SetSize(p, s, n)
             \/ \E r \in menu.regions, sh \in BOOLEAN : Handles!TryLock(p, s, r, sh)
             \/ \E r \in menu.regions : Handles!TryUnlock(p, s, r)
             \/ \E t \in menu.transfers : Handles!BeginTransfer(p, s, t)
      PROVE  FilesInv'
  <2>1. s \in Slots
    BY <1>1
  <2>2. CASE \E m \in menu.modes : Handles!Open(p, s, m)
    BY <1>1, <1>2, <2>1, <2>2
  <2>3. CASE Handles!Close(p, s)
    BY <1>3, <2>1, <2>3
  <2>4. CASE \E n \in menu.sizes : Handles!SetSize(p, s, n)
    BY <1>1, <1>4, <2>1, <2>4
  <2>5. CASE \E r \in menu.regions, sh \in BOOLEAN : Handles!TryLock(p, s, r, sh)
    BY <1>1, <1>5, <2>1, <2>5
  <2>6. CASE \E r \in menu.regions : Handles!TryUnlock(p, s, r)
    BY <1>1, <1>6, <2>1, <2>6
  <2>7. CASE \E t \in menu.transfers : Handles!BeginTransfer(p, s, t)
    BY <1>1, <1>7, <2>1, <2>7
  <2>. QED BY <1>8, <2>2, <2>3, <2>4, <2>5, <2>6, <2>7
<1>9. CASE \E p \in Procs : Handles!ReadSome(p) \/ Handles!ReadNothing(p) \/ Handles!WriteSome(p) \/ Handles!Fail(p)
  BY <1>9, ReadSomeKept, ReadNothingKept, WriteSomeKept, FailKept
<1>10. CASE Handles!RemoveName
  BY <1>10, RemoveNameKept
<1>. QED BY <1>8, <1>9, <1>10 DEF Handles!Next

\* Two beliefs that exclude each other would be two locks in force that do.
LEMMA FilesImplied ==
  ASSUME FilesInv
  PROVE  Handles!TransferExact /\ Handles!OpenedAsAsked /\ Handles!LocksExclude
<1>. SUFFICES ASSUME NEW a \in believed, NEW b \in believed, a.proc # b.proc, Handles!Overlap(a, b),
                     ~(platform = "posix" /\ {<<a.proc, a.file>>, <<b.proc, b.file>>} \cap shared # {})
              PROVE  FALSE
  BY DEF FilesInv, Handles!LocksExclude
<1>1. \A k \in locks, l \in locks : k.proc # l.proc => ~ Handles!Overlap(k, l)
  BY DEF FilesInv, LocksKnown
<1>2. CASE platform = "windows"
  BY <1>1, <1>2 DEF FilesInv, LocksKnown
<1>3. CASE platform = "posix"
  <2>1. Covered(a, locks) /\ Covered(b, locks)
    BY <1>3 DEF FilesInv, LocksKnown
  <2>2. PICK x \in a.bytes : x \in b.bytes
    BY DEF Handles!Overlap
  <2>3. PICK k \in locks : k.proc = a.proc /\ k.file = a.file /\ k.shared = a.shared /\ x \in k.bytes
    BY <2>1 DEF Covered
  <2>4. PICK l \in locks : l.proc = b.proc /\ l.file = b.file /\ l.shared = b.shared /\ x \in l.bytes
    BY <2>1, <2>2 DEF Covered
  <2>5. Handles!Overlap(k, l)
    BY <2>3, <2>4 DEF Handles!Overlap
  <2>. QED BY <1>1, <2>3, <2>4, <2>5
<1>. QED BY <1>2, <1>3 DEF FilesInv, DiskTyped

\* The invariant stays when nothing of the files changes.
LEMMA FilesUnchanged ==
  ASSUME FilesInv, UNCHANGED filesVars
  PROVE  FilesInv'
<1>1. LocksTyped' /\ LocksKnown'
  BY LocksStay DEF filesVars
<1>. QED BY <1>1, OnlyLocks DEF filesVars

\* Transfers move the bytes they say, modes mean the same on both systems, and
\* locks exclude each other, for every number of processes, handles, calls and
\* bytes (FileHandle_posix.inl, FileHandle_win.inl).
THEOREM FilesAlwaysRight == Spec => []FilesRight
<1>. DEFINE Inv == subject = "files" => FilesInv
<1>1. Init => Inv
  BY FilesStart DEF Init
<1>2. Inv /\ [Next]_vars => Inv'
  <2>. SUFFICES ASSUME Inv, [Next]_vars, subject' = "files" PROVE FilesInv'
    OBVIOUS
  <2>1. CASE HandlesStep
    BY <2>1, FilesSteps DEF HandlesStep
  <2>2. CASE UNCHANGED vars
    BY <2>2, FilesUnchanged DEF vars
  <2>3. CASE ConsoleStep \/ RegistryStep \/ MappedStep \/ PileStep \/ BufferStep \/ MemoryStep \/ CellsStep
    BY <2>3 DEF ConsoleStep, RegistryStep, MappedStep, PileStep, BufferStep, MemoryStep, CellsStep
  <2>. QED BY <2>1, <2>2, <2>3 DEF Next
<1>3. Inv => FilesRight
  BY FilesImplied DEF FilesRight
<1>. QED BY <1>1, <1>2, <1>3, PTL DEF Spec


-----------------------------------------------------------------------------
(* Mapped files: the inductive invariant *)

MapSteps == {"idle", "lock", "size", "map", "found"}
MappedTyped ==
  /\ windows \in BOOLEAN /\ fileSize \in Nat /\ mode \in {"closed", "read", "write"} /\ mainMappingSize \in Nat
  /\ extendedMappings \in [1 .. SlotCount -> Nat]
  /\ mappings \in Seq([offset : Nat, size : Nat])
  /\ mutex \in Mappers \cup {Nobody}
  /\ doing \in [Mappers -> [step : MapSteps, offset : Nat]]
  /\ answer \in [Mappers -> [mapping : Nat, into : Nat, asked : Nat]]
  /\ sized \in 0 .. SlotCount

\* The first mapping is the main one, each other one is that of a slot.
SlotOffset(n) == Mapped!MappingOffset(mainMappingSize, n)
SlotSize(n) == Mapped!MappingSize(mainMappingSize, n)
MappingsKnown ==
  /\ mode = "closed" => mappings = <<>>
  /\ mode # "closed" => mappings # <<>> /\ mappings[1].offset = 0 /\ mappings[1].size = mainMappingSize
  /\ \A n \in 1 .. SlotCount : extendedMappings[n] # 0 =>
       /\ extendedMappings[n] \in 2 .. Len(mappings)
       /\ mappings[extendedMappings[n]].offset = SlotOffset(n)
       /\ mappings[extendedMappings[n]].size = SlotSize(n)
  /\ \A i \in 2 .. Len(mappings) : \E n \in 1 .. SlotCount : extendedMappings[n] = i

\* Who is in the middle of a call asks for an offset that a slot has; the one that
\* has the mutex has found the slot without a mapping, and has made the file long
\* enough before it maps; nobody has sized it since.
CallsKnown ==
  \A t \in Mappers :
    /\ doing[t].step = "idle" => doing[t] = Mapped!Idle
    /\ doing[t].step # "idle" => mode = "write" /\ Mapped!Slot(doing[t].offset) \in 1 .. SlotCount
    /\ doing[t].step \in {"size", "map", "found"} <=> mutex = t
    /\ doing[t].step \in {"size", "map"} => extendedMappings[Mapped!Slot(doing[t].offset)] = 0
    /\ doing[t].step = "found" => extendedMappings[Mapped!Slot(doing[t].offset)] # 0
    /\ doing[t].step = "map" =>
         /\ sized = Mapped!Slot(doing[t].offset)
         /\ ~windows => fileSize = Mapped!NeededSize(Mapped!Slot(doing[t].offset))

AnswerRight(a) ==
  /\ a.mapping \in 1 .. Len(mappings) /\ a.into < mappings[a.mapping].size
  /\ mappings[a.mapping].offset + a.into = a.asked
AnswersRight == \A t \in Mappers : answer[t].mapping # 0 => AnswerRight(answer[t])

\* Just the mappings above the one that the size was last set for are cut off.
Ends(i) == mappings[i].offset + mappings[i].size
InFile == \A i \in 1 .. Len(mappings) : Ends(i) <= fileSize <=> windows \/ mappings[i].offset <= SlotOffset(sized)

MappedInv == MappedTyped /\ MappingsKnown /\ CallsKnown /\ AnswersRight /\ InFile

-----------------------------------------------------------------------------
(* Mapped files: the layout *)

\* Shifting by one more doubles.
LEMMA PowerDoubles ==
  /\ Mapped!Power[0] = 1
  /\ \A n \in Nat : Mapped!Power[n] \in Nat /\ Mapped!Power[n + 1] = 2 * Mapped!Power[n]
<1>. DEFINE Upto(f, n) == f \in [0 .. n -> Nat] /\ f[0] = 1 /\ \A i \in 1 .. n : f[i] = 2 * f[i - 1]
            Has(n) == \E f : Upto(f, n)
            The(n) == CHOOSE f : Upto(f, n)
            P == [n \in Nat |-> The(n)[n]]
<1>1. ASSUME NEW n \in Nat PROVE Has(n)
  <2>. DEFINE S == {i \in Nat : ~Has(i)}
  <2>1. Has(0)
    <3>1. Upto([i \in 0 .. 0 |-> 1], 0)
      OBVIOUS
    <3>. QED BY <3>1
  <2>2. ASSUME NEW m \in Nat, Has(m) PROVE Has(m + 1)
    <3>1. PICK f : Upto(f, m)
      BY <2>2
    <3>. DEFINE g == [i \in 0 .. m + 1 |-> IF i = m + 1 THEN 2 * f[m] ELSE f[i]]
    <3>2. g \in [0 .. m + 1 -> Nat] /\ g[0] = 1
      BY <3>1
    <3>3. \A i \in 1 .. m + 1 : g[i] = 2 * g[i - 1]
      BY <3>1
    <3>. HIDE DEF g
    <3>4. Upto(g, m + 1)
      BY <3>2, <3>3
    <3>. QED BY <3>4
  <2>3. SUFFICES ASSUME n \in S PROVE FALSE
    OBVIOUS
  <2>. HIDE DEF Has
  <2>4. PICK m \in S : \A i \in S : m <= i
    BY <2>3, LeastNat
  <2>5. m # 0 /\ m - 1 \in Nat
    BY <2>1, <2>4
  <2>6. m - 1 \in S
    BY <2>2, <2>4, <2>5
  <2>. QED BY <2>4, <2>5, <2>6
<1>2. ASSUME NEW n \in Nat, NEW k \in Nat, NEW f, NEW g, Upto(f, n), Upto(g, k), NEW j \in Nat, j <= n, j <= k
      PROVE  f[j] = g[j]
  <2>. DEFINE S == {i \in Nat : i <= n /\ i <= k /\ f[i] # g[i]}
  <2>1. SUFFICES ASSUME j \in S PROVE FALSE
    BY <1>2
  <2>2. PICK m \in S : \A i \in S : m <= i
    <3>1. S \subseteq Nat /\ S # {}
      BY <2>1
    <3>. HIDE DEF S
    <3>. QED BY <3>1, LeastNat
  <2>3. m # 0
    BY <1>2, <2>2
  <2>4. m - 1 \in Nat /\ m - 1 \notin S
    BY <2>2, <2>3
  <2>5. f[m - 1] = g[m - 1] /\ f[m] = 2 * f[m - 1] /\ g[m] = 2 * g[m - 1]
    BY <1>2, <2>2, <2>3, <2>4
  <2>. QED BY <2>2, <2>5
<1>3. \A n \in Nat : Upto(The(n), n)
  <2>. HIDE DEF Upto
  <2>. QED BY <1>1
<1>. HIDE DEF The
<1>4. P[0] = 1
  BY <1>3
<1>5. ASSUME NEW n \in Nat PROVE P[n] \in Nat /\ P[n + 1] = 2 * P[n]
  <2>1. The(n + 1)[n + 1] = 2 * The(n + 1)[n] /\ The(n)[n] \in Nat
    BY <1>3
  <2>2. The(n + 1)[n] = The(n)[n]
    <3>1. Upto(The(n), n) /\ Upto(The(n + 1), n + 1) /\ n + 1 \in Nat /\ n <= n /\ n <= n + 1
      BY <1>3
    <3>. HIDE DEF Upto
    <3>. QED BY <3>1, <1>2
  <2>. QED BY <2>1, <2>2
<1>6. P = [n \in Nat |-> IF n = 0 THEN 1 ELSE 2 * P[n - 1]]
  <2>. HIDE DEF P
  <2>1. \A n \in Nat : P[n] = IF n = 0 THEN 1 ELSE 2 * P[n - 1]
    <3>1. ASSUME NEW n \in Nat, n # 0 PROVE P[n] = 2 * P[n - 1]
      <4>1. n - 1 \in Nat /\ (n - 1) + 1 = n
        BY <3>1
      <4>. QED BY <1>5, <4>1
    <3>. QED BY <1>4, <3>1
  <2>2. P = [n \in Nat |-> P[n]]
    BY DEF P
  <2>. QED BY <2>1, <2>2
<1>. HIDE DEF P
<1>7. Mapped!Power = [n \in Nat |-> IF n = 0 THEN 1 ELSE 2 * Mapped!Power[n - 1]]
  <2>. DEFINE Fits(f) == f = [n \in Nat |-> IF n = 0 THEN 1 ELSE 2 * f[n - 1]]
  <2>1. Fits(P)
    BY <1>6
  <2>2. Mapped!Power = CHOOSE f : Fits(f)
    BY DEF Mapped!Power
  <2>. HIDE DEF Fits
  <2>3. Fits(Mapped!Power)
    BY <2>1, <2>2
  <2>. QED BY <2>3 DEF Fits
<1>8. Mapped!Power[0] = 1
  BY <1>7
<1>9. \A n \in Nat : Mapped!Power[n + 1] = 2 * Mapped!Power[n]
  BY <1>7
<1>10. \A n \in Nat : Mapped!Power[n] = P[n]
  <2>. DEFINE S == {i \in Nat : Mapped!Power[i] # P[i]}
  <2>1. SUFFICES ASSUME S # {} PROVE FALSE
    OBVIOUS
  <2>2. PICK m \in S : \A i \in S : m <= i
    BY <2>1, LeastNat
  <2>3. m # 0
    BY <1>4, <1>8, <2>2
  <2>4. m - 1 \in Nat /\ (m - 1) + 1 = m /\ m - 1 \notin S
    BY <2>2, <2>3
  <2>. QED BY <1>5, <1>9, <2>2, <2>4
<1>. QED BY <1>5, <1>8, <1>9, <1>10

\* Where it grows: a higher slot has at least as many segments.
LEMMA PowerGrows ==
  ASSUME NEW i \in Nat, NEW j \in Nat, i <= j
  PROVE  Mapped!Power[i] \in Nat /\ Mapped!Power[j] \in Nat /\ 1 <= Mapped!Power[i] /\ Mapped!Power[i] <= Mapped!Power[j]
<1>. DEFINE W(n) == Mapped!Power[n]
<1>1. W(0) = 1 /\ \A n \in Nat : W(n) \in Nat /\ W(n + 1) = 2 * W(n)
  BY PowerDoubles
<1>. HIDE DEF W
<1>2. ASSUME NEW n \in Nat PROVE 1 <= W(n)
  <2>. DEFINE S == {k \in Nat : ~(1 <= W(k))}
  <2>1. SUFFICES ASSUME S # {} PROVE FALSE
    OBVIOUS
  <2>2. PICK m \in S : \A k \in S : m <= k
    BY <2>1, LeastNat
  <2>3. m # 0
    BY <1>1, <2>2
  <2>4. m - 1 \in Nat /\ (m - 1) + 1 = m /\ m - 1 \notin S
    BY <2>2, <2>3
  <2>. QED BY <1>1, <2>2, <2>4
<1>3. W(i) <= W(j)
  <2>. DEFINE S == {k \in Nat : i <= k /\ ~(W(i) <= W(k))}
  <2>1. SUFFICES ASSUME S # {} PROVE FALSE
    OBVIOUS
  <2>2. PICK m \in S : \A k \in S : m <= k
    BY <2>1, LeastNat
  <2>3. m # i /\ m \in Nat /\ i <= m
    BY <1>1, <2>2
  <2>4. m - 1 \in Nat /\ (m - 1) + 1 = m /\ m - 1 \notin S /\ i <= m - 1
    BY <2>2, <2>3
  <2>. QED BY <1>1, <1>2, <2>2, <2>4
<1>. QED BY <1>1, <1>2, <1>3 DEF W

\* The highest bit of i, unless it is above those that a slot may have.
LEMMA HighestBitIs ==
  ASSUME NEW i \in Nat, 1 <= i
  PROVE  /\ Mapped!HighestBit(i) \in 0 .. SlotCount
         /\ Mapped!Power[Mapped!HighestBit(i)] <= i
         /\ Mapped!HighestBit(i) < SlotCount => i < Mapped!Power[Mapped!HighestBit(i) + 1]
<1>. DEFINE W(n) == Mapped!Power[n]
            B == {b \in 1 .. SlotCount : W(b) <= i}
            S == {b \in Nat : 0 < b /\ (SlotCount < b \/ i < W(b))}
<1>1. SlotCount \in Nat
  BY ServicesAssumption DEF Mapped!SegmentAssumption
<1>2. W(0) = 1 /\ \A n \in Nat : W(n) \in Nat
  BY PowerDoubles
<1>3. \A m, n \in Nat : m <= n => W(m) <= W(n)
  BY PowerGrows
<1>4. Mapped!HighestBit(i) = Cardinality(B)
  BY DEF Mapped!HighestBit, Mapped!Cardinality, Cardinality
<1>. HIDE DEF W
<1>5. SlotCount + 1 \in S
  BY <1>1
<1>6. PICK m \in S : \A b \in S : m <= b
  <2>. HIDE DEF S
  <2>1. S \subseteq Nat
    BY DEF S
  <2>. QED BY <1>5, <2>1, LeastNat
<1>7. m \in Nat /\ 0 < m /\ m <= SlotCount + 1
  BY <1>5, <1>6
<1>8. B = 1 .. m - 1
  <2>1. ASSUME NEW b \in B PROVE b \in 1 .. m - 1
    <3>1. b \in Nat /\ 1 <= b /\ b <= SlotCount /\ W(b) <= i
      BY <1>1
    <3>2. CASE m <= b
      <4>1. W(m) <= W(b) /\ W(m) \in Nat /\ W(b) \in Nat
        BY <1>2, <1>3, <1>7, <3>1, <3>2
      <4>. QED BY <1>1, <1>6, <1>7, <3>1, <3>2, <4>1
    <3>. QED BY <1>7, <3>1, <3>2
  <2>2. ASSUME NEW b \in 1 .. m - 1 PROVE b \in B
    <3>1. b \in Nat /\ b \notin S /\ 0 < b /\ b <= SlotCount
      BY <1>1, <1>6, <1>7
    <3>. QED BY <1>1, <1>2, <3>1
  <2>. HIDE DEF B
  <2>. QED BY <2>1, <2>2
<1>9. Cardinality(B) = m - 1
  <2>1. 1 \in Int /\ m - 1 \in Int /\ 1 <= m /\ (1 > m - 1 => m - 1 = 0) /\ (m - 1) - 1 + 1 = m - 1
    BY <1>7
  <2>2. Cardinality(1 .. m - 1) = IF 1 > m - 1 THEN 0 ELSE (m - 1) - 1 + 1
    BY <2>1, FS_Interval
  <2>. QED BY <1>8, <2>1, <2>2
<1>10. W(m - 1) <= i
  <2>1. CASE m = 1
    BY <1>2, <2>1
  <2>2. CASE m # 1
    <3>1. m - 1 \in B
      BY <1>7, <1>8, <2>2
    <3>. QED BY <3>1
  <2>. QED BY <2>1, <2>2
<1>11. m - 1 < SlotCount => i < W(m)
  BY <1>1, <1>6, <1>7
<1>12. Mapped!HighestBit(i) = m - 1 /\ (m - 1) + 1 = m
  BY <1>4, <1>7, <1>9
<1>13. m - 1 \in 0 .. SlotCount
  BY <1>1, <1>7
<1>. HIDE DEF B, S
<1>. QED BY <1>10, <1>11, <1>12, <1>13 DEF W

\* A product grows with its second factor.
LEMMA ProductGrows ==
  ASSUME NEW a \in Nat, NEW b \in Nat, NEW c \in Nat, b <= c
  PROVE  a * b \in Nat /\ a * c \in Nat /\ a * b <= a * c
<1>1. PICK d \in Nat : c = b + d
  <2>1. c - b \in Nat /\ c = b + (c - b)
    OBVIOUS
  <2>. QED BY <2>1
<1>2. a * c = a * b + a * d /\ a * d \in Nat /\ a * b \in Nat
  BY <1>1
<1>. QED BY <1>1, <1>2

\* The mappings of slots lie behind the main mapping, one behind the other.
LEMMA SlotsApart ==
  ASSUME NEW main \in Nat, NEW n \in 1 .. SlotCount, NEW m \in 1 .. SlotCount
  PROVE  /\ Mapped!MappingOffset(main, n) \in Nat /\ Mapped!MappingSize(main, n) \in Nat
         /\ main <= Mapped!MappingOffset(main, n) /\ 0 < Mapped!MappingSize(main, n)
         /\ n < m => /\ Mapped!MappingOffset(main, n) < Mapped!MappingOffset(main, m)
                     /\ Mapped!MappingOffset(main, n) + Mapped!MappingSize(main, n) <= Mapped!MappingOffset(main, m)
<1>. DEFINE L == MapSegment
            W(k) == Mapped!Power[k]
<1>1. SlotCount \in Nat /\ L \in Nat /\ L # 0
  BY ServicesAssumption DEF Mapped!SegmentAssumption
<1>2. n \in Nat /\ n # 0 /\ m \in Nat /\ m # 0 /\ n - 1 \in Nat /\ m - 1 \in Nat
  BY <1>1
<1>3. \A k \in {n, m} : /\ Mapped!MappingSize(main, k) = L * W(k - 1)
                        /\ Mapped!MappingOffset(main, k) = L * W(k - 1) - L + main
  BY <1>2 DEF Mapped!MappingSize, Mapped!MappingOffset
<1>4. \A k \in Nat : W(k) \in Nat /\ 1 <= W(k) /\ W(k + 1) = 2 * W(k)
  BY PowerGrows, PowerDoubles
<1>5. \A k \in Nat : L * W(k) \in Nat /\ L <= L * W(k)
  <2>. SUFFICES ASSUME NEW k \in Nat PROVE L * W(k) \in Nat /\ L <= L * W(k)
    OBVIOUS
  <2>. HIDE DEF L, W
  <2>1. L * W(k) \in Nat /\ L * 1 <= L * W(k)
    BY <1>1, <1>4, ProductGrows
  <2>2. L * 1 = L
    BY <1>1
  <2>. QED BY <2>1, <2>2
<1>6. ASSUME n < m PROVE 2 * (L * W(n - 1)) <= L * W(m - 1)
  <2>1. W(n) <= W(m - 1)
    <3>1. n <= m - 1
      BY <1>2, <1>6
    <3>. QED BY <1>2, <3>1, PowerGrows
  <2>2. W(n) = 2 * W(n - 1)
    <3>1. (n - 1) + 1 = n
      BY <1>2
    <3>. QED BY <1>2, <1>4, <3>1
  <2>. HIDE DEF L, W
  <2>3. L * W(n) <= L * W(m - 1)
    BY <1>1, <1>2, <1>4, <2>1, ProductGrows
  <2>4. L * W(n) = 2 * (L * W(n - 1))
    <3>1. W(n - 1) \in Nat
      BY <1>2, <1>4
    <3>. QED BY <1>1, <2>2, <3>1
  <2>. QED BY <2>3, <2>4
<1>. DEFINE a == L * W(n - 1)
            b == L * W(m - 1)
<1>7. a \in Nat /\ b \in Nat /\ L <= a /\ L <= b
  BY <1>2, <1>5
<1>8. n < m => 2 * a <= b
  BY <1>6
<1>. HIDE DEF L, W, a, b
<1>9. /\ Mapped!MappingSize(main, n) = a /\ Mapped!MappingOffset(main, n) = a - L + main
      /\ Mapped!MappingOffset(main, m) = b - L + main
  BY <1>3 DEF a, b
<1>. QED BY <1>1, <1>7, <1>8, <1>9

\* An offset lies in the mapping of its slot, if there is such a slot.
LEMMA OffsetInSlot ==
  ASSUME NEW main \in Nat, NEW ofs \in Nat, Mapped!MappingNumber(main, ofs) <= SlotCount
  PROVE  /\ Mapped!MappingNumber(main, ofs) \in 0 .. SlotCount
         /\ Mapped!MappingNumber(main, ofs) = 0 => ofs < main /\ Mapped!IntoMapping(main, ofs) = ofs
         /\ Mapped!MappingNumber(main, ofs) # 0 =>
              /\ Mapped!IntoMapping(main, ofs) \in Nat
              /\ Mapped!IntoMapping(main, ofs) < Mapped!MappingSize(main, Mapped!MappingNumber(main, ofs))
              /\ Mapped!MappingOffset(main, Mapped!MappingNumber(main, ofs)) + Mapped!IntoMapping(main, ofs) = ofs
<1>. DEFINE L == MapSegment
            W(k) == Mapped!Power[k]
            q == (ofs - main + L) \div L
            h == Mapped!HighestBit(q)
            n == Mapped!MappingNumber(main, ofs)
<1>1. SlotCount \in Nat /\ L \in Nat /\ L # 0
  BY ServicesAssumption DEF Mapped!SegmentAssumption
<1>2. CASE ofs < main
  <2>1. n = 0 /\ Mapped!IntoMapping(main, ofs) = ofs
    BY <1>2 DEF Mapped!MappingNumber, Mapped!IntoMapping
  <2>. QED BY <1>1, <1>2, <2>1
<1>3. CASE ~(ofs < main)
  <2>. DEFINE x == ofs - main + L
              a == L * W(h)
  <2>1. x \in Nat /\ L <= x
    BY <1>1, <1>3
  <2>2. q \in Nat /\ L * q <= x /\ x < L * q + L /\ 1 <= q
    <3>. HIDE DEF L, x
    <3>1. q = x \div L
      BY DEF x, L
    <3>2. x \div L \in Nat /\ L * (x \div L) <= x /\ x < L * (x \div L) + L
      BY <1>1, <2>1
    <3>3. 1 <= x \div L
      <4>1. CASE x \div L = 0
        <5>1. L * (x \div L) = 0
          BY <1>1, <4>1
        <5>. QED BY <1>1, <2>1, <3>2, <5>1
      <4>2. CASE x \div L # 0
        BY <3>2, <4>2
      <4>. QED BY <4>1, <4>2
    <3>. QED BY <3>1, <3>2, <3>3
  <2>. HIDE DEF q
  <2>3. n = h + 1
    BY <1>3 DEF Mapped!MappingNumber, q
  <2>4. h \in 0 .. SlotCount /\ W(h) <= q /\ (h < SlotCount => q < W(h + 1))
    BY <2>2, HighestBitIs
  <2>5. h \in Nat /\ h < SlotCount /\ n \in 1 .. SlotCount
    <3>. HIDE DEF h, n
    <3>. QED BY <1>1, <2>3, <2>4 DEF n
  <2>6. W(h) \in Nat /\ W(h + 1) = 2 * W(h) /\ q + 1 <= W(h + 1)
    <3>1. W(h) \in Nat /\ W(h + 1) = 2 * W(h)
      BY <2>5, PowerDoubles
    <3>. HIDE DEF W, h
    <3>. QED BY <2>2, <2>4, <2>5, <3>1
  <2>7. a \in Nat /\ a <= x /\ x < 2 * a
    <3>. DEFINE w == W(h)
    <3>1. w \in Nat /\ w <= q /\ q + 1 <= 2 * w
      BY <2>4, <2>6
    <3>2. a = L * w
      OBVIOUS
    <3>. HIDE DEF w, a, L, x
    <3>3. L * w \in Nat /\ L * w <= L * q
      BY <1>1, <2>2, <3>1, ProductGrows
    <3>4. L * (q + 1) <= L * (2 * w)
      BY <1>1, <2>2, <3>1, ProductGrows
    <3>5. L * (q + 1) = L * q + L /\ L * (2 * w) = 2 * (L * w) /\ L * q \in Nat
      BY <1>1, <2>2, <3>1
    <3>. QED BY <1>1, <2>1, <2>2, <3>2, <3>3, <3>4, <3>5
  <2>8. Mapped!MappingSize(main, n) = a /\ Mapped!MappingOffset(main, n) = a - L + main
    <3>1. n # 0 /\ n - 1 = h
      <4>. HIDE DEF n, h
      <4>. QED BY <2>3, <2>5
    <3>. HIDE DEF n, h
    <3>. QED BY <3>1 DEF Mapped!MappingSize, Mapped!MappingOffset
  <2>9. Mapped!IntoMapping(main, ofs) = (ofs - main) - a + L
    BY <1>3, <2>8 DEF Mapped!IntoMapping
  <2>. HIDE DEF n, a, L, h
  <2>10. x = ofs - main + L
    BY DEF L
  <2>. HIDE DEF x
  <2>11. (ofs - main) - a + L \in Nat /\ (ofs - main) - a + L < a /\ (a - L + main) + ((ofs - main) - a + L) = ofs
    BY <1>1, <1>3, <2>7, <2>10
  <2>. QED BY <2>5, <2>8, <2>9, <2>11 DEF n
<1>. QED BY <1>2, <1>3

\* What the layout says of the slots of the open file.
LEMMA SlotsLaidOut ==
  ASSUME mainMappingSize \in Nat, NEW n \in 1 .. SlotCount
  PROVE  /\ SlotOffset(n) \in Nat /\ SlotSize(n) \in Nat /\ mainMappingSize <= SlotOffset(n) /\ 0 < SlotSize(n)
         /\ Mapped!NeededSize(n) = SlotOffset(n) + SlotSize(n)
         /\ \A m \in 1 .. SlotCount : n < m =>
              SlotOffset(n) < SlotOffset(m) /\ SlotOffset(n) + SlotSize(n) <= SlotOffset(m)
<1>. USE SlotsApart
<1>1. \A m \in 1 .. SlotCount : n < m =>
        SlotOffset(n) < SlotOffset(m) /\ SlotOffset(n) + SlotSize(n) <= SlotOffset(m)
  BY DEF SlotOffset, SlotSize
<1>2. SlotOffset(n) \in Nat /\ SlotSize(n) \in Nat /\ mainMappingSize <= SlotOffset(n) /\ 0 < SlotSize(n)
  BY DEF SlotOffset, SlotSize
<1>3. Mapped!NeededSize(n) = SlotOffset(n) + SlotSize(n)
  BY DEF Mapped!NeededSize, SlotOffset, SlotSize
<1>. QED BY <1>1, <1>2, <1>3

-----------------------------------------------------------------------------
(* Mapped files: the steps *)

\* The object that has not been opened satisfies the invariant.
LEMMA MappedStarts ==
  ASSUME Mapped!Init
  PROVE  MappedInv
<1>. DEFINE None == [n \in 1 .. SlotCount |-> 0]
<1>1. /\ windows \in BOOLEAN /\ fileSize \in InitialSizes /\ mode = "closed" /\ mainMappingSize = 0
      /\ extendedMappings = None /\ mappings = <<>> /\ mutex = Nobody
      /\ doing = [t \in Mappers |-> Mapped!Idle] /\ answer = [t \in Mappers |-> Mapped!NoAnswer] /\ sized = 0
  BY DEF Mapped!Init
<1>2. InitialSizes \subseteq Nat /\ Nobody \notin Mappers
  BY ServicesAssumption DEF Mapped!MappedAssumption
<1>3. MappedTyped
  <2>1. doing \in [Mappers -> [step : MapSteps, offset : Nat]]
    BY <1>1 DEF Mapped!Idle, MapSteps
  <2>2. answer \in [Mappers -> [mapping : Nat, into : Nat, asked : Nat]]
    BY <1>1 DEF Mapped!NoAnswer
  <2>3. mappings \in Seq([offset : Nat, size : Nat])
    BY <1>1
  <2>4. extendedMappings \in [1 .. SlotCount -> Nat]
    BY <1>1
  <2>5. SlotCount \in Nat
    BY ServicesAssumption DEF Mapped!SegmentAssumption
  <2>. QED BY <1>1, <1>2, <2>1, <2>2, <2>3, <2>4, <2>5 DEF MappedTyped
<1>4. MappingsKnown
  BY <1>1 DEF MappingsKnown
<1>5. CallsKnown
  BY <1>1, <1>2 DEF CallsKnown, Mapped!Idle
<1>6. AnswersRight
  BY <1>1 DEF AnswersRight, Mapped!NoAnswer
<1>7. InFile
  BY <1>1 DEF InFile
<1>. QED BY <1>3, <1>4, <1>5, <1>6, <1>7 DEF MappedInv

\* Between calls nobody has the mutex.
LEMMA UnusedFree ==
  ASSUME MappedInv, Mapped!Unused
  PROVE  \A t \in Mappers : doing[t].step = "idle" /\ mutex # t
<1>. SUFFICES ASSUME NEW t \in Mappers PROVE doing[t].step = "idle" /\ mutex # t
  OBVIOUS
<1>1. doing[t] = Mapped!Idle
  BY DEF Mapped!Unused
<1>2. doing[t].step = "idle"
  BY <1>1 DEF Mapped!Idle
<1>. QED BY <1>2 DEF MappedInv, CallsKnown

\* Opening maps the main mapping, which is in the file.
LEMMA OpenedKept ==
  ASSUME MappedInv, NEW m \in {"read", "write"}, NEW main \in Nat, Mapped!Opened(m, main), fileSize' \in Nat, main <= fileSize'
  PROVE  MappedInv'
<1>. DEFINE None == [n \in 1 .. SlotCount |-> 0]
            Mine == [offset |-> 0, size |-> main]
<1>1. /\ mode = "closed" /\ mode' = m /\ mainMappingSize' = main /\ mappings' = <<Mine>>
      /\ extendedMappings' = None /\ answer' = [t \in Mappers |-> Mapped!NoAnswer] /\ sized' = 0
      /\ windows' = windows /\ mutex' = mutex /\ doing' = doing
  BY DEF Mapped!Opened
<1>2. MappedTyped /\ CallsKnown
  BY DEF MappedInv
<1>3. \A t \in Mappers : doing[t].step = "idle" /\ doing[t] = Mapped!Idle /\ mutex # t
  <2>. SUFFICES ASSUME NEW t \in Mappers PROVE doing[t].step = "idle" /\ doing[t] = Mapped!Idle /\ mutex # t
    OBVIOUS
  <2>1. doing[t].step = "idle"
    BY <1>1, <1>2 DEF CallsKnown
  <2>. QED BY <1>2, <2>1 DEF CallsKnown
<1>4. Len(mappings') = 1 /\ mappings'[1].offset = 0 /\ mappings'[1].size = main /\ mappings' # <<>>
  BY <1>1
<1>5. MappedTyped'
  <2>1. answer' \in [Mappers -> [mapping : Nat, into : Nat, asked : Nat]]
    BY <1>1 DEF Mapped!NoAnswer
  <2>2. mappings' \in Seq([offset : Nat, size : Nat])
    <3>1. Mine \in [offset : Nat, size : Nat]
      OBVIOUS
    <3>. HIDE DEF Mine
    <3>. QED BY <1>1, <3>1
  <2>3. extendedMappings' \in [1 .. SlotCount -> Nat]
    BY <1>1
  <2>4. SlotCount \in Nat
    BY ServicesAssumption DEF Mapped!SegmentAssumption
  <2>. QED BY <1>1, <1>2, <2>1, <2>2, <2>3, <2>4 DEF MappedTyped
<1>6. MappingsKnown'
  BY <1>1, <1>4 DEF MappingsKnown
<1>7. CallsKnown'
  BY <1>1, <1>3 DEF CallsKnown
<1>8. AnswersRight'
  BY <1>1 DEF AnswersRight, Mapped!NoAnswer
<1>9. InFile'
  <2>1. SlotOffset(sized)' = 0
    BY <1>1 DEF SlotOffset, Mapped!MappingOffset
  <2>. QED BY <1>4, <2>1 DEF InFile, Ends
<1>. QED BY <1>5, <1>6, <1>7, <1>8, <1>9 DEF MappedInv

\* The main mapping of a file opened for writing covers the file.
LEMMA MainMapping ==
  ASSUME fileSize \in Nat
  PROVE  Mapped!MainMappingSize(fileSize) \in Nat
<1>. DEFINE L == MapSegment
            least == IF fileSize < L THEN L ELSE fileSize
<1>1. L \in Nat /\ L # 0
  BY ServicesAssumption DEF Mapped!SegmentAssumption
<1>2. least \in Nat /\ 1 <= least
  BY <1>1
<1>3. Mapped!MainMappingSize(fileSize) = ((least + L - 1) \div L) * L
  BY DEF Mapped!MainMappingSize
<1>. HIDE DEF least, L
<1>4. (least + L - 1) \div L \in Nat
  BY <1>1, <1>2
<1>5. ((least + L - 1) \div L) * L \in Nat
  BY <1>1, <1>4
<1>. QED BY <1>3, <1>5

\* The file is opened.
LEMMA OpensKept ==
  ASSUME MappedInv, Mapped!OpenToRead \/ Mapped!OpenToWrite
  PROVE  MappedInv'
<1>1. fileSize \in Nat
  BY DEF MappedInv, MappedTyped
<1>2. CASE Mapped!OpenToRead
  BY <1>1, <1>2, OpenedKept DEF Mapped!OpenToRead
<1>3. CASE Mapped!OpenToWrite
  BY <1>1, <1>3, OpenedKept, MainMapping DEF Mapped!OpenToWrite
<1>. QED BY <1>2, <1>3

\* The file is closed, or cut.
LEMMA ClosesKept ==
  ASSUME MappedInv, Mapped!Close \/ Mapped!Clear
  PROVE  MappedInv'
<1>. DEFINE None == [n \in 1 .. SlotCount |-> 0]
<1>1. /\ Mapped!Unused /\ mode' = "closed" /\ mainMappingSize' = 0 /\ mappings' = <<>>
      /\ extendedMappings' = None /\ answer' = [t \in Mappers |-> Mapped!NoAnswer]
      /\ windows' = windows /\ mutex' = mutex /\ doing' = doing /\ sized' = sized
      /\ (fileSize' = fileSize \/ fileSize' = 0)
  BY DEF Mapped!Close, Mapped!Clear, Mapped!Closed
<1>2. MappedTyped /\ CallsKnown
  BY DEF MappedInv
<1>3. \A t \in Mappers : doing[t].step = "idle" /\ mutex # t
  BY <1>1, UnusedFree
<1>4. \A t \in Mappers : doing[t] = Mapped!Idle
  BY <1>1 DEF Mapped!Unused
<1>5. MappedTyped'
  <2>1. answer' \in [Mappers -> [mapping : Nat, into : Nat, asked : Nat]]
    BY <1>1 DEF Mapped!NoAnswer
  <2>2. mappings' \in Seq([offset : Nat, size : Nat])
    BY <1>1
  <2>3. extendedMappings' \in [1 .. SlotCount -> Nat]
    BY <1>1
  <2>. QED BY <1>1, <1>2, <2>1, <2>2, <2>3 DEF MappedTyped
<1>6. MappingsKnown'
  BY <1>1 DEF MappingsKnown
<1>7. CallsKnown'
  BY <1>1, <1>3, <1>4 DEF CallsKnown
<1>8. AnswersRight'
  BY <1>1 DEF AnswersRight, Mapped!NoAnswer
<1>9. InFile'
  BY <1>1 DEF InFile
<1>. QED BY <1>5, <1>6, <1>7, <1>8, <1>9 DEF MappedInv

-----------------------------------------------------------------------------
(* Mapped files: a call of translate() *)

AnswerRecords == [mapping : Nat, into : Nat, asked : Nat]

\* The address of an offset whose mapping is there is right.
LEMMA FoundRight ==
  ASSUME MappedInv, mode # "closed", NEW ofs \in Nat, Mapped!Slot(ofs) <= SlotCount, Mapped!Found(ofs) # 0
  PROVE  /\ [mapping |-> Mapped!Found(ofs), into |-> Mapped!IntoMapping(mainMappingSize, ofs), asked |-> ofs] \in AnswerRecords
         /\ AnswerRight([mapping |-> Mapped!Found(ofs), into |-> Mapped!IntoMapping(mainMappingSize, ofs), asked |-> ofs])
<1>. DEFINE n == Mapped!Slot(ofs)
            into == Mapped!IntoMapping(mainMappingSize, ofs)
            m == Mapped!Found(ofs)
<1>1. MappedTyped /\ MappingsKnown
  BY DEF MappedInv
<1>2. /\ mainMappingSize \in Nat /\ mappings \in Seq([offset : Nat, size : Nat])
      /\ mappings # <<>> /\ mappings[1].offset = 0 /\ mappings[1].size = mainMappingSize
  BY <1>1 DEF MappedTyped, MappingsKnown
<1>3. /\ n \in 0 .. SlotCount
      /\ n = 0 => ofs < mainMappingSize /\ into = ofs
      /\ n # 0 => into \in Nat /\ into < SlotSize(n) /\ SlotOffset(n) + into = ofs
  BY <1>2, OffsetInSlot DEF Mapped!Slot, SlotSize, SlotOffset
<1>4. m = IF n = 0 THEN 1 ELSE extendedMappings[n]
  BY DEF Mapped!Found
<1>5. SlotCount \in Nat
  BY ServicesAssumption DEF Mapped!SegmentAssumption
<1>. HIDE DEF n, into, m
<1>6. m \in 1 .. Len(mappings) /\ m \in Nat /\ into \in Nat /\ into < mappings[m].size /\ mappings[m].offset + into = ofs
  <2>1. CASE n = 0
    <3>1. Len(mappings) \in Nat /\ 1 <= Len(mappings)
      BY <1>2
    <3>. QED BY <1>2, <1>3, <1>4, <2>1, <3>1
  <2>2. CASE n # 0
    <3>1. n \in 1 .. SlotCount
      BY <1>3, <1>5, <2>2
    <3>2. extendedMappings[n] # 0
      BY <1>4, <2>2 DEF m
    <3>3. /\ extendedMappings[n] \in 2 .. Len(mappings)
          /\ mappings[extendedMappings[n]].offset = SlotOffset(n)
          /\ mappings[extendedMappings[n]].size = SlotSize(n)
      BY <1>1, <3>1, <3>2 DEF MappingsKnown
    <3>4. Len(mappings) \in Nat
      BY <1>2
    <3>. QED BY <1>3, <1>4, <2>2, <3>3, <3>4
  <2>. QED BY <2>1, <2>2
<1>. QED BY <1>6 DEF AnswerRight, AnswerRecords, m, into

\* An answer that is right joins answers that stay right.
LEMMA AnsweredKept ==
  ASSUME MappedInv, NEW t \in Mappers, NEW a \in AnswerRecords, answer' = [answer EXCEPT ![t] = a], AnswerRight(a)',
         \A b \in AnswerRecords : AnswerRight(b) => AnswerRight(b)'
  PROVE  AnswersRight' /\ answer' \in [Mappers -> AnswerRecords]
<1>1. answer \in [Mappers -> AnswerRecords] /\ AnswersRight
  BY DEF MappedInv, MappedTyped, AnswerRecords
<1>2. \A u \in Mappers : answer'[u] = IF u = t THEN a ELSE answer[u]
  BY <1>1
<1>3. ASSUME NEW u \in Mappers, answer'[u].mapping # 0 PROVE AnswerRight(answer[u])' 
  <2>1. CASE u = t
    BY <1>2, <2>1 DEF AnswerRight
  <2>2. CASE u # t
    <3>. DEFINE b == answer[u]
    <3>1. b \in AnswerRecords /\ AnswerRight(b) /\ answer'[u] = b
      BY <1>1, <1>2, <1>3, <2>2 DEF AnswersRight
    <3>2. \A c \in AnswerRecords : AnswerRight(c) =>
             /\ c.mapping \in 1 .. Len(mappings') /\ c.into < mappings'[c.mapping].size
             /\ mappings'[c.mapping].offset + c.into = c.asked
      BY DEF AnswerRight
    <3>. HIDE DEF b
    <3>. QED BY <3>1, <3>2 DEF AnswerRight
  <2>. QED BY <2>1, <2>2
<1>. QED BY <1>1, <1>2, <1>3 DEF AnswersRight

\* Nothing that answers depend on has changed.
LEMMA AnswersStay ==
  ASSUME UNCHANGED mappings, NEW b, AnswerRight(b)
  PROVE  AnswerRight(b)'
  BY DEF AnswerRight

\* A thread asks for the address of an offset.
LEMMA TranslateKept ==
  ASSUME MappedInv, NEW t \in Mappers, NEW ofs \in Nat, Mapped!Translate(t, ofs)
  PROVE  MappedInv'
<1>1. /\ mode # "closed" /\ doing[t] = Mapped!Idle /\ (mode = "read" => ofs < mainMappingSize)
      /\ Mapped!Slot(ofs) <= SlotCount
      /\ windows' = windows /\ mode' = mode /\ mainMappingSize' = mainMappingSize /\ fileSize' = fileSize
      /\ extendedMappings' = extendedMappings /\ mappings' = mappings /\ mutex' = mutex /\ sized' = sized
  BY DEF Mapped!Translate, Mapped!file
<1>2. MappedTyped /\ CallsKnown /\ MappingsKnown /\ AnswersRight /\ InFile
  BY DEF MappedInv
<1>3. doing[t].step = "idle" /\ mutex # t
  <2>1. doing[t].step = "idle"
    BY <1>1 DEF Mapped!Idle
  <2>. QED BY <1>2, <2>1 DEF CallsKnown
<1>4. MappingsKnown' /\ InFile'
  <2>1. MappingsKnown'
    BY <1>1, <1>2 DEF MappingsKnown, SlotOffset, SlotSize
  <2>. QED BY <1>1, <1>2, <2>1 DEF InFile, Ends, SlotOffset
<1>5. doing \in [Mappers -> [step : MapSteps, offset : Nat]]
  BY <1>2 DEF MappedTyped
<1>6. CASE Mapped!Found(ofs) # 0
  <2>0. PICK a \in AnswerRecords :
           a = [mapping |-> Mapped!Found(ofs), into |-> Mapped!IntoMapping(mainMappingSize, ofs), asked |-> ofs]
    BY <1>1, <1>6, FoundRight
  <2>1. answer' = [answer EXCEPT ![t] = a] /\ doing' = [doing EXCEPT ![t] = Mapped!Idle]
    BY <1>6, <2>0 DEF Mapped!Translate, Mapped!Answer
  <2>2. a \in AnswerRecords /\ AnswerRight(a)
    BY <1>1, <1>6, <2>0, FoundRight
  <2>3. AnswersRight' /\ answer' \in [Mappers -> AnswerRecords]
    <3>1. \A b \in AnswerRecords : AnswerRight(b) => AnswerRight(b)'
      BY <1>1, AnswersStay
    <3>2. AnswerRight(a)'
      BY <1>1, <2>2 DEF AnswerRight
    <3>. QED BY <2>1, <2>2, <3>1, <3>2, AnsweredKept
  <2>4. doing' = doing
    BY <1>1, <1>5, <2>1
  <2>5. CallsKnown'
    BY <1>1, <1>2, <2>4 DEF CallsKnown, Mapped!Slot, Mapped!NeededSize
  <2>6. MappedTyped'
    BY <1>1, <1>2, <2>3, <2>4 DEF MappedTyped, AnswerRecords
  <2>. QED BY <1>4, <2>3, <2>5, <2>6 DEF MappedInv
<1>7. CASE Mapped!Found(ofs) = 0
  <2>1. doing' = [doing EXCEPT ![t] = [step |-> "lock", offset |-> ofs]] /\ answer' = answer
    BY <1>7 DEF Mapped!Translate
  <2>2. \A u \in Mappers : doing'[u] = IF u = t THEN [step |-> "lock", offset |-> ofs] ELSE doing[u]
    BY <1>5, <2>1
  <2>3. doing' \in [Mappers -> [step : MapSteps, offset : Nat]]
    BY <1>5, <2>1 DEF MapSteps
  <2>4. mode = "write" /\ Mapped!Slot(ofs) \in 1 .. SlotCount
    <3>1. Mapped!Slot(ofs) # 0
      BY <1>7 DEF Mapped!Found
    <3>2. Mapped!Slot(ofs) \in 0 .. SlotCount /\ mode \in {"closed", "read", "write"}
      BY <1>1, <1>2, OffsetInSlot DEF Mapped!Slot, MappedTyped
    <3>3. ofs < mainMappingSize => Mapped!Slot(ofs) = 0
      BY DEF Mapped!Slot, Mapped!MappingNumber
    <3>4. SlotCount \in Nat
      BY ServicesAssumption DEF Mapped!SegmentAssumption
    <3>. QED BY <1>1, <3>1, <3>2, <3>3, <3>4
  <2>5. \A x \in Nat : Mapped!Slot(x)' = Mapped!Slot(x)
    BY <1>1 DEF Mapped!Slot
  <2>6. ASSUME NEW u \in Mappers
        PROVE  /\ doing'[u].step = "idle" => doing'[u] = Mapped!Idle
               /\ doing'[u].step # "idle" => mode' = "write" /\ Mapped!Slot(doing[u].offset)' \in 1 .. SlotCount
               /\ doing'[u].step \in {"size", "map", "found"} <=> mutex' = u
               /\ doing'[u].step \in {"size", "map"} => extendedMappings'[Mapped!Slot(doing[u].offset)'] = 0
               /\ doing'[u].step = "found" => extendedMappings'[Mapped!Slot(doing[u].offset)'] # 0
               /\ doing'[u].step = "map" =>
                    /\ sized' = Mapped!Slot(doing[u].offset)'
                    /\ ~windows' => fileSize' = Mapped!NeededSize(Mapped!Slot(doing[u].offset))'
    <3>1. CASE u = t
      <4>1. doing'[u] = [step |-> "lock", offset |-> ofs]
        BY <2>2, <3>1
      <4>2. doing'[u].step = "lock" /\ doing'[u].offset = ofs
        BY <4>1
      <4>3. Mapped!Slot(doing[u].offset)' \in 1 .. SlotCount
        BY <1>1, <2>4, <4>2 DEF Mapped!Slot
      <4>. QED BY <1>1, <1>3, <2>4, <3>1, <4>2, <4>3
    <3>2. CASE u # t
      <4>1. doing'[u] = doing[u]
        BY <2>2, <3>2
      <4>. QED BY <1>1, <1>2, <4>1 DEF CallsKnown, Mapped!Slot, Mapped!NeededSize
    <3>. QED BY <3>1, <3>2
  <2>7. CallsKnown'
    BY <2>6 DEF CallsKnown
  <2>8. MappedTyped'
    BY <1>1, <1>2, <2>1, <2>3 DEF MappedTyped
  <2>9. AnswersRight'
    BY <1>1, <1>2, <2>1 DEF AnswersRight, AnswerRight
  <2>. QED BY <1>4, <2>7, <2>8, <2>9 DEF MappedInv
<1>. QED BY <1>6, <1>7

\* The thread takes the mutex and looks again.
LEMMA MutexKept ==
  ASSUME MappedInv, NEW t \in Mappers, Mapped!Lock(t)
  PROVE  MappedInv'
<1>. DEFINE n == Mapped!Slot(doing[t].offset)
            next == IF Mapped!NeedsMap(doing[t].offset) THEN "size" ELSE "found"
<1>1. /\ doing[t].step = "lock" /\ mutex = Nobody /\ mutex' = t
      /\ doing' = [doing EXCEPT ![t].step = next]
      /\ windows' = windows /\ mode' = mode /\ mainMappingSize' = mainMappingSize /\ fileSize' = fileSize
      /\ extendedMappings' = extendedMappings /\ mappings' = mappings /\ answer' = answer /\ sized' = sized
  BY DEF Mapped!Lock, Mapped!file
<1>2. MappedTyped /\ CallsKnown /\ MappingsKnown /\ AnswersRight /\ InFile
  BY DEF MappedInv
<1>3. MappingsKnown' /\ InFile' /\ AnswersRight'
  BY <1>1, <1>2 DEF MappingsKnown, SlotOffset, SlotSize, InFile, Ends, AnswersRight, AnswerRight
<1>4. doing \in [Mappers -> [step : MapSteps, offset : Nat]] /\ Nobody \notin Mappers
  BY <1>2, ServicesAssumption DEF MappedTyped, Mapped!MappedAssumption
<1>5. next \in {"size", "found"} /\ (next = "size" <=> Mapped!NeedsMap(doing[t].offset))
  OBVIOUS
<1>6. n \in 1 .. SlotCount /\ mode = "write"
  BY <1>1, <1>2 DEF CallsKnown
<1>7. next = "size" <=> extendedMappings[n] = 0
  <2>1. Mapped!Found(doing[t].offset) = extendedMappings[n]
    BY <1>6 DEF Mapped!Found
  <2>. QED BY <1>5, <2>1 DEF Mapped!NeedsMap
<1>. HIDE DEF next
<1>8. \A u \in Mappers : /\ doing'[u].step = IF u = t THEN next ELSE doing[u].step
                         /\ doing'[u].offset = doing[u].offset
                         /\ u # t => doing'[u] = doing[u]
  BY <1>1, <1>4
<1>9. doing' \in [Mappers -> [step : MapSteps, offset : Nat]]
  BY <1>1, <1>4, <1>5 DEF MapSteps
<1>10. \A x \in Nat : Mapped!Slot(x)' = Mapped!Slot(x)
  BY <1>1 DEF Mapped!Slot
<1>11. ASSUME NEW u \in Mappers
       PROVE  /\ doing'[u].step = "idle" => doing'[u] = Mapped!Idle
              /\ doing'[u].step # "idle" => mode' = "write" /\ Mapped!Slot(doing[u].offset)' \in 1 .. SlotCount
              /\ doing'[u].step \in {"size", "map", "found"} <=> mutex' = u
              /\ doing'[u].step \in {"size", "map"} => extendedMappings'[Mapped!Slot(doing[u].offset)'] = 0
              /\ doing'[u].step = "found" => extendedMappings'[Mapped!Slot(doing[u].offset)'] # 0
              /\ doing'[u].step = "map" =>
                   /\ sized' = Mapped!Slot(doing[u].offset)'
                   /\ ~windows' => fileSize' = Mapped!NeededSize(Mapped!Slot(doing[u].offset))'
  <2>1. CASE u = t
    <3>1. doing'[u].step = next /\ Mapped!Slot(doing[u].offset)' = n
      BY <1>1, <1>8, <2>1 DEF Mapped!Slot
    <3>. QED BY <1>1, <1>5, <1>6, <1>7, <2>1, <3>1
  <2>2. CASE u # t
    <3>1. doing'[u] = doing[u] /\ doing[u].step \notin {"size", "map", "found"}
      <4>1. mutex # u
        BY <1>1, <1>4
      <4>. QED BY <1>2, <1>8, <2>2, <4>1 DEF CallsKnown
    <3>2. Mapped!Slot(doing[u].offset)' = Mapped!Slot(doing[u].offset)
      BY <1>1, <3>1 DEF Mapped!Slot
    <3>. QED BY <1>1, <1>2, <2>2, <3>1, <3>2 DEF CallsKnown
  <2>. QED BY <2>1, <2>2
<1>12. CallsKnown'
  BY <1>11 DEF CallsKnown
<1>13. MappedTyped'
  BY <1>1, <1>2, <1>9 DEF MappedTyped
<1>. QED BY <1>3, <1>12, <1>13 DEF MappedInv

\* A thread that gives back the mutex leaves the others as they are.
LEMMA CallsOver ==
  ASSUME MappedInv, NEW t \in Mappers, mutex = t, mutex' = Nobody, doing' = [doing EXCEPT ![t] = Mapped!Idle],
         mode' = mode, mainMappingSize' = mainMappingSize
  PROVE  CallsKnown' /\ doing' \in [Mappers -> [step : MapSteps, offset : Nat]]
<1>1. CallsKnown /\ doing \in [Mappers -> [step : MapSteps, offset : Nat]] /\ Nobody \notin Mappers
  BY ServicesAssumption DEF MappedInv, MappedTyped, Mapped!MappedAssumption
<1>2. \A u \in Mappers : doing'[u] = IF u = t THEN Mapped!Idle ELSE doing[u]
  BY <1>1
<1>3. ASSUME NEW u \in Mappers
      PROVE  /\ doing'[u].step = "idle" => doing'[u] = Mapped!Idle
             /\ doing'[u].step # "idle" => mode' = "write" /\ Mapped!Slot(doing[u].offset)' \in 1 .. SlotCount
             /\ doing'[u].step \notin {"size", "map", "found"} /\ mutex' # u
  <2>1. CASE u = t
    <3>1. doing'[u].step = "idle" /\ doing'[u] = Mapped!Idle
      BY <1>2, <2>1 DEF Mapped!Idle
    <3>. QED BY <1>1, <3>1
  <2>2. CASE u # t
    <3>1. doing'[u] = doing[u] /\ doing[u].step \notin {"size", "map", "found"}
      BY <1>1, <1>2, <2>2 DEF CallsKnown
    <3>2. Mapped!Slot(doing[u].offset)' = Mapped!Slot(doing[u].offset)
      BY <3>1 DEF Mapped!Slot
    <3>. QED BY <1>1, <2>2, <3>1, <3>2 DEF CallsKnown
  <2>. QED BY <2>1, <2>2
<1>4. CallsKnown'
  BY <1>3 DEF CallsKnown
<1>5. doing' \in [Mappers -> [step : MapSteps, offset : Nat]]
  BY <1>1, <1>2 DEF Mapped!Idle, MapSteps
<1>. QED BY <1>4, <1>5

\* What another thread has mapped meanwhile is the answer.
LEMMA UnlockKept ==
  ASSUME MappedInv, NEW t \in Mappers, Mapped!Unlock(t)
  PROVE  MappedInv'
<1>. DEFINE ofs == doing[t].offset
<1>1. /\ doing[t].step = "found" /\ mutex' = Nobody /\ doing' = [doing EXCEPT ![t] = Mapped!Idle]
      /\ windows' = windows /\ mode' = mode /\ mainMappingSize' = mainMappingSize /\ fileSize' = fileSize
      /\ extendedMappings' = extendedMappings /\ mappings' = mappings /\ sized' = sized
  BY DEF Mapped!Unlock, Mapped!file, Mapped!Answer
<1>2. MappedTyped /\ CallsKnown /\ MappingsKnown /\ AnswersRight /\ InFile
  BY DEF MappedInv
<1>3. MappingsKnown' /\ InFile'
  BY <1>1, <1>2 DEF MappingsKnown, SlotOffset, SlotSize, InFile, Ends
<1>4. /\ mutex = t /\ mode = "write" /\ ofs \in Nat
      /\ Mapped!Slot(ofs) \in 1 .. SlotCount /\ extendedMappings[Mapped!Slot(ofs)] # 0
  <2>1. ofs \in Nat
    BY <1>2 DEF MappedTyped
  <2>. QED BY <1>1, <1>2, <2>1 DEF CallsKnown
<1>5. Mapped!Found(ofs) # 0 /\ Mapped!Slot(ofs) <= SlotCount /\ mode # "closed"
  <2>1. SlotCount \in Nat
    BY ServicesAssumption DEF Mapped!SegmentAssumption
  <2>2. Mapped!Found(ofs) = extendedMappings[Mapped!Slot(ofs)] /\ Mapped!Slot(ofs) <= SlotCount
    BY <1>4, <2>1 DEF Mapped!Found
  <2>. QED BY <1>4, <2>2
<1>6. PICK a \in AnswerRecords :
        a = [mapping |-> Mapped!Found(ofs), into |-> Mapped!IntoMapping(mainMappingSize, ofs), asked |-> ofs]
  BY <1>4, <1>5, FoundRight
<1>7. AnswerRight(a) /\ answer' = [answer EXCEPT ![t] = a]
  <2>1. AnswerRight(a)
    BY <1>4, <1>5, <1>6, FoundRight
  <2>2. answer' = [answer EXCEPT ![t] = a]
    BY <1>6 DEF Mapped!Unlock, Mapped!Answer
  <2>. QED BY <2>1, <2>2
<1>8. AnswersRight' /\ answer' \in [Mappers -> AnswerRecords]
  <2>1. \A b \in AnswerRecords : AnswerRight(b) => AnswerRight(b)'
    BY <1>1, AnswersStay
  <2>. QED BY <1>7, <2>1, AnsweredKept
<1>9. CallsKnown' /\ doing' \in [Mappers -> [step : MapSteps, offset : Nat]]
  BY <1>1, <1>4, CallsOver
<1>10. MappedTyped'
  BY <1>1, <1>2, <1>8, <1>9 DEF MappedTyped, AnswerRecords
<1>. QED BY <1>3, <1>8, <1>9, <1>10 DEF MappedInv

\* Sizing or mapping fails, and the mutex is given back.
LEMMA MappingFails ==
  ASSUME MappedInv, NEW t \in Mappers, Mapped!Fail(t)
  PROVE  MappedInv'
<1>1. /\ doing[t].step \in {"size", "map"} /\ mutex' = Nobody /\ doing' = [doing EXCEPT ![t] = Mapped!Idle]
      /\ windows' = windows /\ mode' = mode /\ mainMappingSize' = mainMappingSize /\ fileSize' = fileSize
      /\ extendedMappings' = extendedMappings /\ mappings' = mappings /\ answer' = answer /\ sized' = sized
  BY DEF Mapped!Fail, Mapped!file
<1>2. MappedTyped /\ CallsKnown /\ MappingsKnown /\ AnswersRight /\ InFile
  BY DEF MappedInv
<1>3. MappingsKnown' /\ InFile' /\ AnswersRight'
  BY <1>1, <1>2 DEF MappingsKnown, SlotOffset, SlotSize, InFile, Ends, AnswersRight, AnswerRight
<1>4. mutex = t
  BY <1>1, <1>2 DEF CallsKnown
<1>5. CallsKnown' /\ doing' \in [Mappers -> [step : MapSteps, offset : Nat]]
  BY <1>1, <1>4, CallsOver
<1>6. MappedTyped'
  BY <1>1, <1>2, <1>5 DEF MappedTyped
<1>. QED BY <1>3, <1>5, <1>6 DEF MappedInv

\* Which slot each mapping is of.
LEMMA MappingOfSlot ==
  ASSUME MappedInv, NEW i \in 1 .. Len(mappings)
  PROVE  \/ i = 1 /\ mappings[i].offset = 0 /\ mappings[i].size = mainMappingSize
         \/ \E n \in 1 .. SlotCount : /\ i # 1 /\ extendedMappings[n] = i
                                     /\ mappings[i].offset = SlotOffset(n) /\ mappings[i].size = SlotSize(n)
<1>1. MappingsKnown /\ mappings \in Seq([offset : Nat, size : Nat])
  BY DEF MappedInv, MappedTyped
<1>2. Len(mappings) \in Nat /\ mode # "closed"
  <2>1. Len(mappings) \in Nat
    BY <1>1
  <2>2. mappings # <<>>
    BY <1>1
  <2>. QED BY <1>1, <2>1, <2>2 DEF MappingsKnown
<1>3. CASE i = 1
  BY <1>1, <1>2, <1>3 DEF MappingsKnown
<1>4. CASE i # 1
  <2>1. i \in 2 .. Len(mappings)
    BY <1>2, <1>4
  <2>2. PICK n \in 1 .. SlotCount : extendedMappings[n] = i
    BY <1>1, <2>1 DEF MappingsKnown
  <2>3. extendedMappings[n] # 0
    BY <1>2, <2>1, <2>2
  <2>. QED BY <1>1, <1>4, <2>2, <2>3 DEF MappingsKnown
<1>. QED BY <1>3, <1>4

\* The file is made just as long as the mapping needs: everything below it is in
\* it, and nothing above it.
LEMMA SizingKept ==
  ASSUME MappedInv, NEW t \in Mappers, Mapped!SetSize(t)
  PROVE  MappedInv'
<1>. DEFINE ofs == doing[t].offset
            n == Mapped!Slot(ofs)
<1>1. /\ doing[t].step = "size" /\ doing' = [doing EXCEPT ![t].step = "map"]
      /\ fileSize' = IF windows THEN fileSize ELSE Mapped!NeededSize(n)
      /\ sized' = n
      /\ windows' = windows /\ mode' = mode /\ mainMappingSize' = mainMappingSize
      /\ extendedMappings' = extendedMappings /\ mappings' = mappings /\ mutex' = mutex /\ answer' = answer
  BY DEF Mapped!SetSize, Mapped!Resize, Mapped!file
<1>2. MappedTyped /\ CallsKnown /\ MappingsKnown /\ AnswersRight /\ InFile
  BY DEF MappedInv
<1>3. MappingsKnown' /\ AnswersRight'
  BY <1>1, <1>2 DEF MappingsKnown, SlotOffset, SlotSize, AnswersRight, AnswerRight
<1>4. mainMappingSize \in Nat /\ fileSize \in Nat /\ doing \in [Mappers -> [step : MapSteps, offset : Nat]]
  BY <1>2 DEF MappedTyped
<1>5. mutex = t /\ mode = "write" /\ n \in 1 .. SlotCount /\ extendedMappings[n] = 0
  BY <1>1, <1>2 DEF CallsKnown
<1>6. /\ SlotOffset(n) \in Nat /\ SlotSize(n) \in Nat /\ mainMappingSize <= SlotOffset(n)
      /\ Mapped!NeededSize(n) = SlotOffset(n) + SlotSize(n)
  BY <1>4, <1>5, SlotsLaidOut
<1>7. \A u \in Mappers : /\ doing'[u].step = IF u = t THEN "map" ELSE doing[u].step
                         /\ doing'[u].offset = doing[u].offset
                         /\ u # t => doing'[u] = doing[u]
  BY <1>1, <1>4
<1>8. doing' \in [Mappers -> [step : MapSteps, offset : Nat]]
  BY <1>1, <1>4 DEF MapSteps
<1>9. ASSUME NEW u \in Mappers
      PROVE  /\ doing'[u].step = "idle" => doing'[u] = Mapped!Idle
             /\ doing'[u].step # "idle" => mode' = "write" /\ Mapped!Slot(doing[u].offset)' \in 1 .. SlotCount
             /\ doing'[u].step \in {"size", "map", "found"} <=> mutex' = u
             /\ doing'[u].step \in {"size", "map"} => extendedMappings'[Mapped!Slot(doing[u].offset)'] = 0
             /\ doing'[u].step = "found" => extendedMappings'[Mapped!Slot(doing[u].offset)'] # 0
             /\ doing'[u].step = "map" =>
                  /\ sized' = Mapped!Slot(doing[u].offset)'
                  /\ ~windows' => fileSize' = Mapped!NeededSize(Mapped!Slot(doing[u].offset))'
  <2>1. CASE u = t
    <3>1. doing'[u].step = "map" /\ Mapped!Slot(doing[u].offset)' = n
      BY <1>1, <1>7, <2>1 DEF Mapped!Slot
    <3>2. Mapped!NeededSize(Mapped!Slot(doing[u].offset))' = Mapped!NeededSize(n)
      BY <1>1, <3>1 DEF Mapped!NeededSize
    <3>. QED BY <1>1, <1>5, <2>1, <3>1, <3>2
  <2>2. CASE u # t
    <3>1. doing'[u] = doing[u] /\ doing[u].step \notin {"size", "map", "found"}
      BY <1>2, <1>5, <1>7, <2>2 DEF CallsKnown
    <3>2. Mapped!Slot(doing[u].offset)' = Mapped!Slot(doing[u].offset)
      BY <1>1, <3>1 DEF Mapped!Slot
    <3>. QED BY <1>1, <1>2, <1>5, <2>2, <3>1, <3>2 DEF CallsKnown
  <2>. QED BY <2>1, <2>2
<1>10. CallsKnown'
  BY <1>9 DEF CallsKnown
<1>11. MappedTyped'
  <2>1. fileSize' \in Nat
    <3>1. Mapped!NeededSize(n) \in Nat
      BY <1>6
    <3>. QED BY <1>1, <1>4, <3>1
  <2>2. sized' \in 0 .. SlotCount
    <3>1. SlotCount \in Nat
      BY ServicesAssumption DEF Mapped!SegmentAssumption
    <3>. QED BY <1>1, <1>5, <3>1
  <2>. QED BY <1>1, <1>2, <1>8, <2>1, <2>2 DEF MappedTyped
<1>12. InFile'
  <2>1. CASE windows
    BY <1>1, <1>2, <2>1 DEF InFile, Ends
  <2>2. CASE ~windows
    <3>1. ASSUME NEW i \in 1 .. Len(mappings)
          PROVE  Ends(i) <= SlotOffset(n) + SlotSize(n) <=> mappings[i].offset <= SlotOffset(n)
      <4>1. CASE i = 1 /\ mappings[i].offset = 0 /\ mappings[i].size = mainMappingSize
        BY <1>4, <1>6, <4>1 DEF Ends
      <4>2. ASSUME NEW m \in 1 .. SlotCount, mappings[i].offset = SlotOffset(m), mappings[i].size = SlotSize(m)
            PROVE  SlotOffset(m) + SlotSize(m) <= SlotOffset(n) + SlotSize(n) <=> SlotOffset(m) <= SlotOffset(n)
        <5>1. SlotOffset(m) \in Nat /\ SlotSize(m) \in Nat /\ 0 < SlotSize(m)
          BY <1>4, SlotsLaidOut
        <5>2. m < n => SlotOffset(m) + SlotSize(m) <= SlotOffset(n)
          BY <1>4, <1>5, SlotsLaidOut
        <5>3. n < m => SlotOffset(n) < SlotOffset(m) /\ SlotOffset(n) + SlotSize(n) <= SlotOffset(m)
          BY <1>4, <1>5, SlotsLaidOut
        <5>4. m = n \/ m < n \/ n < m
          <6>1. SlotCount \in Nat
            BY ServicesAssumption DEF Mapped!SegmentAssumption
          <6>. QED BY <1>5, <6>1
        <5>5. CASE m = n
          BY <1>6, <5>1, <5>5
        <5>6. CASE m < n
          BY <1>6, <5>1, <5>2, <5>6
        <5>7. CASE n < m
          BY <1>6, <5>1, <5>3, <5>7
        <5>. QED BY <5>4, <5>5, <5>6, <5>7
      <4>. QED BY <4>1, <4>2, MappingOfSlot DEF Ends
    <3>2. /\ SlotOffset(sized)' = SlotOffset(n) /\ fileSize' = SlotOffset(n) + SlotSize(n)
          /\ \A i \in 1 .. Len(mappings) : Ends(i)' = Ends(i)
      BY <1>1, <1>6, <2>2 DEF SlotOffset, Ends
    <3>. QED BY <1>1, <2>2, <3>1, <3>2 DEF InFile
  <2>. QED BY <2>1, <2>2
<1>. QED BY <1>3, <1>10, <1>11, <1>12 DEF MappedInv

\* A mapping has an offset and a size.
LEMMA MappingTyped ==
  ASSUME mappings \in Seq([offset : Nat, size : Nat]), NEW i \in 1 .. Len(mappings)
  PROVE  mappings[i].offset \in Nat /\ mappings[i].size \in Nat
<1>. DEFINE R == [offset : Nat, size : Nat]
<1>1. mappings \in Seq(R)
  OBVIOUS
<1>. HIDE DEF R
<1>2. mappings[i] \in R
  BY <1>1, ElementOfSeq
<1>. QED BY <1>2 DEF R

\* The slot's part of the file is mapped.
LEMMA MapKept ==
  ASSUME MappedInv, NEW t \in Mappers, Mapped!CreateExtendedMapping(t)
  PROVE  MappedInv'
<1>. DEFINE ofs == doing[t].offset
            n == Mapped!Slot(ofs)
            M == [offset |-> SlotOffset(n), size |-> SlotSize(n)]
            new == Len(mappings) + 1
<1>1. /\ doing[t].step = "map" /\ mutex' = Nobody /\ doing' = [doing EXCEPT ![t] = Mapped!Idle]
      /\ mappings' = Append(mappings, M) /\ extendedMappings' = [extendedMappings EXCEPT ![n] = Len(mappings')]
      /\ fileSize' = IF windows /\ SlotOffset(n) + SlotSize(n) > fileSize THEN SlotOffset(n) + SlotSize(n) ELSE fileSize
      /\ windows' = windows /\ mode' = mode /\ mainMappingSize' = mainMappingSize /\ sized' = sized
      /\ answer' = [answer EXCEPT ![t] = [mapping |-> Len(mappings'), into |-> Mapped!IntoMapping(mainMappingSize, ofs),
                                         asked |-> ofs]]
  BY DEF Mapped!CreateExtendedMapping, Mapped!Map, Mapped!file, Mapped!Answer, SlotOffset, SlotSize
<1>2. MappedTyped /\ CallsKnown /\ MappingsKnown /\ AnswersRight /\ InFile
  BY DEF MappedInv
<1>3. /\ mainMappingSize \in Nat /\ fileSize \in Nat /\ windows \in BOOLEAN
      /\ mappings \in Seq([offset : Nat, size : Nat]) /\ extendedMappings \in [1 .. SlotCount -> Nat] /\ ofs \in Nat
  BY <1>2 DEF MappedTyped
<1>4. /\ mutex = t /\ mode = "write" /\ n \in 1 .. SlotCount /\ extendedMappings[n] = 0
      /\ sized = n /\ (~windows => fileSize = Mapped!NeededSize(n))
  BY <1>1, <1>2 DEF CallsKnown
<1>5. /\ SlotOffset(n) \in Nat /\ SlotSize(n) \in Nat
      /\ Mapped!NeededSize(n) = SlotOffset(n) + SlotSize(n)
  BY <1>3, <1>4, SlotsLaidOut
<1>. HIDE DEF n, ofs
<1>6. /\ Len(mappings') = new /\ mappings'[new].offset = SlotOffset(n) /\ mappings'[new].size = SlotSize(n)
      /\ Len(mappings) \in Nat /\ \A i \in 1 .. Len(mappings) : mappings'[i] = mappings[i]
      /\ mappings' \in Seq([offset : Nat, size : Nat]) /\ mappings' # <<>>
  <2>1. M \in [offset : Nat, size : Nat] /\ M.offset = SlotOffset(n) /\ M.size = SlotSize(n)
    BY <1>5
  <2>. HIDE DEF M
  <2>. QED BY <1>1, <1>3, <2>1
<1>7. mappings # <<>> /\ 1 <= Len(mappings)
  <2>1. mappings # <<>>
    BY <1>2, <1>4 DEF MappingsKnown
  <2>. QED BY <1>3, <2>1
<1>8. \A m \in 1 .. SlotCount : extendedMappings'[m] = IF m = n THEN new ELSE extendedMappings[m]
  BY <1>1, <1>3, <1>6
<1>9. \A m : SlotOffset(m)' = SlotOffset(m) /\ SlotSize(m)' = SlotSize(m)
  BY <1>1 DEF SlotOffset, SlotSize
<1>. HIDE DEF new
<1>10. new \in Nat /\ new = Len(mappings) + 1 /\ 2 <= new
  BY <1>6, <1>7 DEF new
<1>. DEFINE Typed(i) == mappings[i].offset \in Nat /\ mappings[i].size \in Nat
<1>0. \A i \in 1 .. Len(mappings) : Typed(i)
  BY <1>3, MappingTyped
<1>11. MappingsKnown'
  <2>1. mappings' # <<>> /\ mappings'[1].offset = 0 /\ mappings'[1].size = mainMappingSize'
    <3>1. mappings[1].offset = 0 /\ mappings[1].size = mainMappingSize
      BY <1>2, <1>4 DEF MappingsKnown
    <3>. QED BY <1>1, <1>6, <1>7, <3>1
  <2>2. ASSUME NEW m \in 1 .. SlotCount, extendedMappings'[m] # 0
        PROVE  /\ extendedMappings'[m] \in 2 .. Len(mappings')
               /\ mappings'[extendedMappings'[m]].offset = SlotOffset(m)'
               /\ mappings'[extendedMappings'[m]].size = SlotSize(m)'
    <3>1. CASE m = n
      BY <1>6, <1>8, <1>9, <1>10, <3>1
    <3>2. CASE m # n
      <4>1. extendedMappings'[m] = extendedMappings[m]
        BY <1>8, <3>2
      <4>2. /\ extendedMappings[m] \in 2 .. Len(mappings)
            /\ mappings[extendedMappings[m]].offset = SlotOffset(m)
            /\ mappings[extendedMappings[m]].size = SlotSize(m)
        BY <1>2, <2>2, <4>1 DEF MappingsKnown
      <4>3. extendedMappings[m] \in 2 .. Len(mappings') /\ mappings'[extendedMappings[m]] = mappings[extendedMappings[m]]
        BY <1>6, <1>10, <4>2
      <4>. QED BY <1>9, <4>1, <4>2, <4>3
    <3>. QED BY <3>1, <3>2
  <2>3. ASSUME NEW i \in 2 .. Len(mappings') PROVE \E m \in 1 .. SlotCount : extendedMappings'[m] = i
    <3>1. CASE i = new
      BY <1>4, <1>8, <3>1 DEF n
    <3>2. CASE i # new
      <4>1. i \in 2 .. Len(mappings)
        BY <1>6, <1>10, <3>2
      <4>2. PICK m \in 1 .. SlotCount : extendedMappings[m] = i
        BY <1>2, <4>1 DEF MappingsKnown
      <4>3. m # n
        BY <1>4, <1>6, <4>1, <4>2 DEF n
      <4>. QED BY <1>8, <4>2, <4>3
    <3>. QED BY <3>1, <3>2
  <2>4. mode' # "closed"
    BY <1>1, <1>4
  <2>. QED BY <2>1, <2>2, <2>3, <2>4 DEF MappingsKnown
<1>12. PICK a \in AnswerRecords : a = [mapping |-> Len(mappings'), into |-> Mapped!IntoMapping(mainMappingSize, ofs), asked |-> ofs]
  <2>1. Mapped!IntoMapping(mainMappingSize, ofs) \in Nat
    <3>1. SlotCount \in Nat /\ n <= SlotCount /\ n # 0
      BY <1>4, ServicesAssumption DEF Mapped!SegmentAssumption, n, ofs
    <3>. QED BY <1>3, <3>1, OffsetInSlot DEF n, ofs, Mapped!Slot
  <2>2. Len(mappings') \in Nat
    BY <1>6, <1>10
  <2>. QED BY <1>3, <2>1, <2>2 DEF AnswerRecords
<1>13. AnswersRight' /\ answer' \in [Mappers -> AnswerRecords]
  <2>1. a.mapping = new /\ a.asked = ofs /\ a.into < SlotSize(n) /\ SlotOffset(n) + a.into = ofs
    <3>1. SlotCount \in Nat /\ n <= SlotCount /\ n # 0
      BY <1>4, ServicesAssumption DEF Mapped!SegmentAssumption, n, ofs
    <3>2. /\ Mapped!IntoMapping(mainMappingSize, ofs) < SlotSize(n)
          /\ SlotOffset(n) + Mapped!IntoMapping(mainMappingSize, ofs) = ofs
      BY <1>3, <3>1, OffsetInSlot DEF n, ofs, Mapped!Slot, SlotSize, SlotOffset
    <3>. QED BY <1>6, <1>12, <3>2
  <2>2. AnswerRight(a)'
    <3>1. new \in 1 .. Len(mappings')
      BY <1>6, <1>10
    <3>2. a.into < mappings'[new].size /\ mappings'[new].offset + a.into = a.asked
      BY <1>6, <2>1
    <3>. QED BY <2>1, <3>1, <3>2 DEF AnswerRight
  <2>3. ASSUME NEW b \in AnswerRecords, AnswerRight(b) PROVE AnswerRight(b)'
    <3>1. b.mapping \in 1 .. Len(mappings) /\ b.into < mappings[b.mapping].size
          /\ mappings[b.mapping].offset + b.into = b.asked
      BY <2>3 DEF AnswerRight
    <3>2. b.mapping \in 1 .. Len(mappings') /\ mappings'[b.mapping] = mappings[b.mapping]
      BY <1>6, <1>10, <3>1
    <3>. QED BY <3>1, <3>2 DEF AnswerRight
  <2>4. answer' = [answer EXCEPT ![t] = a]
    BY <1>1, <1>12 DEF n, ofs
  <2>. QED BY <2>2, <2>3, <2>4, AnsweredKept
<1>14. CallsKnown' /\ doing' \in [Mappers -> [step : MapSteps, offset : Nat]]
  BY <1>1, <1>4, CallsOver
<1>15. MappedTyped'
  <2>1. fileSize' \in Nat
    BY <1>1, <1>3, <1>5 DEF n, ofs
  <2>2. extendedMappings' \in [1 .. SlotCount -> Nat]
    BY <1>1, <1>3, <1>6, <1>10
  <2>. QED BY <1>1, <1>2, <1>6, <1>13, <1>14, <2>1, <2>2 DEF MappedTyped, AnswerRecords
<1>16. InFile'
  <2>1. /\ fileSize <= fileSize' /\ SlotOffset(n) + SlotSize(n) <= fileSize' /\ fileSize' \in Nat
        /\ ~windows => fileSize' = fileSize
    BY <1>1, <1>3, <1>4, <1>5 DEF n, ofs
  <2>2. SlotOffset(sized)' = SlotOffset(n) /\ SlotOffset(sized) = SlotOffset(n)
    BY <1>1, <1>4 DEF SlotOffset, n, ofs
  <2>3. ASSUME NEW i \in 1 .. Len(mappings')
        PROVE  Ends(i)' <= fileSize' <=> windows' \/ mappings'[i].offset <= SlotOffset(sized)'
    <3>1. CASE i = new
      BY <1>5, <1>6, <2>1, <2>2, <3>1 DEF Ends, n, ofs
    <3>2. CASE i # new
      <4>1. i \in 1 .. Len(mappings) /\ mappings'[i] = mappings[i]
        <5>1. i \in 1 .. Len(mappings)
          BY <1>6, <1>10, <3>2
        <5>. QED BY <1>6, <5>1
      <4>2. Ends(i) <= fileSize <=> windows \/ mappings[i].offset <= SlotOffset(sized)
        BY <1>2, <4>1 DEF InFile
      <4>3. Ends(i)' = Ends(i) /\ Ends(i) \in Nat
        BY <1>0, <4>1 DEF Ends
      <4>4. CASE windows
        BY <1>1, <1>3, <2>1, <4>2, <4>3, <4>4
      <4>5. CASE ~windows
        BY <1>1, <2>1, <2>2, <4>1, <4>2, <4>3, <4>5
      <4>. QED BY <4>4, <4>5
    <3>. QED BY <3>1, <3>2
  <2>. QED BY <2>3 DEF InFile
<1>. QED BY <1>11, <1>13, <1>14, <1>15, <1>16 DEF MappedInv

-----------------------------------------------------------------------------
(* Mapped files: the specification *)

\* A step of the mapped file keeps the invariant.
LEMMA MappedSteps ==
  ASSUME MappedInv, Mapped!Next
  PROVE  MappedInv'
<1>1. Mapped!Offsets \subseteq Nat
  BY DEF Mapped!Offsets
<1>2. CASE Mapped!OpenToRead \/ Mapped!OpenToWrite
  BY <1>2, OpensKept
<1>3. CASE Mapped!Close \/ Mapped!Clear
  BY <1>3, ClosesKept
<1>4. ASSUME NEW t \in Mappers, NEW ofs \in Mapped!Offsets, Mapped!Translate(t, ofs) PROVE MappedInv'
  BY <1>1, <1>4, TranslateKept
<1>5. ASSUME NEW t \in Mappers, Mapped!Lock(t) PROVE MappedInv'
  BY <1>5, MutexKept
<1>6. ASSUME NEW t \in Mappers, Mapped!Unlock(t) PROVE MappedInv'
  BY <1>6, UnlockKept
<1>7. ASSUME NEW t \in Mappers, Mapped!SetSize(t) PROVE MappedInv'
  BY <1>7, SizingKept
<1>8. ASSUME NEW t \in Mappers, Mapped!CreateExtendedMapping(t) PROVE MappedInv'
  BY <1>8, MapKept
<1>9. ASSUME NEW t \in Mappers, Mapped!Fail(t) PROVE MappedInv'
  BY <1>9, MappingFails
<1>. QED BY <1>2, <1>3, <1>4, <1>5, <1>6, <1>7, <1>8, <1>9 DEF Mapped!Next

\* The invariant stays when nothing of the mapped file changes.
LEMMA MappedUnchanged ==
  ASSUME MappedInv, UNCHANGED <<mappedVars, doing>>
  PROVE  MappedInv'
<1>1. UNCHANGED <<windows, fileSize, mode, mainMappingSize, extendedMappings, mappings, mutex, doing, answer, sized>>
  BY DEF mappedVars
<1>2. MappedTyped'
  BY <1>1 DEF MappedInv, MappedTyped
<1>3. MappingsKnown'
  BY <1>1 DEF MappedInv, MappingsKnown, SlotOffset, SlotSize
<1>4. CallsKnown'
  BY <1>1 DEF MappedInv, CallsKnown, Mapped!Slot, Mapped!NeededSize
<1>5. AnswersRight' /\ InFile'
  BY <1>1 DEF MappedInv, AnswersRight, AnswerRight, InFile, Ends, SlotOffset
<1>. QED BY <1>2, <1>3, <1>4, <1>5 DEF MappedInv

\* No two mappings share a byte of the file.
LEMMA MappingsApart ==
  ASSUME MappedInv
  PROVE  Mapped!MappedOnce
<1>1. mainMappingSize \in Nat /\ mappings \in Seq([offset : Nat, size : Nat])
  BY DEF MappedInv, MappedTyped
<1>. DEFINE Below(i, j) == mappings[i].offset + mappings[i].size <= mappings[j].offset
<1>2. ASSUME NEW i \in 1 .. Len(mappings), NEW j \in 1 .. Len(mappings), i < j
      PROVE  Below(i, j) \/ Below(j, i)
  <2>1. Len(mappings) \in Nat
    BY <1>1
  <2>2. i \in Nat /\ 1 <= i /\ j \in Nat /\ j # 1
    BY <1>2, <2>1
  <2>3. PICK m \in 1 .. SlotCount : /\ extendedMappings[m] = j
                                   /\ mappings[j].offset = SlotOffset(m) /\ mappings[j].size = SlotSize(m)
    BY <2>2, MappingOfSlot
  <2>4. SlotOffset(m) \in Nat /\ mainMappingSize <= SlotOffset(m)
    BY <1>1, SlotsLaidOut
  <2>5. CASE i = 1 /\ mappings[i].offset = 0 /\ mappings[i].size = mainMappingSize
    BY <1>1, <2>3, <2>4, <2>5
  <2>6. ASSUME NEW n \in 1 .. SlotCount, extendedMappings[n] = i,
               mappings[i].offset = SlotOffset(n), mappings[i].size = SlotSize(n)
        PROVE  Below(i, j) \/ Below(j, i)
    <3>1. n # m
      BY <1>2, <2>2, <2>3, <2>6
    <3>2. n < m \/ m < n
      <4>1. SlotCount \in Nat
        BY ServicesAssumption DEF Mapped!SegmentAssumption
      <4>. QED BY <3>1, <4>1
    <3>3. /\ n < m => SlotOffset(n) + SlotSize(n) <= SlotOffset(m)
          /\ m < n => SlotOffset(m) + SlotSize(m) <= SlotOffset(n)
      BY <1>1, SlotsLaidOut
    <3>. QED BY <2>3, <2>6, <3>2, <3>3
  <2>. HIDE DEF Below
  <2>. QED BY <2>5, <2>6, MappingOfSlot
<1>3. DOMAIN mappings = 1 .. Len(mappings)
  BY <1>1
<1>. QED BY <1>2, <1>3 DEF Mapped!MappedOnce

\* What the invariant says of addresses, mappings and the file.
LEMMA MappedImplied ==
  ASSUME MappedInv
  PROVE  Mapped!TranslatedRight /\ Mapped!MappedOnce /\ Mapped!MappedInFile
<1>1. Mapped!TranslatedRight
  BY DEF MappedInv, AnswersRight, AnswerRight, Mapped!TranslatedRight
<1>2. Mapped!MappedInFile
  <2>1. mappings \in Seq([offset : Nat, size : Nat]) /\ InFile
    BY DEF MappedInv, MappedTyped
  <2>2. DOMAIN mappings = 1 .. Len(mappings)
    BY <2>1
  <2>. QED BY <2>1, <2>2 DEF InFile, Ends, SlotOffset, Mapped!InFile, Mapped!MappedInFile
<1>. QED BY <1>1, <1>2, MappingsApart

\* For any threads, sizes and lengths of a segment: translate() gives the address
\* it was asked for, no part of a file is mapped twice, and of what is mapped just
\* the parts above the one that the size was last set for are not in the file, on
\* Windows none (ExpandableMappedFile.cpp, lines 49-107).
THEOREM MappedAlwaysRight == Spec => []MappedRight
<1>. DEFINE Inv == subject = "mapped" => MappedInv
<1>1. Init => Inv
  BY MappedStarts DEF Init
<1>2. Inv /\ [Next]_vars => Inv'
  <2>. SUFFICES ASSUME Inv, [Next]_vars, subject' = "mapped" PROVE MappedInv'
    OBVIOUS
  <2>1. CASE MappedStep
    BY <2>1, MappedSteps DEF MappedStep
  <2>2. CASE UNCHANGED vars
    <3>1. subject = "mapped" /\ UNCHANGED <<mappedVars, doing>>
      BY <2>2 DEF vars
    <3>. QED BY <3>1, MappedUnchanged
  <2>3. CASE HandlesStep \/ ConsoleStep \/ PileStep \/ RegistryStep \/ BufferStep \/ MemoryStep \/ CellsStep
    BY <2>3 DEF HandlesStep, ConsoleStep, PileStep, RegistryStep, BufferStep, MemoryStep, CellsStep
  <2>. QED BY <2>1, <2>2, <2>3 DEF Next
<1>3. Inv => MappedRight
  BY MappedImplied DEF MappedRight
<1>. QED BY <1>1, <1>2, <1>3, PTL DEF Spec

-----------------------------------------------------------------------------
(* Pile files: the inductive invariant *)

PileBytes == Nat \X Nat
ChunkRecords == [payloadSize : Nat, rest : Nat, data : Seq(PileBytes)]
EntryRecords == [firstPage : Nat, lastPage : Nat, totalPayloadSize : Nat]
Payload(n) == n * Pile!PageSize - HeaderSize

\* Chunks, and chunks set aside, are known by their first page: how many pages
\* they have, whose they are, and where in its pile each of them starts.
Places(pc, pos, own, pages) ==
  /\ DOMAIN pages \subseteq Nat \ {0} /\ pos \in [DOMAIN pages -> Nat] /\ own \in [DOMAIN pages -> Piles]
  /\ \A a \in DOMAIN pages : pages[a] \in Nat \ {0} /\ a + pages[a] <= pc
  /\ \A a, b \in DOMAIN pages : a < b => a + pages[a] <= b
Headers(ch, pages) ==
  /\ DOMAIN ch \subseteq DOMAIN pages
  /\ \A a \in DOMAIN ch : ch[a] \in ChunkRecords /\ ch[a].payloadSize = Payload(pages[a])

EntryKnown(e, ap, p, ch, pos, own, pages) ==
  /\ e \in EntryRecords /\ ap \in Seq(PileBytes)
  /\ e.firstPage # 0 => e.firstPage \in DOMAIN pages /\ own[e.firstPage] = p /\ pos[e.firstPage] = 0
  /\ e.lastPage = 0 => ap = <<>>
  /\ e.lastPage = 0 /\ e.firstPage # 0 => e.firstPage \notin DOMAIN ch /\ e.totalPayloadSize = Payload(pages[e.firstPage])
  /\ e.lastPage # 0 => /\ e.firstPage # 0 /\ e.firstPage \in DOMAIN ch /\ e.lastPage \in DOMAIN ch
                       /\ own[e.lastPage] = p /\ e.totalPayloadSize = Len(ap)

\* What a chunk holds is in its place in the pile; the last one holds the end of
\* it, any other one is full, is followed by the next, and is not the end.
Holds(c, ofs, ap) == \A i \in 1 .. Len(c.data) : ofs + i <= Len(ap) /\ c.data[i] = ap[ofs + i]
EndsPile(c, ofs, ap) == ofs + Len(c.data) = Len(ap) /\ Len(c.data) + c.rest = c.payloadSize
GoesOn(c, a, ap, ch, pos, own) ==
  /\ Len(c.data) = c.payloadSize /\ c.rest \in DOMAIN ch /\ own[c.rest] = own[a]
  /\ pos[c.rest] = pos[a] + c.payloadSize /\ pos[a] + c.payloadSize < Len(ap)
ChunkKnown(a, e, ap, ch, pos, own) ==
  /\ e.lastPage # 0 /\ Holds(ch[a], pos[a], ap)
  /\ a = e.lastPage => EndsPile(ch[a], pos[a], ap)
  /\ a # e.lastPage => GoesOn(ch[a], a, ap, ch, pos, own)

Chained(ch, ix, app, pc, pos, own, pages) ==
  /\ Places(pc, pos, own, pages) /\ Headers(ch, pages)
  /\ \A p \in Piles : EntryKnown(ix[p], app[p], p, ch, pos, own, pages)
  /\ \A a \in DOMAIN ch : ChunkKnown(a, ix[own[a]], app[own[a]], ch, pos, own)

\* A byte is as it was appended, or was beyond a mapping.
ReadAs(d, ap, beyond, i) == d[i] = ap[i] \/ (i \in beyond /\ d[i] = Pile!Strange)

\* What is read so far comes before the chunk that is read next.
LoadKnown(l, beyond, ch, ap, pos, own, size) ==
  /\ l.pile \in Piles /\ l.page \in DOMAIN ch /\ own[l.page] = l.pile
  /\ l.data \in Seq(PileBytes) /\ Len(l.data) = pos[l.page] /\ \A i \in 1 .. Len(l.data) : ReadAs(l.data, ap, beyond, i)
  /\ l.left = Len(ap) - pos[l.page] /\ size = Len(ap)

PileTyped ==
  /\ pageSize \in {Pile!PageSize, PageShift} /\ pageCount \in Nat \ {0} /\ calls \in Nat
  /\ DOMAIN index = Piles /\ DOMAIN appended = Piles
  /\ loading \in [pile : Piles \union {0}, page : Nat, left : Nat, data : Seq(PileBytes)]
  /\ block \in [capacity : Nat, size : Nat, cycles : Nat \ {0}] /\ block.size <= block.capacity

PileInv ==
  /\ PileTyped
  /\ \E pos, own, pages :
       /\ Chained(chunks, index, appended, pageCount, pos, own, pages)
       /\ loading # Pile!Idle => LoadKnown(loading, crossed, chunks, appended[loading.pile], pos, own, block.size)

-----------------------------------------------------------------------------
(* Pile files: sizes of pages and chunks *)

\* A power of two is more than its exponent.
LEMMA PowerAbove == \A n \in Nat : n + 1 <= Pile!Power[n]
<1>. DEFINE W(n) == Mapped!Power[n]
            S == {n \in Nat : ~(n + 1 <= W(n))}
<1>1. W(0) = 1 /\ \A n \in Nat : W(n) \in Nat /\ W(n + 1) = 2 * W(n)
  BY PowerDoubles
<1>2. Pile!Power = Mapped!Power
  BY DEF Pile!Power, Mapped!Power
<1>. HIDE DEF W
<1>3. S = {}
  <2>. SUFFICES ASSUME S # {} PROVE FALSE
    OBVIOUS
  <2>1. PICK m \in S : \A n \in S : m <= n
    BY LeastNat
  <2>2. m # 0
    BY <1>1, <2>1
  <2>3. m - 1 \in Nat /\ m - 1 \notin S
    BY <2>1, <2>2
  <2>4. W(m - 1) \in Nat /\ W((m - 1) + 1) = 2 * W(m - 1) /\ m <= W(m - 1)
    BY <1>1, <2>3
  <2>5. (m - 1) + 1 = m
    BY <2>1
  <2>. QED BY <2>1, <2>2, <2>4, <2>5
<1>4. \A n \in Nat : n + 1 <= W(n)
  BY <1>3
<1>. QED BY <1>2, <1>4 DEF W

\* A page has room for a header, also if its size is taken to be the shift.
LEMMA PageSizes ==
  /\ HeaderSize \in Nat /\ PageShift \in Nat /\ Pile!PageSize \in Nat
  /\ HeaderSize < PageShift /\ PageShift < Pile!PageSize
<1>1. PageShift \in Nat /\ HeaderSize \in Nat /\ HeaderSize < PageShift
  BY ServicesAssumption DEF Pile!PileAssumption
<1>2. Pile!Power[PageShift] \in Nat
  BY <1>1, PowerDoubles DEF Pile!Power, Mapped!Power
<1>. QED BY <1>1, <1>2, PowerAbove DEF Pile!PageSize

\* A chunk holds a byte or more, and its pages are those that it was made of.
LEMMA PayloadOfPages ==
  ASSUME NEW k \in Nat \ {0}
  PROVE  /\ Payload(k) \in Nat \ {0} /\ k * Pile!PageSize \in Nat /\ Payload(k) + HeaderSize = k * Pile!PageSize
         /\ (Payload(k) + HeaderSize) \div Pile!PageSize = k
<1>. DEFINE z == Pile!PageSize
<1>1. z \in Nat /\ HeaderSize \in Nat /\ HeaderSize < z /\ z > 0
  BY PageSizes
<1>. HIDE DEF z
<1>2. z * 1 \in Nat /\ z * k \in Nat /\ z * 1 <= z * k
  BY <1>1, ProductGrows
<1>3. z * 1 = z /\ z * k = k * z
  BY <1>1
<1>4. k * z - HeaderSize \in Nat \ {0} /\ (k * z - HeaderSize) + HeaderSize = k * z
  BY <1>1, <1>2, <1>3
<1>5. (k * z) \div z = k
  BY <1>1
<1>. QED BY <1>2, <1>3, <1>4, <1>5 DEF Payload, z

\* allocChunk() takes enough pages for what the chunk is to hold.
LEMMA EnoughPages ==
  ASSUME NEW len \in Nat \ {0}, pageSize \in {Pile!PageSize, PageShift}
  PROVE  Pile!PagesFor(len) \in Nat \ {0} /\ len <= Payload(Pile!PagesFor(len))
<1>. DEFINE z == Pile!PageSize
            d == pageSize - HeaderSize
            x == len + pageSize - HeaderSize - 1
            k == x \div d
<1>1. z \in Nat /\ HeaderSize \in Nat /\ pageSize \in Nat /\ HeaderSize < pageSize /\ pageSize <= z
  BY PageSizes
<1>2. d \in Nat \ {0} /\ x \in Nat /\ x = len + d - 1 /\ d + HeaderSize <= z
  <2>. HIDE DEF z
  <2>. QED BY <1>1
<1>3. Pile!PagesFor(len) = k
  BY DEF Pile!PagesFor
<1>. HIDE DEF z, d, x
<1>4. k \in Nat /\ k * d \in Nat /\ x < k * d + d
  BY <1>2
<1>. HIDE DEF k
<1>5. k # 0 /\ len <= k * d
  BY <1>2, <1>4
<1>6. PICK j \in Nat : k = j + 1
  <2>1. k - 1 \in Nat /\ k = (k - 1) + 1
    BY <1>4, <1>5
  <2>. QED BY <2>1
<1>7. j * d \in Nat /\ j * z \in Nat /\ j * d <= j * z
  BY <1>1, <1>2, ProductGrows
<1>8. k * d = j * d + d /\ k * z = j * z + z
  BY <1>1, <1>2, <1>6
<1>9. len <= k * z - HeaderSize
  BY <1>1, <1>2, <1>5, <1>7, <1>8
<1>. QED BY <1>3, <1>4, <1>5, <1>9 DEF Payload, z

\* What the function has when a value is put in.
LEMMA PutIn ==
  ASSUME NEW f, NEW a, NEW v
  PROVE  /\ DOMAIN Pile!Put(f, a, v) = DOMAIN f \union {a} /\ Pile!Put(f, a, v)[a] = v
         /\ \A b \in DOMAIN f : b # a => Pile!Put(f, a, v)[b] = f[b]
BY DEF Pile!Put

\* Bytes are added at the end.
LEMMA BytesAdded ==
  ASSUME NEW s \in Seq(PileBytes), NEW t \in Seq(PileBytes)
  PROVE  /\ s \o t \in Seq(PileBytes) /\ Len(s \o t) = Len(s) + Len(t) /\ Len(s) \in Nat /\ Len(t) \in Nat
         /\ \A i \in 1 .. Len(s) : (s \o t)[i] = s[i]
         /\ \A i \in 1 .. Len(t) : (s \o t)[Len(s) + i] = t[i]
<1>1. s \o t \in Seq(PileBytes) /\ Len(s \o t) = Len(s) + Len(t)
  BY ConcatProperties
<1>2. Len(s) \in Nat /\ Len(t) \in Nat
  BY LenProperties
<1>3. \A i \in 1 .. Len(s) + Len(t) : (s \o t)[i] = IF i <= Len(s) THEN s[i] ELSE t[i - Len(s)]
  BY ConcatProperties
<1>4. ASSUME NEW i \in 1 .. Len(t) PROVE (s \o t)[Len(s) + i] = t[i]
  <2>1. Len(s) + i \in 1 .. Len(s) + Len(t) /\ ~(Len(s) + i <= Len(s)) /\ (Len(s) + i) - Len(s) = i
    BY <1>2
  <2>. QED BY <1>3, <2>1
<1>. QED BY <1>1, <1>2, <1>3, <1>4

\* What is appended are bytes.
LEMMA BytesGiven ==
  ASSUME NEW len \in Nat, calls \in Nat
  PROVE  Pile!Bytes(len) \in Seq(PileBytes) /\ Len(Pile!Bytes(len)) = len
BY DEF Pile!Bytes, PileBytes

\* What is appended is cut in two, and both parts together are all of it.
LEMMA BytesCut ==
  ASSUME NEW ap \in Seq(PileBytes), NEW len \in Nat, NEW n \in Nat, n <= len, calls \in Nat
  PROVE  /\ Pile!Bytes(len) \in Seq(PileBytes) /\ Len(Pile!Bytes(len)) = len
         /\ SubSeq(Pile!Bytes(len), 1, n) \in Seq(PileBytes) /\ Len(SubSeq(Pile!Bytes(len), 1, n)) = n
         /\ Pile!Remaining(len, n) \in Seq(PileBytes) /\ Len(Pile!Remaining(len, n)) = len - n
         /\ (ap \o SubSeq(Pile!Bytes(len), 1, n)) \o Pile!Remaining(len, n) = ap \o Pile!Bytes(len)
<1>. DEFINE b == Pile!Bytes(len)
            s == SubSeq(b, 1, n)
            t == SubSeq(b, n + 1, len)
<1>1. b \in Seq(PileBytes) /\ Len(b) = len
  BY BytesGiven
<1>. HIDE DEF b
<1>2. s \in Seq(PileBytes) /\ Len(s) = n /\ \A i \in 1 .. n : s[i] = b[i]
  BY <1>1, SubSeqProperties
<1>3. t \in Seq(PileBytes) /\ Len(t) = len - n /\ \A i \in 1 .. len - n : t[i] = b[n + i]
  BY <1>1, SubSeqProperties
<1>. HIDE DEF s, t
<1>4. (ap \o s) \o t = ap \o b
  <2>. DEFINE x == (ap \o s) \o t
              y == ap \o b
  <2>1. x \in Seq(PileBytes) /\ Len(x) = Len(ap) + len
    <3>1. ap \o s \in Seq(PileBytes) /\ Len(ap \o s) = Len(ap) + n
      BY <1>2, BytesAdded
    <3>2. x \in Seq(PileBytes) /\ Len(x) = Len(ap \o s) + Len(t) /\ Len(ap) \in Nat
      BY <1>3, <3>1, BytesAdded
    <3>. QED BY <1>3, <3>1, <3>2
  <2>2. y \in Seq(PileBytes) /\ Len(y) = Len(ap) + len
    BY <1>1, BytesAdded
  <2>3. ASSUME NEW i \in 1 .. Len(ap) + len PROVE x[i] = y[i]
    <3>1. Len(ap) \in Nat /\ Len(ap \o s) = Len(ap) + n
      BY <1>2, BytesAdded
    <3>2. CASE i <= Len(ap)
      <4>1. i \in 1 .. Len(ap) /\ i \in 1 .. Len(ap \o s)
        BY <3>1, <3>2
      <4>2. (ap \o s)[i] = ap[i] /\ (ap \o b)[i] = ap[i] /\ ap \o s \in Seq(PileBytes)
        BY <1>1, <1>2, <4>1, BytesAdded
      <4>3. ((ap \o s) \o t)[i] = (ap \o s)[i]
        BY <1>3, <4>1, <4>2, BytesAdded
      <4>. QED BY <4>2, <4>3
    <3>3. CASE i > Len(ap) /\ i <= Len(ap) + n
      <4>1. PICK j \in 1 .. n : i = Len(ap) + j
        <5>1. i - Len(ap) \in 1 .. n /\ i = Len(ap) + (i - Len(ap))
          BY <3>1, <3>3
        <5>. QED BY <5>1
      <4>2. i \in 1 .. Len(ap \o s) /\ j \in 1 .. Len(b) /\ j \in 1 .. Len(s)
        BY <1>1, <1>2, <3>1, <3>3, <4>1
      <4>3. x[i] = (ap \o s)[i] /\ (ap \o s)[Len(ap) + j] = s[j] /\ (ap \o b)[Len(ap) + j] = b[j]
        <5>1. (ap \o s)[Len(ap) + j] = s[j] /\ (ap \o b)[Len(ap) + j] = b[j] /\ ap \o s \in Seq(PileBytes)
          BY <1>1, <1>2, <4>2, BytesAdded
        <5>2. ((ap \o s) \o t)[i] = (ap \o s)[i]
          BY <1>3, <4>2, <5>1, BytesAdded
        <5>. QED BY <5>1, <5>2
      <4>. QED BY <1>2, <4>1, <4>3
    <3>4. CASE i > Len(ap) + n
      <4>1. PICK j \in 1 .. len - n : i = Len(ap) + n + j
        <5>1. i - (Len(ap) + n) \in 1 .. len - n /\ i = Len(ap) + n + (i - (Len(ap) + n))
          BY <3>1, <3>4
        <5>. QED BY <5>1
      <4>2. j \in 1 .. Len(t) /\ n + j \in 1 .. Len(b) /\ Len(ap) + (n + j) = i /\ Len(ap \o s) + j = i
        BY <1>1, <1>3, <3>1, <3>4, <4>1
      <4>3. x[Len(ap \o s) + j] = t[j] /\ (ap \o b)[Len(ap) + (n + j)] = b[n + j]
        <5>1. (ap \o b)[Len(ap) + (n + j)] = b[n + j] /\ ap \o s \in Seq(PileBytes)
          BY <1>1, <1>2, <4>2, BytesAdded
        <5>2. ((ap \o s) \o t)[Len(ap \o s) + j] = t[j]
          BY <1>3, <4>2, <5>1, BytesAdded
        <5>. QED BY <5>1, <5>2
      <4>. QED BY <1>3, <4>1, <4>2, <4>3
    <3>5. i <= Len(ap) \/ (i > Len(ap) /\ i <= Len(ap) + n) \/ i > Len(ap) + n
      <4>1. i \in Nat /\ Len(ap) \in Nat
        BY <3>1
      <4>. QED BY <4>1
    <3>. QED BY <3>2, <3>3, <3>4, <3>5
  <2>. HIDE DEF x, y
  <2>4. Len(x) = Len(y) /\ \A i \in 1 .. Len(x) : x[i] = y[i]
    BY <2>1, <2>2, <2>3
  <2>5. x = y
    BY <2>1, <2>2, <2>4, SeqEqual
  <2>. QED BY <2>5 DEF x, y
<1>. QED BY <1>1, <1>2, <1>3, <1>4 DEF Pile!Remaining, s, t, b

-----------------------------------------------------------------------------
(* Pile files: chunks are set aside, filled and linked *)

\* Pages are added from page pc on, of pile p from its byte k on.
PlaceAdded(pc, k, p, n, pos, own, pages, pos2, own2, pages2) ==
  /\ Places(pc + n, pos2, own2, pages2) /\ pc \notin DOMAIN pages
  /\ DOMAIN pages2 = DOMAIN pages \union {pc} /\ pages2[pc] = n /\ pos2[pc] = k /\ own2[pc] = p
  /\ \A a \in DOMAIN pages : pages2[a] = pages[a] /\ a # pc /\ pos2[a] = pos[a] /\ own2[a] = own[a]

\* New pages lie behind all others.
LEMMA PlacesAdded ==
  ASSUME NEW pc \in Nat \ {0}, NEW pos, NEW own, NEW pages, Places(pc, pos, own, pages),
         NEW k \in Nat, NEW p \in Piles, NEW n \in Nat \ {0}
  PROVE  PlaceAdded(pc, k, p, n, pos, own, pages, Pile!Put(pos, pc, k), Pile!Put(own, pc, p), Pile!Put(pages, pc, n))
<1>. DEFINE D == DOMAIN pages
            pages2 == Pile!Put(pages, pc, n)
            pos2 == Pile!Put(pos, pc, k)
            own2 == Pile!Put(own, pc, p)
<1>1. /\ D \subseteq Nat \ {0} /\ DOMAIN pos = D /\ DOMAIN own = D
      /\ \A a \in D : pages[a] \in Nat \ {0} /\ a + pages[a] <= pc /\ pos[a] \in Nat /\ own[a] \in Piles
      /\ \A a, b \in D : a < b => a + pages[a] <= b
  BY DEF Places
<1>2. \A a \in D : a # pc
  BY <1>1
<1>3. /\ DOMAIN pages2 = D \union {pc} /\ DOMAIN pos2 = D \union {pc} /\ DOMAIN own2 = D \union {pc}
      /\ pages2[pc] = n /\ pos2[pc] = k /\ own2[pc] = p
      /\ \A a \in D : pages2[a] = pages[a] /\ pos2[a] = pos[a] /\ own2[a] = own[a]
  <2>1. DOMAIN pages2 = D \union {pc} /\ pages2[pc] = n /\ \A a \in D : pages2[a] = pages[a]
    BY <1>2 DEF Pile!Put
  <2>2. DOMAIN pos2 = D \union {pc} /\ pos2[pc] = k /\ \A a \in D : pos2[a] = pos[a]
    BY <1>1, <1>2 DEF Pile!Put
  <2>3. DOMAIN own2 = D \union {pc} /\ own2[pc] = p /\ \A a \in D : own2[a] = own[a]
    BY <1>1, <1>2 DEF Pile!Put
  <2>. HIDE DEF D, pages2, pos2, own2
  <2>. QED BY <2>1, <2>2, <2>3
<1>4. pos2 \in [D \union {pc} -> Nat] /\ own2 \in [D \union {pc} -> Piles]
  <2>1. \A a \in D \union {pc} : pos2[a] \in Nat /\ own2[a] \in Piles
    BY <1>1, <1>3
  <2>2. pos2 = [a \in D \union {pc} |-> pos2[a]] /\ own2 = [a \in D \union {pc} |-> own2[a]]
    <3>1. pos2 = [a \in DOMAIN pos2 |-> pos2[a]] /\ own2 = [a \in DOMAIN own2 |-> own2[a]]
      BY DEF Pile!Put
    <3>. HIDE DEF pos2, own2, D
    <3>. QED BY <1>3, <3>1
  <2>. HIDE DEF pos2, own2, D
  <2>. QED BY <2>1, <2>2
<1>. HIDE DEF D, pages2, pos2, own2
<1>5. \A a \in D \union {pc} : pages2[a] \in Nat \ {0} /\ a + pages2[a] <= pc + n
  BY <1>1, <1>3
<1>6. ASSUME NEW a \in D \union {pc}, NEW b \in D \union {pc}, a < b PROVE a + pages2[a] <= b
  <2>1. CASE a = pc
    BY <1>1, <1>6, <2>1
  <2>2. CASE a \in D
    BY <1>1, <1>3, <1>6, <2>2
  <2>. QED BY <2>1, <2>2
<1>7. Places(pc + n, pos2, own2, pages2)
  <2>1. D \union {pc} \subseteq Nat \ {0}
    BY <1>1
  <2>. QED BY <1>3, <1>4, <1>5, <1>6, <2>1 DEF Places
<1>8. PlaceAdded(pc, k, p, n, pos, own, pages, pos2, own2, pages2)
  BY <1>2, <1>3, <1>7 DEF PlaceAdded, D
<1>. QED BY <1>8 DEF pages2, pos2, own2

\* preallocate(): a chunk is set aside for a pile that has none.
LEMMA SetAside ==
  ASSUME NEW ch, NEW ix, NEW app, NEW pc \in Nat \ {0}, NEW pos, NEW own, NEW pages,
         Chained(ch, ix, app, pc, pos, own, pages), NEW p \in Piles, ix[p].firstPage = 0, NEW n \in Nat \ {0},
         NEW ix2, ix2[p] = [firstPage |-> pc, lastPage |-> 0, totalPayloadSize |-> Payload(n)],
         \A q \in Piles : q # p => ix2[q] = ix[q]
  PROVE  Chained(ch, ix2, app, pc + n, Pile!Put(pos, pc, 0), Pile!Put(own, pc, p), Pile!Put(pages, pc, n))
<1>. DEFINE pages2 == Pile!Put(pages, pc, n)
            pos2 == Pile!Put(pos, pc, 0)
            own2 == Pile!Put(own, pc, p)
<1>1. /\ Places(pc, pos, own, pages) /\ Headers(ch, pages)
      /\ \A q \in Piles : EntryKnown(ix[q], app[q], q, ch, pos, own, pages)
      /\ \A a \in DOMAIN ch : ChunkKnown(a, ix[own[a]], app[own[a]], ch, pos, own)
  BY DEF Chained
<1>2. /\ Places(pc + n, pos2, own2, pages2) /\ pc \notin DOMAIN pages
      /\ DOMAIN pages2 = DOMAIN pages \union {pc} /\ pages2[pc] = n /\ pos2[pc] = 0 /\ own2[pc] = p
      /\ \A a \in DOMAIN pages : pages2[a] = pages[a] /\ a # pc /\ pos2[a] = pos[a] /\ own2[a] = own[a]
  <2>1. 0 \in Nat
    OBVIOUS
  <2>2. PlaceAdded(pc, 0, p, n, pos, own, pages, pos2, own2, pages2)
    BY <1>1, <2>1, PlacesAdded
  <2>. QED BY <2>2 DEF PlaceAdded
<1>. HIDE DEF pages2, pos2, own2
<1>3. DOMAIN ch \subseteq DOMAIN pages /\ \A a \in DOMAIN ch : ch[a] \in ChunkRecords /\ ch[a].payloadSize = Payload(pages[a])
  BY <1>1 DEF Headers
<1>4. Headers(ch, pages2)
  BY <1>2, <1>3 DEF Headers
<1>5. ix[p].lastPage = 0
  BY <1>1 DEF EntryKnown
<1>6. ASSUME NEW q \in Piles PROVE EntryKnown(ix2[q], app[q], q, ch, pos2, own2, pages2)
  <2>0. EntryKnown(ix[q], app[q], q, ch, pos, own, pages)
    BY <1>1
  <2>1. CASE q = p
    <3>1. app[p] = <<>> /\ app[p] \in Seq(PileBytes)
      BY <1>5, <2>0, <2>1 DEF EntryKnown
    <3>2. ix2[p] \in EntryRecords
      BY PayloadOfPages DEF EntryRecords
    <3>3. pc \notin DOMAIN ch
      BY <1>2, <1>3
    <3>. QED BY <1>2, <2>1, <3>1, <3>2, <3>3 DEF EntryKnown
  <2>2. CASE q # p
    <3>1. ix2[q] = ix[q]
      BY <2>2
    <3>. QED BY <1>2, <1>3, <2>0, <3>1 DEF EntryKnown
  <2>. QED BY <2>1, <2>2
<1>7. ASSUME NEW a \in DOMAIN ch PROVE ChunkKnown(a, ix2[own2[a]], app[own2[a]], ch, pos2, own2)
  <2>1. ChunkKnown(a, ix[own[a]], app[own[a]], ch, pos, own)
    BY <1>1
  <2>2. a \in DOMAIN pages /\ own2[a] = own[a] /\ pos2[a] = pos[a] /\ own[a] \in Piles
    BY <1>1, <1>2, <1>3 DEF Places
  <2>3. ix2[own[a]] = ix[own[a]]
    BY <1>5, <2>1, <2>2 DEF ChunkKnown
  <2>4. ASSUME GoesOn(ch[a], a, app[own[a]], ch, pos, own) PROVE GoesOn(ch[a], a, app[own[a]], ch, pos2, own2)
    BY <1>2, <1>3, <2>2, <2>4 DEF GoesOn
  <2>. QED BY <2>1, <2>2, <2>3, <2>4 DEF ChunkKnown
<1>8. Chained(ch, ix2, app, pc + n, pos2, own2, pages2)
  BY <1>2, <1>4, <1>6, <1>7 DEF Chained
<1>. QED BY <1>8 DEF pages2, pos2, own2

\* The last chunk of a pile: the one set aside, if nothing was appended yet.
LastOf(e) == IF e.lastPage = 0 THEN e.firstPage ELSE e.lastPage
ChunkOfLast(e, ch) ==
  IF e.lastPage = 0 THEN [payloadSize |-> e.totalPayloadSize, rest |-> e.totalPayloadSize, data |-> <<>>] ELSE ch[e.lastPage]

\* It has its place, and holds the end of the pile.
LEMMA LastKnown ==
  ASSUME NEW ch, NEW ix, NEW app, NEW pc, NEW pos, NEW own, NEW pages,
         Chained(ch, ix, app, pc, pos, own, pages), NEW p \in Piles, ix[p].firstPage # 0,
         NEW last, last = LastOf(ix[p]), NEW c, c = ChunkOfLast(ix[p], ch)
  PROVE  /\ last \in DOMAIN pages /\ last # 0 /\ own[last] = p /\ c \in ChunkRecords /\ c.payloadSize = Payload(pages[last])
         /\ app[p] \in Seq(PileBytes) /\ Holds(c, pos[last], app[p]) /\ EndsPile(c, pos[last], app[p])
         /\ (last \in DOMAIN ch <=> ix[p].lastPage # 0) /\ (ix[p].lastPage # 0 => ch[last] = c)
<1>1. /\ Places(pc, pos, own, pages) /\ Headers(ch, pages) /\ EntryKnown(ix[p], app[p], p, ch, pos, own, pages)
      /\ \A a \in DOMAIN ch : ChunkKnown(a, ix[own[a]], app[own[a]], ch, pos, own)
  BY DEF Chained
<1>2. DOMAIN pages \subseteq Nat \ {0} /\ \A a \in DOMAIN pages : pages[a] \in Nat \ {0}
  BY <1>1 DEF Places
<1>3. DOMAIN ch \subseteq DOMAIN pages /\ \A a \in DOMAIN ch : ch[a] \in ChunkRecords /\ ch[a].payloadSize = Payload(pages[a])
  BY <1>1 DEF Headers
<1>4. CASE ix[p].lastPage = 0
  <2>1. last = ix[p].firstPage /\ c = [payloadSize |-> ix[p].totalPayloadSize, rest |-> ix[p].totalPayloadSize, data |-> <<>>]
    BY <1>4 DEF LastOf, ChunkOfLast
  <2>2. /\ last \in DOMAIN pages /\ last \notin DOMAIN ch /\ own[last] = p /\ pos[last] = 0
        /\ app[p] = <<>> /\ app[p] \in Seq(PileBytes) /\ ix[p].totalPayloadSize = Payload(pages[last])
    BY <1>1, <1>4, <2>1 DEF EntryKnown
  <2>3. Payload(pages[last]) \in Nat
    BY <1>2, <2>2, PayloadOfPages
  <2>4. c \in ChunkRecords /\ c.payloadSize = Payload(pages[last]) /\ c.rest = c.payloadSize /\ c.data = <<>> /\ Len(<<>>) = 0
    <3>1. <<>> \in Seq(PileBytes) /\ Len(<<>>) = 0
      OBVIOUS
    <3>. QED BY <2>1, <2>2, <2>3, <3>1 DEF ChunkRecords
  <2>5. Holds(c, pos[last], app[p]) /\ EndsPile(c, pos[last], app[p])
    BY <2>2, <2>3, <2>4 DEF Holds, EndsPile
  <2>. QED BY <1>2, <1>4, <2>2, <2>4, <2>5
<1>5. CASE ix[p].lastPage # 0
  <2>1. last = ix[p].lastPage /\ c = ch[last]
    BY <1>5 DEF LastOf, ChunkOfLast
  <2>2. last \in DOMAIN ch /\ own[last] = p /\ app[p] \in Seq(PileBytes)
    BY <1>1, <1>5, <2>1 DEF EntryKnown
  <2>3. ChunkKnown(last, ix[p], app[p], ch, pos, own)
    BY <1>1, <2>2
  <2>. QED BY <1>2, <1>3, <1>5, <2>1, <2>2, <2>3 DEF ChunkKnown
<1>. QED BY <1>4, <1>5

\* What is known of a pile stays when chunks and places of others are added.
LEMMA EntryStays ==
  ASSUME NEW e, NEW ap, NEW q, NEW ch, NEW pos, NEW own, NEW pages, EntryKnown(e, ap, q, ch, pos, own, pages),
         NEW ch2, DOMAIN ch \subseteq DOMAIN ch2, NEW pos2, NEW own2, NEW pages2, DOMAIN pages \subseteq DOMAIN pages2,
         DOMAIN ch \subseteq DOMAIN pages,
         \A a \in DOMAIN pages : pages2[a] = pages[a] /\ pos2[a] = pos[a] /\ own2[a] = own[a],
         e.lastPage = 0 /\ e.firstPage # 0 => e.firstPage \notin DOMAIN ch2
  PROVE  EntryKnown(e, ap, q, ch2, pos2, own2, pages2)
<1>1. e \in EntryRecords /\ ap \in Seq(PileBytes)
  BY DEF EntryKnown
<1>2. e.firstPage # 0 => e.firstPage \in DOMAIN pages2 /\ own2[e.firstPage] = q /\ pos2[e.firstPage] = 0
  BY DEF EntryKnown
<1>3. e.lastPage = 0 => ap = <<>>
  BY DEF EntryKnown
<1>4. e.lastPage = 0 /\ e.firstPage # 0 => e.firstPage \notin DOMAIN ch2 /\ e.totalPayloadSize = Payload(pages2[e.firstPage])
  BY DEF EntryKnown
<1>5. e.lastPage # 0 => /\ e.firstPage # 0 /\ e.firstPage \in DOMAIN ch2 /\ e.lastPage \in DOMAIN ch2
                        /\ own2[e.lastPage] = q /\ e.totalPayloadSize = Len(ap)
  BY DEF EntryKnown
<1>. QED BY <1>1, <1>2, <1>3, <1>4, <1>5 DEF EntryKnown

\* append(): bytes s go to the end of the last chunk of pile p.
Filling(p, s, last, c, ch, ix, app, ch2, ix2, app2) ==
  /\ ix[p].firstPage # 0 /\ last = LastOf(ix[p]) /\ c = ChunkOfLast(ix[p], ch)
  /\ s \in Seq(PileBytes) /\ Len(s) <= c.rest
  /\ DOMAIN ch2 = DOMAIN ch \union {last} /\ \A a \in DOMAIN ch : a # last => ch2[a] = ch[a]
  /\ ch2[last] = [payloadSize |-> c.payloadSize, rest |-> c.rest - Len(s), data |-> c.data \o s]
  /\ \A q \in Piles : q # p => ix2[q] = ix[q] /\ app2[q] = app[q]
  /\ ix2[p] = [firstPage |-> ix[p].firstPage, lastPage |-> last, totalPayloadSize |-> Len(app[p]) + Len(s)]
  /\ app2[p] = app[p] \o s

\* The chunks stay known.
LEMMA Filled ==
  ASSUME NEW ch, NEW ix, NEW app, NEW pc, NEW pos, NEW own, NEW pages,
         Chained(ch, ix, app, pc, pos, own, pages), NEW p \in Piles, NEW s, NEW last, NEW c,
         NEW ch2, NEW ix2, NEW app2, Filling(p, s, last, c, ch, ix, app, ch2, ix2, app2)
  PROVE  Chained(ch2, ix2, app2, pc, pos, own, pages)
<1>0. /\ ix[p].firstPage # 0 /\ last = LastOf(ix[p]) /\ c = ChunkOfLast(ix[p], ch)
      /\ s \in Seq(PileBytes) /\ Len(s) <= c.rest
      /\ DOMAIN ch2 = DOMAIN ch \union {last} /\ \A a \in DOMAIN ch : a # last => ch2[a] = ch[a]
      /\ ch2[last] = [payloadSize |-> c.payloadSize, rest |-> c.rest - Len(s), data |-> c.data \o s]
      /\ \A q \in Piles : q # p => ix2[q] = ix[q] /\ app2[q] = app[q]
      /\ ix2[p] = [firstPage |-> ix[p].firstPage, lastPage |-> last, totalPayloadSize |-> Len(app[p]) + Len(s)]
      /\ app2[p] = app[p] \o s
  BY DEF Filling
<1>. USE <1>0
<1>. DEFINE f == ch2[last]
<1>1. /\ Places(pc, pos, own, pages) /\ Headers(ch, pages)
      /\ \A q \in Piles : EntryKnown(ix[q], app[q], q, ch, pos, own, pages)
      /\ \A a \in DOMAIN ch : ChunkKnown(a, ix[own[a]], app[own[a]], ch, pos, own)
  BY DEF Chained
<1>2. /\ last \in DOMAIN pages /\ last # 0 /\ own[last] = p /\ c \in ChunkRecords /\ c.payloadSize = Payload(pages[last])
      /\ app[p] \in Seq(PileBytes) /\ Holds(c, pos[last], app[p]) /\ EndsPile(c, pos[last], app[p])
      /\ (last \in DOMAIN ch <=> ix[p].lastPage # 0) /\ (ix[p].lastPage # 0 => ch[last] = c)
  BY LastKnown
<1>3. DOMAIN ch \subseteq DOMAIN pages /\ \A a \in DOMAIN ch : ch[a] \in ChunkRecords /\ ch[a].payloadSize = Payload(pages[a])
  BY <1>1 DEF Headers
<1>4. \A a \in DOMAIN pages : a \in Nat \ {0} /\ own[a] \in Piles /\ pos[a] \in Nat
  BY <1>1 DEF Places
<1>5. /\ c.payloadSize \in Nat /\ c.rest \in Nat /\ c.data \in Seq(PileBytes) /\ Len(c.data) \in Nat
      /\ Len(s) \in Nat /\ Len(app[p]) \in Nat
  BY <1>2, LenProperties DEF ChunkRecords
<1>6. /\ f.payloadSize = c.payloadSize /\ f.rest = c.rest - Len(s) /\ f.data = c.data \o s /\ f \in ChunkRecords
      /\ Len(f.data) = Len(c.data) + Len(s) /\ Len(app2[p]) = Len(app[p]) + Len(s) /\ app2[p] \in Seq(PileBytes)
  <2>1. c.data \o s \in Seq(PileBytes) /\ Len(c.data \o s) = Len(c.data) + Len(s)
    BY <1>5, BytesAdded
  <2>2. app[p] \o s \in Seq(PileBytes) /\ Len(app[p] \o s) = Len(app[p]) + Len(s)
    BY <1>2, BytesAdded
  <2>3. c.rest - Len(s) \in Nat
    BY <1>5
  <2>. QED BY <1>5, <2>1, <2>2, <2>3 DEF ChunkRecords
<1>7. Headers(ch2, pages)
  <2>1. ASSUME NEW a \in DOMAIN ch2 PROVE ch2[a] \in ChunkRecords /\ ch2[a].payloadSize = Payload(pages[a])
    <3>1. CASE a = last
      BY <1>2, <1>6, <3>1
    <3>2. CASE a # last
      BY <1>3, <3>2
    <3>. QED BY <3>1, <3>2
  <2>. QED BY <1>2, <1>3, <2>1 DEF Headers
<1>8. ASSUME NEW q \in Piles PROVE EntryKnown(ix2[q], app2[q], q, ch2, pos, own, pages)
  <2>0. EntryKnown(ix[q], app[q], q, ch, pos, own, pages)
    BY <1>1
  <2>1. CASE q = p
    <3>1. ix2[p] \in EntryRecords
      <4>1. ix[p].firstPage \in Nat /\ last \in Nat /\ Len(app[p]) + Len(s) \in Nat
        BY <1>2, <1>4, <1>5, <2>0, <2>1 DEF EntryKnown, EntryRecords
      <4>. QED BY <4>1 DEF EntryRecords
    <3>2. ix[p].firstPage \in DOMAIN pages /\ own[ix[p].firstPage] = p /\ pos[ix[p].firstPage] = 0
      BY <2>0, <2>1 DEF EntryKnown
    <3>3. ix[p].firstPage \in DOMAIN ch2
      BY <2>0, <2>1 DEF EntryKnown, LastOf
    <3>4. /\ ix2[p].firstPage = ix[p].firstPage /\ ix2[p].lastPage = last /\ ix2[p].totalPayloadSize = Len(app2[p])
          /\ ix[p].firstPage # 0 /\ last \in DOMAIN ch2
      BY <1>6
    <3>5. EntryKnown(ix2[p], app2[p], p, ch2, pos, own, pages)
      BY ONLY <1>2, <1>6, <3>1, <3>2, <3>3, <3>4 DEF EntryKnown
    <3>. QED BY <2>1, <3>5
  <2>2. CASE q # p
    <3>1. ix2[q] = ix[q] /\ app2[q] = app[q]
      BY <2>2
    <3>2. DOMAIN ch \subseteq DOMAIN ch2
      OBVIOUS
    <3>3. ix[q].firstPage # 0 => ix[q].firstPage # last
      BY <1>2, <2>0, <2>2 DEF EntryKnown
    <3>4. ix[q].lastPage = 0 /\ ix[q].firstPage # 0 => ix[q].firstPage \notin DOMAIN ch2
      BY <2>0, <3>3 DEF EntryKnown
    <3>5. EntryKnown(ix[q], app[q], q, ch2, pos, own, pages)
      BY <1>3, <2>0, <3>2, <3>4, EntryStays
    <3>. QED BY <3>1, <3>5
  <2>. QED BY <2>1, <2>2
<1>9. ChunkKnown(last, ix2[p], app2[p], ch2, pos, own)
  <2>1. Holds(f, pos[last], app2[p])
    <3>1. ASSUME NEW i \in 1 .. Len(f.data) PROVE pos[last] + i <= Len(app2[p]) /\ f.data[i] = app2[p][pos[last] + i]
      <4>0. pos[last] \in Nat /\ pos[last] + Len(c.data) = Len(app[p])
        BY <1>2, <1>4 DEF EndsPile
      <4>1. CASE i <= Len(c.data)
        <5>1. i \in 1 .. Len(c.data) /\ pos[last] + i \in 1 .. Len(app[p])
          BY <1>5, <1>6, <4>0, <4>1
        <5>2. c.data[i] = app[p][pos[last] + i]
          BY <1>2, <5>1 DEF Holds
        <5>3. (c.data \o s)[i] = c.data[i] /\ (app[p] \o s)[pos[last] + i] = app[p][pos[last] + i]
          BY <1>2, <1>5, <5>1, BytesAdded
        <5>4. pos[last] + i <= Len(app2[p])
          BY <1>5, <1>6, <5>1
        <5>. QED BY <1>6, <5>2, <5>3, <5>4
      <4>2. CASE i > Len(c.data)
        <5>1. PICK j \in 1 .. Len(s) : i = Len(c.data) + j
          <6>1. i - Len(c.data) \in 1 .. Len(s) /\ i = Len(c.data) + (i - Len(c.data))
            BY <1>5, <1>6, <4>2
          <6>. QED BY <6>1
        <5>2. (c.data \o s)[Len(c.data) + j] = s[j] /\ (app[p] \o s)[Len(app[p]) + j] = s[j]
          BY <1>2, <1>5, BytesAdded
        <5>3. pos[last] + i = Len(app[p]) + j /\ pos[last] + i <= Len(app2[p])
          <6>. DEFINE o == pos[last]
                      l == Len(c.data)
                      m == Len(app[p])
                      k == Len(s)
                      z == Len(app2[p])
          <6>1. o \in Nat /\ l \in Nat /\ k \in Nat /\ o + l = m /\ z = m + k /\ i = l + j /\ j \in 1 .. k
            BY <1>5, <1>6, <4>0, <5>1
          <6>. HIDE DEF o, l, m, k, z
          <6>2. o + i = m + j /\ o + i <= z
            BY ONLY <6>1
          <6>. QED BY <6>2 DEF o, m, z
        <5>4. (c.data \o s)[i] = s[j] /\ (app[p] \o s)[pos[last] + i] = s[j]
          <6>1. \A m : m = i => (c.data \o s)[m] = (c.data \o s)[i]
            OBVIOUS
          <6>2. \A m : m = pos[last] + i => (app[p] \o s)[m] = (app[p] \o s)[pos[last] + i]
            OBVIOUS
          <6>. QED BY ONLY <5>1, <5>2, <5>3, <6>1, <6>2
        <5>. QED BY <1>6, <5>3, <5>4
      <4>3. i <= Len(c.data) \/ i > Len(c.data)
        BY <1>5, <1>6
      <4>. QED BY <4>1, <4>2, <4>3
    <3>. QED BY <3>1 DEF Holds
  <2>2. EndsPile(f, pos[last], app2[p])
    <3>1. pos[last] \in Nat /\ pos[last] + Len(c.data) = Len(app[p]) /\ Len(c.data) + c.rest = c.payloadSize
      BY <1>2, <1>4 DEF EndsPile
    <3>2. pos[last] + (Len(c.data) + Len(s)) = Len(app[p]) + Len(s) /\ (Len(c.data) + Len(s)) + (c.rest - Len(s)) = c.payloadSize
      <4>. DEFINE o == pos[last]
                  l == Len(c.data)
                  m == Len(app[p])
                  k == Len(s)
                  r == c.rest
                  z == c.payloadSize
      <4>1. o \in Nat /\ l \in Nat /\ k \in Nat /\ o + l = m /\ r \in Nat /\ l + r = z
        BY <1>5, <3>1
      <4>. HIDE DEF o, l, m, k, r, z
      <4>2. o + (l + k) = m + k /\ (l + k) + (r - k) = z
        BY ONLY <4>1
      <4>. QED BY <4>2 DEF o, l, m, k, r, z
    <3>. QED BY <1>6, <3>2 DEF EndsPile
  <2>. QED BY <1>2, <2>1, <2>2 DEF ChunkKnown
<1>10. ASSUME NEW a \in DOMAIN ch, a # last PROVE ChunkKnown(a, ix2[own[a]], app2[own[a]], ch2, pos, own)
  <2>1. ChunkKnown(a, ix[own[a]], app[own[a]], ch, pos, own) /\ ch2[a] = ch[a] /\ own[a] \in Piles
    BY <1>1, <1>3, <1>4, <1>10
  <2>2. GoesOn(ch[a], a, app[own[a]], ch, pos, own) => GoesOn(ch[a], a, app[own[a]], ch2, pos, own)
    BY DEF GoesOn
  <2>3. CASE own[a] # p
    <3>1. ix2[own[a]] = ix[own[a]] /\ app2[own[a]] = app[own[a]]
      BY <2>1, <2>3
    <3>. QED BY <2>1, <2>2, <3>1 DEF ChunkKnown
  <2>4. CASE own[a] = p
    <3>1. ix[p].lastPage = last /\ ix2[p].lastPage = last
      BY <2>1, <2>4 DEF ChunkKnown, LastOf
    <3>2. Holds(ch[a], pos[a], app[p]) /\ GoesOn(ch[a], a, app[p], ch2, pos, own)
      BY <1>10, <2>1, <2>2, <2>4, <3>1 DEF ChunkKnown
    <3>3. GoesOn(ch[a], a, app2[p], ch2, pos, own)
      <4>1. ch[a].payloadSize \in Nat /\ pos[a] \in Nat
        BY <1>3, <1>4 DEF ChunkRecords
      <4>2. pos[a] + ch[a].payloadSize < Len(app[p]) => pos[a] + ch[a].payloadSize < Len(app2[p])
        BY <1>5, <1>6, <4>1
      <4>. QED BY <3>2, <4>2 DEF GoesOn
    <3>4. Holds(ch[a], pos[a], app2[p])
      <4>. SUFFICES ASSUME NEW i \in 1 .. Len(ch[a].data)
                    PROVE  pos[a] + i <= Len(app2[p]) /\ ch[a].data[i] = app2[p][pos[a] + i]
        BY DEF Holds
      <4>1. pos[a] + i <= Len(app[p]) /\ ch[a].data[i] = app[p][pos[a] + i]
        BY <3>2 DEF Holds
      <4>2. pos[a] \in Nat
        BY <1>3, <1>4
      <4>3. pos[a] + i \in 1 .. Len(app[p]) /\ pos[a] + i <= Len(app2[p])
        BY <1>5, <1>6, <4>1, <4>2
      <4>4. (app[p] \o s)[pos[a] + i] = app[p][pos[a] + i]
        BY <1>2, <4>3, BytesAdded
      <4>. QED BY <4>1, <4>3, <4>4
    <3>. QED BY <1>10, <2>1, <2>4, <3>1, <3>3, <3>4, <1>2 DEF ChunkKnown
  <2>. QED BY <2>3, <2>4
<1>11. \A a \in DOMAIN ch2 : ChunkKnown(a, ix2[own[a]], app2[own[a]], ch2, pos, own)
  BY <1>2, <1>9, <1>10
<1>. QED BY <1>1, <1>7, <1>8, <1>11 DEF Chained

\* append(): bytes t start a chunk of k pages, which is linked to the last one.
Linking(p, t, k, last, pc, ch, ix, app, ch2, ix2, app2) ==
  /\ last = ix[p].lastPage /\ last # 0 /\ ch[last].rest = 0
  /\ t \in Seq(PileBytes) /\ t # <<>> /\ k \in Nat \ {0} /\ Len(t) <= Payload(k)
  /\ DOMAIN ch2 = DOMAIN ch \union {pc} /\ \A a \in DOMAIN ch : a # last => ch2[a] = ch[a]
  /\ ch2[last] = [payloadSize |-> ch[last].payloadSize, rest |-> pc, data |-> ch[last].data]
  /\ ch2[pc] = [payloadSize |-> Payload(k), rest |-> Payload(k) - Len(t), data |-> t]
  /\ \A q \in Piles : q # p => ix2[q] = ix[q] /\ app2[q] = app[q]
  /\ ix2[p] = [firstPage |-> ix[p].firstPage, lastPage |-> pc, totalPayloadSize |-> Len(app[p]) + Len(t)]
  /\ app2[p] = app[p] \o t

\* There is a place for the new chunk, too.
LEMMA Linked ==
  ASSUME NEW ch, NEW ix, NEW app, NEW pc \in Nat \ {0}, NEW pos, NEW own, NEW pages,
         Chained(ch, ix, app, pc, pos, own, pages), NEW p \in Piles, NEW t, NEW k, NEW last,
         NEW ch2, NEW ix2, NEW app2, Linking(p, t, k, last, pc, ch, ix, app, ch2, ix2, app2)
  PROVE  Chained(ch2, ix2, app2, pc + k, Pile!Put(pos, pc, Len(app[p])), Pile!Put(own, pc, p), Pile!Put(pages, pc, k))
<1>0. /\ last = ix[p].lastPage /\ last # 0 /\ ch[last].rest = 0
      /\ t \in Seq(PileBytes) /\ t # <<>> /\ k \in Nat \ {0} /\ Len(t) <= Payload(k)
      /\ DOMAIN ch2 = DOMAIN ch \union {pc} /\ \A a \in DOMAIN ch : a # last => ch2[a] = ch[a]
      /\ ch2[last] = [payloadSize |-> ch[last].payloadSize, rest |-> pc, data |-> ch[last].data]
      /\ ch2[pc] = [payloadSize |-> Payload(k), rest |-> Payload(k) - Len(t), data |-> t]
      /\ \A q \in Piles : q # p => ix2[q] = ix[q] /\ app2[q] = app[q]
      /\ ix2[p] = [firstPage |-> ix[p].firstPage, lastPage |-> pc, totalPayloadSize |-> Len(app[p]) + Len(t)]
      /\ app2[p] = app[p] \o t
  BY DEF Linking
<1>. USE <1>0
<1>. DEFINE pages2 == Pile!Put(pages, pc, k)
            pos2 == Pile!Put(pos, pc, Len(app[p]))
            own2 == Pile!Put(own, pc, p)
            z == Len(app[p])
            y == Len(t)
            n == Payload(k)
<1>1. /\ Places(pc, pos, own, pages) /\ Headers(ch, pages)
      /\ \A q \in Piles : EntryKnown(ix[q], app[q], q, ch, pos, own, pages)
      /\ \A a \in DOMAIN ch : ChunkKnown(a, ix[own[a]], app[own[a]], ch, pos, own)
  BY DEF Chained
<1>2. /\ ix[p].firstPage \in Nat \ {0} /\ ix[p].firstPage \in DOMAIN ch /\ last \in DOMAIN ch /\ own[last] = p
      /\ app[p] \in Seq(PileBytes)
  BY <1>1 DEF EntryKnown, EntryRecords
<1>3. /\ z \in Nat /\ y \in Nat \ {0} /\ n \in Nat /\ y <= n
      /\ app2[p] \in Seq(PileBytes) /\ Len(app2[p]) = z + y
      /\ \A i \in 1 .. z : app2[p][i] = app[p][i]
      /\ \A i \in 1 .. y : app2[p][z + i] = t[i]
  <2>1. z \in Nat /\ y \in Nat /\ n \in Nat
    BY <1>2, LenProperties, PayloadOfPages
  <2>2. y # 0
    BY EmptySeq
  <2>3. /\ app[p] \o t \in Seq(PileBytes) /\ Len(app[p] \o t) = z + y
        /\ \A i \in 1 .. z : (app[p] \o t)[i] = app[p][i]
        /\ \A i \in 1 .. y : (app[p] \o t)[z + i] = t[i]
    BY <1>2, BytesAdded
  <2>. HIDE DEF z, y, n
  <2>. QED BY <2>1, <2>2, <2>3, ZenonT(30) DEF n, y
<1>4. /\ Places(pc + k, pos2, own2, pages2) /\ pc \notin DOMAIN pages
      /\ DOMAIN pages2 = DOMAIN pages \union {pc} /\ pages2[pc] = k /\ pos2[pc] = z /\ own2[pc] = p
      /\ \A a \in DOMAIN pages : pages2[a] = pages[a] /\ a # pc /\ pos2[a] = pos[a] /\ own2[a] = own[a]
  <2>1. z \in Nat
    BY <1>3
  <2>. HIDE DEF z
  <2>2. PlaceAdded(pc, z, p, k, pos, own, pages, Pile!Put(pos, pc, z), own2, pages2)
    BY <1>1, <2>1, PlacesAdded
  <2>. QED BY <2>2 DEF PlaceAdded, z
<1>. HIDE DEF pages2, pos2, own2, z, y, n
<1>5. DOMAIN ch \subseteq DOMAIN pages /\ \A a \in DOMAIN ch : ch[a] \in ChunkRecords /\ ch[a].payloadSize = Payload(pages[a])
  BY <1>1 DEF Headers
<1>6. \A a \in DOMAIN pages : a \in Nat \ {0} /\ own[a] \in Piles /\ pos[a] \in Nat
  BY <1>1 DEF Places
<1>7. /\ ch2[pc].payloadSize = n /\ ch2[pc].rest = n - y /\ ch2[pc].data = t /\ ch2[pc] \in ChunkRecords
      /\ ch2[last].payloadSize = ch[last].payloadSize /\ ch2[last].rest = pc /\ ch2[last].data = ch[last].data
      /\ ch2[last] \in ChunkRecords
  <2>1. n - y \in Nat
    BY <1>3
  <2>2. ch2[pc].payloadSize = n /\ ch2[pc].rest = n - y /\ ch2[pc].data = t /\ ch2[pc] \in ChunkRecords
    BY <1>3, <2>1 DEF ChunkRecords, n, y
  <2>3. ch[last] \in ChunkRecords
    BY <1>2, <1>5
  <2>4. ch[last].payloadSize \in Nat /\ ch[last].data \in Seq(PileBytes)
    BY <2>3 DEF ChunkRecords
  <2>. QED BY <2>2, <2>4 DEF ChunkRecords
<1>8. Headers(ch2, pages2)
  <2>1. ASSUME NEW a \in DOMAIN ch2 PROVE ch2[a] \in ChunkRecords /\ ch2[a].payloadSize = Payload(pages2[a])
    <3>1. CASE a = pc
      BY <1>4, <1>7, <3>1 DEF n
    <3>2. CASE a = last
      BY <1>2, <1>4, <1>5, <1>7, <3>2
    <3>3. CASE a \in DOMAIN ch /\ a # last
      BY <1>4, <1>5, <3>3
    <3>. QED BY <3>1, <3>2, <3>3
  <2>. QED BY <1>4, <1>5, <2>1 DEF Headers
<1>9. ASSUME NEW q \in Piles PROVE EntryKnown(ix2[q], app2[q], q, ch2, pos2, own2, pages2)
  <2>0. EntryKnown(ix[q], app[q], q, ch, pos, own, pages)
    BY <1>1
  <2>1. CASE q = p
    <3>1. ix2[p] \in EntryRecords
      <4>1. ix[p].firstPage \in Nat /\ z + y \in Nat
        BY <1>2, <1>3
      <4>. QED BY <4>1 DEF EntryRecords, z, y
    <3>2. ix[p].firstPage \in DOMAIN pages /\ own[ix[p].firstPage] = p /\ pos[ix[p].firstPage] = 0
      BY <1>2, <2>0, <2>1 DEF EntryKnown
    <3>3. /\ ix2[p].firstPage = ix[p].firstPage /\ ix2[p].lastPage = pc /\ ix2[p].totalPayloadSize = Len(app2[p])
          /\ ix[p].firstPage # 0 /\ ix[p].firstPage \in DOMAIN ch2 /\ pc \in DOMAIN ch2 /\ pc # 0
      BY <1>2, <1>3 DEF z, y
    <3>4. EntryKnown(ix2[p], app2[p], p, ch2, pos2, own2, pages2)
      BY ONLY <1>3, <1>4, <3>1, <3>2, <3>3 DEF EntryKnown
    <3>. QED BY <2>1, <3>4
  <2>2. CASE q # p
    <3>1. ix2[q] = ix[q] /\ app2[q] = app[q]
      BY <2>2
    <3>2. DOMAIN ch \subseteq DOMAIN ch2 /\ DOMAIN pages \subseteq DOMAIN pages2
      BY <1>4
    <3>3. ix[q].lastPage = 0 /\ ix[q].firstPage # 0 => ix[q].firstPage \notin DOMAIN ch2
      BY <1>4, <2>0 DEF EntryKnown
    <3>4. \A a \in DOMAIN pages : pages2[a] = pages[a] /\ pos2[a] = pos[a] /\ own2[a] = own[a]
      BY <1>4
    <3>5. EntryKnown(ix[q], app[q], q, ch2, pos2, own2, pages2)
      BY ONLY <1>5, <2>0, <3>2, <3>3, <3>4, EntryStays
    <3>. QED BY <3>1, <3>5
  <2>. QED BY <2>1, <2>2
<1>10. ChunkKnown(pc, ix2[p], app2[p], ch2, pos2, own2)
  <2>1. Holds(ch2[pc], pos2[pc], app2[p])
    <3>1. ASSUME NEW i \in 1 .. y PROVE z + i <= Len(app2[p]) /\ t[i] = app2[p][z + i]
      <4>1. i \in 1 .. y
        OBVIOUS
      <4>. QED BY ONLY <1>3, <4>1
    <3>. QED BY <1>4, <1>7, <3>1 DEF Holds, y
  <2>2. EndsPile(ch2[pc], pos2[pc], app2[p])
    <3>1. y + (n - y) = n
      BY <1>3
    <3>. QED BY <1>3, <1>4, <1>7, <3>1 DEF EndsPile, y
  <2>. QED BY <2>1, <2>2 DEF ChunkKnown
<1>11. ASSUME NEW a \in DOMAIN ch PROVE ChunkKnown(a, ix2[own2[a]], app2[own2[a]], ch2, pos2, own2)
  <2>1. /\ ChunkKnown(a, ix[own[a]], app[own[a]], ch, pos, own) /\ own[a] \in Piles /\ a \in DOMAIN pages
        /\ own2[a] = own[a] /\ pos2[a] = pos[a] /\ a # pc /\ pos[a] \in Nat /\ ch[a].payloadSize \in Nat
    BY <1>1, <1>4, <1>5, <1>6 DEF ChunkRecords
  <2>2. ch2[a].data = ch[a].data /\ ch2[a].payloadSize = ch[a].payloadSize
    BY <1>7
  <2>3. CASE own[a] # p
    <3>1. ix2[own[a]] = ix[own[a]] /\ app2[own[a]] = app[own[a]] /\ a # last /\ ch2[a] = ch[a]
      BY <1>2, <2>1, <2>3
    <3>2. GoesOn(ch[a], a, app[own[a]], ch, pos, own) => GoesOn(ch[a], a, app[own[a]], ch2, pos2, own2)
      BY <1>4, <1>5, <2>1 DEF GoesOn
    <3>. QED BY <2>1, <3>1, <3>2 DEF ChunkKnown
  <2>4. CASE own[a] = p
    <3>1. Holds(ch[a], pos[a], app[p]) /\ (a = last => EndsPile(ch[a], pos[a], app[p]))
          /\ (a # last => GoesOn(ch[a], a, app[p], ch, pos, own))
      BY <2>1, <2>4 DEF ChunkKnown
    <3>2. Holds(ch2[a], pos[a], app2[p])
      <4>. SUFFICES ASSUME NEW i \in 1 .. Len(ch[a].data)
                    PROVE  pos[a] + i <= Len(app2[p]) /\ ch[a].data[i] = app2[p][pos[a] + i]
        BY <2>2 DEF Holds
      <4>1. pos[a] + i <= z /\ ch[a].data[i] = app[p][pos[a] + i]
        BY <3>1 DEF Holds, z
      <4>2. pos[a] + i \in 1 .. z /\ pos[a] + i <= z + y
        BY <1>3, <2>1, <4>1
      <4>. QED BY <1>3, <4>1, <4>2
    <3>3. a # ix2[p].lastPage /\ ix2[p].lastPage # 0
      BY <2>1
    <3>4. GoesOn(ch2[a], a, app2[p], ch2, pos2, own2)
      <4>1. CASE a = last
        <5>1. pos[a] + Len(ch[a].data) = z /\ Len(ch[a].data) + ch[a].rest = ch[a].payloadSize /\ ch[a].rest = 0
          BY <3>1, <4>1 DEF EndsPile, z
        <5>2. Len(ch[a].data) = ch[a].payloadSize
          <6>1. Len(ch[a].data) \in Nat
            BY <1>5, LenProperties DEF ChunkRecords
          <6>. QED BY <5>1, <6>1
        <5>3. pos[a] + ch[a].payloadSize = z /\ z < z + y
          BY <1>3, <5>1, <5>2
        <5>. QED BY <1>3, <1>4, <1>7, <2>1, <2>2, <2>4, <4>1, <5>2, <5>3 DEF GoesOn
      <4>2. CASE a # last
        <5>1. GoesOn(ch[a], a, app[p], ch, pos, own) /\ ch2[a] = ch[a]
          BY <3>1, <4>2
        <5>2. pos[a] + ch[a].payloadSize < z + y
          BY <1>3, <2>1, <5>1 DEF GoesOn, z
        <5>. QED BY <1>3, <1>4, <1>5, <2>1, <5>1, <5>2 DEF GoesOn
      <4>. QED BY <4>1, <4>2
    <3>. QED BY <2>1, <2>4, <3>2, <3>3, <3>4 DEF ChunkKnown
  <2>. QED BY <2>3, <2>4
<1>12. \A a \in DOMAIN ch2 : ChunkKnown(a, ix2[own2[a]], app2[own2[a]], ch2, pos2, own2)
  BY <1>4, <1>10, <1>11
<1>13. Chained(ch2, ix2, app2, pc + k, pos2, own2, pages2)
  BY <1>4, <1>8, <1>9, <1>12 DEF Chained
<1>. QED BY <1>13 DEF pages2, pos2, own2, z

-----------------------------------------------------------------------------
(* Pile files: the steps *)

\* There are places for the chunks.
ChunksKnown == \E pos, own, pages : Chained(chunks, index, appended, pageCount, pos, own, pages)

\* A pile file starts with no chunks.
LEMMA PileStarts == Pile!Init => PileInv
<1>. SUFFICES ASSUME Pile!Init PROVE PileInv
  OBVIOUS
<1>. DEFINE none == [a \in {} |-> 0]
<1>1. PileTyped
  <2>1. Pile!PageSize \in Nat /\ MaxWastefulCycles \in Nat \ {0}
    BY PageSizes, ServicesAssumption DEF Pile!PileAssumption
  <2>2. <<>> \in Seq(PileBytes)
    OBVIOUS
  <2>. QED BY <2>1, <2>2 DEF Pile!Init, PileTyped, Pile!IndexPages, Pile!Idle, Pile!NoPile
<1>2. loading = Pile!Idle /\ pageCount = 1 /\ chunks = [p \in {} |-> 0]
  BY DEF Pile!Init, Pile!IndexPages
<1>3. Places(pageCount, none, none, none) /\ Headers(chunks, none)
  BY <1>2 DEF Places, Headers
<1>4. ASSUME NEW p \in Piles PROVE EntryKnown(index[p], appended[p], p, chunks, none, none, none)
  <2>1. index[p] = [firstPage |-> 0, lastPage |-> 0, totalPayloadSize |-> 0] /\ appended[p] = <<>> /\ <<>> \in Seq(PileBytes)
    BY DEF Pile!Init, Pile!Free
  <2>. QED BY <2>1 DEF EntryKnown, EntryRecords
<1>5. Chained(chunks, index, appended, pageCount, none, none, none)
  BY <1>2, <1>3, <1>4 DEF Chained
<1>. QED BY <1>1, <1>2, <1>5 DEF PileInv

\* preallocate() keeps the invariant.
LEMMA PreallocateKept ==
  ASSUME PileInv, NEW p \in Piles, NEW n \in Preallocations, Pile!Preallocate(p, n)
  PROVE  PileTyped' /\ ChunksKnown'
<1>1. PICK pos, own, pages : Chained(chunks, index, appended, pageCount, pos, own, pages)
  BY DEF PileInv
<1>2. /\ pageCount \in Nat \ {0} /\ n \in Nat \ {0} /\ DOMAIN index = Piles /\ index[p].firstPage = 0
      /\ pageCount' = pageCount + n /\ chunks' = chunks /\ appended' = appended
      /\ index' = [index EXCEPT ![p] = [firstPage |-> pageCount, lastPage |-> 0, totalPayloadSize |-> Payload(n)]]
  BY ServicesAssumption DEF PileInv, PileTyped, Pile!Preallocate, Pile!Free, Pile!PileAssumption, Payload
<1>3. index'[p] = [firstPage |-> pageCount, lastPage |-> 0, totalPayloadSize |-> Payload(n)]
      /\ \A q \in Piles : q # p => index'[q] = index[q]
  BY <1>2
<1>4. Chained(chunks, index', appended, pageCount + n, Pile!Put(pos, pageCount, 0), Pile!Put(own, pageCount, p), Pile!Put(pages, pageCount, n))
  BY <1>1, <1>2, <1>3, SetAside
<1>5. ChunksKnown'
  BY <1>2, <1>4 DEF ChunksKnown
<1>6. PileTyped'
  BY <1>2 DEF PileInv, PileTyped, Pile!Preallocate, Pile!Call
<1>. QED BY <1>5, <1>6

\* The first chunk of a pile is set aside and then filled.
LEMMA AppendFirstKept ==
  ASSUME PileInv, NEW p \in Piles, NEW len \in PileLengths, Pile!AppendFirst(p, len)
  PROVE  PileTyped' /\ ChunksKnown'
<1>. DEFINE n == Pile!PagesFor(len)
            s == Pile!Bytes(len)
            e == [firstPage |-> pageCount, lastPage |-> 0, totalPayloadSize |-> Payload(n)]
            ix == [index EXCEPT ![p] = e]
            c == [payloadSize |-> Payload(n), rest |-> Payload(n), data |-> <<>>]
<1>1. PICK pos, own, pages : Chained(chunks, index, appended, pageCount, pos, own, pages)
  BY DEF PileInv
<1>2. /\ pageCount \in Nat \ {0} /\ len \in Nat \ {0} /\ DOMAIN index = Piles /\ DOMAIN appended = Piles /\ calls \in Nat
      /\ index[p].firstPage = 0 /\ pageCount' = pageCount + n
      /\ chunks' = Pile!Put(chunks, pageCount, Pile!ChunkOf(n, s))
      /\ index' = [index EXCEPT ![p] = [firstPage |-> pageCount, lastPage |-> pageCount, totalPayloadSize |-> len]]
      /\ appended' = [appended EXCEPT ![p] = appended[p] \o s] /\ pageSize \in {Pile!PageSize, PageShift}
  BY ServicesAssumption DEF PileInv, PileTyped, Pile!AppendFirst, Pile!PileAssumption
<1>3. n \in Nat \ {0} /\ len <= Payload(n) /\ Payload(n) \in Nat
  BY <1>2, EnoughPages, PayloadOfPages
<1>4. s \in Seq(PileBytes) /\ Len(s) = len /\ <<>> \o s = s
  <2>1. s \in Seq(PileBytes) /\ Len(s) = len
    BY <1>2, BytesGiven
  <2>. HIDE DEF s
  <2>. QED BY <2>1, ConcatEmptySeq
<1>5. appended[p] = <<>>
  BY <1>1, <1>2 DEF Chained, EntryKnown
<1>. HIDE DEF n, s
<1>6. ix[p] = e /\ \A q \in Piles : q # p => ix[q] = index[q]
  BY <1>2
<1>. HIDE DEF ix
<1>7. Chained(chunks, ix, appended, pageCount + n, Pile!Put(pos, pageCount, 0), Pile!Put(own, pageCount, p), Pile!Put(pages, pageCount, n))
  BY <1>1, <1>2, <1>3, <1>6, SetAside
<1>8. pageCount = LastOf(ix[p]) /\ c = ChunkOfLast(ix[p], chunks) /\ ix[p].firstPage = pageCount
  BY <1>6 DEF LastOf, ChunkOfLast
<1>9. /\ DOMAIN chunks' = DOMAIN chunks \union {pageCount} /\ \A a \in DOMAIN chunks : a # pageCount => chunks'[a] = chunks[a]
      /\ chunks'[pageCount] = [payloadSize |-> c.payloadSize, rest |-> c.rest - Len(s), data |-> c.data \o s]
  <2>1. Pile!ChunkOf(n, s) = [payloadSize |-> Payload(n), rest |-> Payload(n) - Len(s), data |-> s]
    BY DEF Pile!ChunkOf, Payload
  <2>2. c.data \o s = s /\ c.payloadSize = Payload(n) /\ c.rest = Payload(n)
    BY <1>4
  <2>3. /\ DOMAIN chunks' = DOMAIN chunks \union {pageCount} /\ chunks'[pageCount] = Pile!ChunkOf(n, s)
        /\ \A a \in DOMAIN chunks : a # pageCount => chunks'[a] = chunks[a]
    BY <1>2 DEF Pile!Put
  <2>. HIDE DEF c
  <2>. QED BY <2>1, <2>2, <2>3
<1>10. /\ \A q \in Piles : q # p => index'[q] = ix[q] /\ appended'[q] = appended[q]
       /\ appended'[p] = appended[p] \o s /\ Len(appended[p]) + Len(s) = len
       /\ index'[p] = [firstPage |-> ix[p].firstPage, lastPage |-> pageCount, totalPayloadSize |-> Len(appended[p]) + Len(s)]
  <2>1. Len(<<>>) = 0 /\ 0 + len = len
    BY <1>2
  <2>. QED BY <1>2, <1>4, <1>5, <1>6, <1>8, <2>1
<1>11. c.rest = Payload(n) /\ Len(s) <= c.rest /\ ix[p].firstPage # 0
  BY <1>2, <1>3, <1>4, <1>8
<1>. HIDE DEF c, e
<1>12. Chained(chunks', index', appended', pageCount + n, Pile!Put(pos, pageCount, 0), Pile!Put(own, pageCount, p), Pile!Put(pages, pageCount, n))
  <2>1. Filling(p, s, pageCount, c, chunks, ix, appended, chunks', index', appended')
    BY <1>2, <1>4, <1>8, <1>9, <1>10, <1>11 DEF Filling
  <2>. QED BY <1>7, <2>1, Filled
<1>13. ChunksKnown'
  BY <1>2, <1>12 DEF ChunksKnown
<1>14. PileTyped'
  BY <1>2, <1>3 DEF PileInv, PileTyped, Pile!AppendFirst, Pile!Call
<1>. QED BY <1>13, <1>14

\* All of what is appended.
LEMMA AllBytes ==
  ASSUME NEW len \in Nat, calls \in Nat
  PROVE  SubSeq(Pile!Bytes(len), 1, len) = Pile!Bytes(len)
<1>. DEFINE b == Pile!Bytes(len)
<1>1. b \in Seq(PileBytes) /\ Len(b) = len
  BY BytesGiven
<1>. HIDE DEF b
<1>2. SubSeq(b, 1, len) \in Seq(PileBytes) /\ Len(SubSeq(b, 1, len)) = len /\ \A i \in 1 .. len : SubSeq(b, 1, len)[i] = b[i]
  BY <1>1, SubSeqProperties
<1>. DEFINE z == SubSeq(b, 1, len)
<1>. HIDE DEF z
<1>3. z \in Seq(PileBytes) /\ Len(z) = len /\ \A i \in 1 .. len : z[i] = b[i]
  BY <1>2 DEF z
<1>4. z = b
  BY <1>1, <1>3, SeqEqual
<1>. QED BY <1>4 DEF z, b

\* Two fields of a chunk, and of an entry of the index, are changed at once.
LEMMA ChunkChanged ==
  ASSUME NEW c \in ChunkRecords, NEW r, NEW d
  PROVE  [c EXCEPT !.rest = r, !.data = d] = [payloadSize |-> c.payloadSize, rest |-> r, data |-> d]
<1>1. PICK b : b = [c EXCEPT !.rest = r]
  OBVIOUS
<1>2. b \in [payloadSize : Nat, rest : {r}, data : Seq(PileBytes)] /\ b.payloadSize = c.payloadSize /\ b.rest = r
  BY <1>1 DEF ChunkRecords
<1>3. [b EXCEPT !.data = d] = [payloadSize |-> b.payloadSize, rest |-> b.rest, data |-> d]
  BY <1>2
<1>4. [c EXCEPT !.rest = r, !.data = d] = [b EXCEPT !.data = d]
  BY <1>1
<1>. QED BY <1>2, <1>3, <1>4

LEMMA RestChanged ==
  ASSUME NEW a, NEW b, NEW d, NEW c, c = [payloadSize |-> a, rest |-> b, data |-> d], NEW r
  PROVE  [c EXCEPT !.rest = r] = [payloadSize |-> a, rest |-> r, data |-> d]
<1>1. c \in [payloadSize : {a}, rest : {b}, data : {d}]
  OBVIOUS
<1>2. [c EXCEPT !.rest = r] = [payloadSize |-> c.payloadSize, rest |-> r, data |-> c.data]
  BY ONLY <1>1
<1>. QED BY <1>2

LEMMA EntryChanged ==
  ASSUME NEW ix, NEW p \in DOMAIN ix, ix[p] \in EntryRecords, NEW a, NEW m
  PROVE  [ix EXCEPT ![p].lastPage = a, ![p].totalPayloadSize = m] =
           [ix EXCEPT ![p] = [firstPage |-> ix[p].firstPage, lastPage |-> a, totalPayloadSize |-> m]]
<1>1. PICK b : b = [ix[p] EXCEPT !.lastPage = a]
  OBVIOUS
<1>2. b \in [firstPage : Nat, lastPage : {a}, totalPayloadSize : Nat] /\ b.firstPage = ix[p].firstPage /\ b.lastPage = a
  BY <1>1 DEF EntryRecords
<1>3. [b EXCEPT !.totalPayloadSize = m] = [firstPage |-> b.firstPage, lastPage |-> b.lastPage, totalPayloadSize |-> m]
  BY <1>2
<1>4. PICK jx : jx = [ix EXCEPT ![p] = b]
  OBVIOUS
<1>5. DOMAIN jx = DOMAIN ix /\ jx[p] = b /\ \A q \in DOMAIN ix : q # p => jx[q] = ix[q]
  BY <1>4
<1>6. [jx EXCEPT ![p] = [b EXCEPT !.totalPayloadSize = m]] = [ix EXCEPT ![p] = [b EXCEPT !.totalPayloadSize = m]]
  BY <1>4, <1>5
<1>7. [ix EXCEPT ![p].lastPage = a] = jx
  BY <1>1, <1>4
<1>8. [ix EXCEPT ![p].lastPage = a, ![p].totalPayloadSize = m] = [jx EXCEPT ![p].totalPayloadSize = m]
  BY <1>7
<1>9. [jx EXCEPT ![p].totalPayloadSize = m] = [jx EXCEPT ![p] = [b EXCEPT !.totalPayloadSize = m]]
  BY <1>5
<1>. QED BY <1>2, <1>3, <1>6, <1>8, <1>9

\* append() finds chunk c at page last, and n of the bytes, s, fit into it.
Finds(p, len, c, last, n, s) ==
  /\ c = ChunkOfLast(index[p], chunks) /\ last = LastOf(index[p]) /\ index[p].firstPage # 0
  /\ n <= len /\ n <= c.rest /\ (n # len => n = c.rest) /\ s = SubSeq(Pile!Bytes(len), 1, n)
  /\ Pile!Total(p) = Len(appended[p])
  /\ IF n = len
     THEN /\ chunks' = Pile!Put(chunks, last, [payloadSize |-> c.payloadSize, rest |-> c.rest - n, data |-> c.data \o s])
          /\ index' = [index EXCEPT ![p] = [firstPage |-> index[p].firstPage, lastPage |-> last,
                                            totalPayloadSize |-> Pile!Total(p) + len]]
          /\ pageCount' = pageCount
     ELSE /\ chunks' = Pile!Put(Pile!Put(chunks, last, [payloadSize |-> c.payloadSize, rest |-> pageCount, data |-> c.data \o s]),
                                pageCount, Pile!ChunkOf(Pile!PagesFor(len - n), Pile!Remaining(len, n)))
          /\ index' = [index EXCEPT ![p] = [firstPage |-> index[p].firstPage, lastPage |-> pageCount,
                                            totalPayloadSize |-> Pile!Total(p) + len]]
          /\ pageCount' = pageCount + Pile!PagesFor(len - n)

\* The chunk that append() finds, and what it makes of it.
LEMMA AppendFinds ==
  ASSUME PileInv, NEW p \in Piles, NEW len \in PileLengths, Pile!AppendMore(p, len),
         NEW pos, NEW own, NEW pages, Chained(chunks, index, appended, pageCount, pos, own, pages)
  PROVE  \E s : \E c \in ChunkRecords, last \in DOMAIN pages \ {pageCount}, n \in Nat : Finds(p, len, c, last, n, s)
<1>. DEFINE c == Pile!LastChunk(p)
            last == Pile!LastPage(p)
            n == IF len < c.rest THEN len ELSE c.rest
            s == SubSeq(Pile!Bytes(len), 1, n)
            filled == [c EXCEPT !.rest = @ - n, !.data = @ \o s]
            e == index[p]
<1>1. /\ e.firstPage # 0
      /\ IF n = len
         THEN /\ chunks' = Pile!Put(chunks, last, filled)
              /\ index' = [index EXCEPT ![p].lastPage = last, ![p].totalPayloadSize = Pile!Total(p) + len]
              /\ pageCount' = pageCount
         ELSE /\ chunks' = Pile!Put(Pile!Put(chunks, last, [filled EXCEPT !.rest = pageCount]),
                                    pageCount, Pile!ChunkOf(Pile!PagesFor(len - n), Pile!Remaining(len, n)))
              /\ index' = [index EXCEPT ![p].lastPage = pageCount, ![p].totalPayloadSize = Pile!Total(p) + len]
              /\ pageCount' = pageCount + Pile!PagesFor(len - n)
  BY ZenonT(30) DEF Pile!AppendMore
<1>2. c = ChunkOfLast(e, chunks) /\ last = LastOf(e)
  BY DEF Pile!LastChunk, Pile!LastPage, ChunkOfLast, LastOf
<1>. HIDE DEF c, last
<1>3. c \in ChunkRecords /\ last \in DOMAIN pages
  BY <1>1, <1>2, LastKnown
<1>4. last # pageCount
  <2>1. pageCount \in Nat /\ Places(pageCount, pos, own, pages)
    BY DEF PileInv, PileTyped, Chained
  <2>2. last \in Nat /\ pages[last] \in Nat \ {0} /\ last + pages[last] <= pageCount
    BY <1>3, <2>1 DEF Places
  <2>. QED BY <2>1, <2>2
<1>5. EntryKnown(e, appended[p], p, chunks, pos, own, pages) /\ DOMAIN index = Piles
  BY DEF Chained, PileInv, PileTyped
<1>6. Pile!Total(p) = Len(appended[p])
  <2>1. Len(<<>>) = 0
    OBVIOUS
  <2>. QED BY <1>1, <1>5, <2>1 DEF EntryKnown, Pile!Total
<1>7. len \in Nat /\ c.rest \in Nat
  BY <1>3, ServicesAssumption DEF ChunkRecords, Pile!PileAssumption
<1>8. n \in Nat /\ n <= len /\ n <= c.rest /\ (n # len => n = c.rest)
  BY <1>7
<1>. HIDE DEF n, s
<1>9. /\ filled = [payloadSize |-> c.payloadSize, rest |-> c.rest - n, data |-> c.data \o s]
      /\ [filled EXCEPT !.rest = pageCount] = [payloadSize |-> c.payloadSize, rest |-> pageCount, data |-> c.data \o s]
  <2>1. filled = [c EXCEPT !.rest = c.rest - n, !.data = c.data \o s]
    OBVIOUS
  <2>2. filled = [payloadSize |-> c.payloadSize, rest |-> c.rest - n, data |-> c.data \o s]
    BY <1>3, <2>1, ChunkChanged, ZenonT(30)
  <2>. HIDE DEF filled
  <2>. HIDE DEF filled
  <2>3. [filled EXCEPT !.rest = pageCount] = [payloadSize |-> c.payloadSize, rest |-> pageCount, data |-> c.data \o s]
    <3>. DEFINE w == c.data \o s
                x == c.rest - n
                y == c.payloadSize
    <3>1. filled = [payloadSize |-> y, rest |-> x, data |-> w]
      BY <2>2
    <3>. HIDE DEF w, x, y
    <3>2. [filled EXCEPT !.rest = pageCount] = [payloadSize |-> y, rest |-> pageCount, data |-> w]
      BY ONLY <3>1, RestChanged
    <3>. QED BY <3>2 DEF w, x, y
  <2>. QED BY <2>2, <2>3
<1>10. \A a, m : [index EXCEPT ![p].lastPage = a, ![p].totalPayloadSize = m] =
                   [index EXCEPT ![p] = [firstPage |-> e.firstPage, lastPage |-> a, totalPayloadSize |-> m]]
  <2>1. e \in EntryRecords
    BY <1>5 DEF EntryKnown
  <2>. QED BY <1>5, <2>1, EntryChanged, ZenonT(30)
<1>. HIDE DEF filled
<1>11. IF n = len
       THEN /\ chunks' = Pile!Put(chunks, last, [payloadSize |-> c.payloadSize, rest |-> c.rest - n, data |-> c.data \o s])
            /\ index' = [index EXCEPT ![p] = [firstPage |-> e.firstPage, lastPage |-> last, totalPayloadSize |-> Pile!Total(p) + len]]
            /\ pageCount' = pageCount
       ELSE /\ chunks' = Pile!Put(Pile!Put(chunks, last, [payloadSize |-> c.payloadSize, rest |-> pageCount, data |-> c.data \o s]),
                                  pageCount, Pile!ChunkOf(Pile!PagesFor(len - n), Pile!Remaining(len, n)))
            /\ index' = [index EXCEPT ![p] = [firstPage |-> e.firstPage, lastPage |-> pageCount, totalPayloadSize |-> Pile!Total(p) + len]]
            /\ pageCount' = pageCount + Pile!PagesFor(len - n)
  BY <1>1, <1>9, <1>10
<1>12. Finds(p, len, c, last, n, s)
  BY <1>1, <1>2, <1>6, <1>8, <1>11 DEF Finds, s
<1>. QED BY <1>3, <1>4, <1>8, <1>12

\* append() to a pile that has a chunk: the last chunk takes all of it, or is
\* filled and another is linked.
LEMMA AppendMoreKept ==
  ASSUME PileInv, NEW p \in Piles, NEW len \in PileLengths, Pile!AppendMore(p, len)
  PROVE  PileTyped' /\ ChunksKnown'
<1>1. PICK pos, own, pages : Chained(chunks, index, appended, pageCount, pos, own, pages)
  BY DEF PileInv
<1>a. PICK s : \E c \in ChunkRecords, last \in DOMAIN pages \ {pageCount}, n \in Nat : Finds(p, len, c, last, n, s)
  BY <1>1, AppendFinds
<1>0. PICK c \in ChunkRecords, last \in DOMAIN pages \ {pageCount}, n \in Nat : Finds(p, len, c, last, n, s)
  BY <1>a
<1>2. /\ c = ChunkOfLast(index[p], chunks) /\ last = LastOf(index[p]) /\ index[p].firstPage # 0
      /\ n <= len /\ n <= c.rest /\ (n # len => n = c.rest) /\ s = SubSeq(Pile!Bytes(len), 1, n)
      /\ Pile!Total(p) = Len(appended[p])
      /\ IF n = len
         THEN /\ chunks' = Pile!Put(chunks, last, [payloadSize |-> c.payloadSize, rest |-> c.rest - n, data |-> c.data \o s])
              /\ index' = [index EXCEPT ![p] = [firstPage |-> index[p].firstPage, lastPage |-> last,
                                                totalPayloadSize |-> Pile!Total(p) + len]]
              /\ pageCount' = pageCount
         ELSE /\ chunks' = Pile!Put(Pile!Put(chunks, last, [payloadSize |-> c.payloadSize, rest |-> pageCount, data |-> c.data \o s]),
                                    pageCount, Pile!ChunkOf(Pile!PagesFor(len - n), Pile!Remaining(len, n)))
              /\ index' = [index EXCEPT ![p] = [firstPage |-> index[p].firstPage, lastPage |-> pageCount,
                                                totalPayloadSize |-> Pile!Total(p) + len]]
              /\ pageCount' = pageCount + Pile!PagesFor(len - n)
  BY <1>0 DEF Finds
<1>3. /\ pageCount \in Nat \ {0} /\ len \in Nat /\ DOMAIN index = Piles /\ DOMAIN appended = Piles /\ calls \in Nat
      /\ appended' = [appended EXCEPT ![p] = appended[p] \o Pile!Bytes(len)] /\ pageSize \in {Pile!PageSize, PageShift}
  BY ServicesAssumption DEF PileInv, PileTyped, Pile!AppendMore, Pile!PileAssumption
<1>4. appended[p] \in Seq(PileBytes)
  BY <1>1 DEF Chained, EntryKnown
<1>5. s \in Seq(PileBytes) /\ Len(s) = n
  <2>1. n <= len /\ s = SubSeq(Pile!Bytes(len), 1, n)
    BY <1>2
  <2>2. n \in Nat /\ len \in Nat /\ calls \in Nat
    BY <1>3
  <2>. QED BY ONLY <1>4, <2>1, <2>2, BytesCut
<1>6. PileTyped'
  <2>1. pageCount' \in Nat \ {0}
    <3>1. CASE n = len
      BY <1>2, <1>3, <3>1
    <3>2. CASE n # len
      <4>1. len - n \in Nat \ {0}
        BY <1>2, <1>3, <3>2
      <4>2. Pile!PagesFor(len - n) \in Nat
        BY <1>3, <4>1, EnoughPages
      <4>. QED BY <1>2, <1>3, <3>2, <4>2
    <3>. QED BY <3>1, <3>2
  <2>2. DOMAIN index' = Piles /\ DOMAIN appended' = Piles
    BY <1>2, <1>3
  <2>. QED BY <2>1, <2>2 DEF PileInv, PileTyped, Pile!AppendMore, Pile!Call
<1>7. CASE n = len
  <2>1. s = Pile!Bytes(len)
    BY <1>2, <1>3, <1>7, AllBytes
  <2>2. /\ DOMAIN chunks' = DOMAIN chunks \union {last} /\ \A a \in DOMAIN chunks : a # last => chunks'[a] = chunks[a]
        /\ chunks'[last] = [payloadSize |-> c.payloadSize, rest |-> c.rest - Len(s), data |-> c.data \o s]
    BY <1>2, <1>5, <1>7 DEF Pile!Put
  <2>3. /\ index'[p] = [firstPage |-> index[p].firstPage, lastPage |-> last, totalPayloadSize |-> Len(appended[p]) + Len(s)]
        /\ appended'[p] = appended[p] \o s
        /\ \A q \in Piles : q # p => index'[q] = index[q] /\ appended'[q] = appended[q]
    BY <1>2, <1>3, <1>5, <1>7, <2>1
  <2>4. Filling(p, s, last, c, chunks, index, appended, chunks', index', appended')
    BY <1>2, <1>5, <2>2, <2>3 DEF Filling
  <2>5. Chained(chunks', index', appended', pageCount, pos, own, pages) /\ pageCount' = pageCount
    BY <1>1, <1>2, <1>7, <2>4, Filled
  <2>. QED BY <1>6, <2>5 DEF ChunksKnown
<1>8. CASE n # len
  <2>. DEFINE t == Pile!Remaining(len, n)
              k == Pile!PagesFor(len - n)
              full == [payloadSize |-> c.payloadSize, rest |-> c.rest - n, data |-> c.data \o s]
              ch == Pile!Put(chunks, last, full)
              ix == [index EXCEPT ![p] = [firstPage |-> index[p].firstPage, lastPage |-> last,
                                          totalPayloadSize |-> Len(appended[p]) + n]]
              app == [appended EXCEPT ![p] = appended[p] \o s]
  <2>1. /\ t \in Seq(PileBytes) /\ Len(t) = len - n /\ len - n \in Nat \ {0}
        /\ (appended[p] \o s) \o t = appended[p] \o Pile!Bytes(len)
    <3>1. n <= len /\ s = SubSeq(Pile!Bytes(len), 1, n)
      BY <1>2
    <3>2. t \in Seq(PileBytes) /\ Len(t) = len - n /\ (appended[p] \o s) \o t = appended[p] \o Pile!Bytes(len)
      <4>1. n \in Nat /\ len \in Nat /\ calls \in Nat
        BY <1>3
      <4>. QED BY ONLY <1>4, <3>1, <4>1, BytesCut
    <3>3. len - n \in Nat \ {0}
      BY <1>3, <1>8, <3>1
    <3>. QED BY <3>2, <3>3
  <2>2. k \in Nat \ {0} /\ len - n <= Payload(k)
    BY <1>3, <2>1, EnoughPages
  <2>3. t # <<>>
    <3>1. Len(<<>>) = 0
      OBVIOUS
    <3>. QED BY <2>1, <3>1
  <2>4. c.rest = n /\ n - n = 0
    BY <1>2, <1>8
  <2>5. full.payloadSize = c.payloadSize /\ full.rest = 0 /\ full.data = c.data \o s /\ c.rest - Len(s) = 0
    BY <1>5, <2>4
  <2>6. /\ DOMAIN ch = DOMAIN chunks \union {last} /\ ch[last] = full
        /\ \A a \in DOMAIN chunks : a # last => ch[a] = chunks[a]
    BY DEF Pile!Put
  <2>7. /\ DOMAIN chunks' = DOMAIN chunks \union {last, pageCount}
        /\ chunks'[last] = [payloadSize |-> c.payloadSize, rest |-> pageCount, data |-> c.data \o s]
        /\ chunks'[pageCount] = Pile!ChunkOf(k, t)
        /\ \A a \in DOMAIN chunks : a # last /\ a # pageCount => chunks'[a] = chunks[a]
    <3>. HIDE DEF t, k, full, ch, ix, app
    <3>1. chunks' = Pile!Put(Pile!Put(chunks, last, [payloadSize |-> c.payloadSize, rest |-> pageCount, data |-> c.data \o s]),
                             pageCount, Pile!ChunkOf(k, t))
      BY <1>2, <1>8 DEF k, t
    <3>. QED BY <3>1 DEF Pile!Put
  <2>8. Pile!ChunkOf(k, t) = [payloadSize |-> Payload(k), rest |-> Payload(k) - Len(t), data |-> t]
    BY DEF Pile!ChunkOf, Payload
  <2>9. /\ ix[p] = [firstPage |-> index[p].firstPage, lastPage |-> last, totalPayloadSize |-> Len(appended[p]) + Len(s)]
        /\ app[p] = appended[p] \o s
        /\ \A q \in Piles : q # p => ix[q] = index[q] /\ app[q] = appended[q]
    BY <1>3, <1>5
  <2>10. /\ index'[p] = [firstPage |-> index[p].firstPage, lastPage |-> pageCount, totalPayloadSize |-> Len(appended[p]) + len]
         /\ appended'[p] = app[p] \o t
         /\ \A q \in Piles : q # p => index'[q] = ix[q] /\ appended'[q] = app[q]
    <3>. HIDE DEF t, k, full, ch, ix, app
    <3>. QED BY <1>2, <1>3, <1>8, <2>1, <2>9
  <2>11. pageCount' = pageCount + k
    BY <1>2, <1>8
  <2>. HIDE DEF t, k, full, ch, ix, app
  <2>12. Filling(p, s, last, c, chunks, index, appended, ch, ix, app)
    <3>1. ch[last] = [payloadSize |-> c.payloadSize, rest |-> c.rest - Len(s), data |-> c.data \o s]
      BY <1>5, <2>6 DEF full
    <3>2. Len(s) <= c.rest
      BY <1>2, <1>5
    <3>. QED BY <1>2, <1>5, <2>6, <2>9, <3>1, <3>2 DEF Filling
  <2>13. Chained(ch, ix, app, pageCount, pos, own, pages)
    BY <1>1, <2>12, Filled
  <2>14. Linking(p, t, k, last, pageCount, ch, ix, app, chunks', index', appended')
    <3>1. last # 0
      BY <1>1 DEF Chained, Places
    <3>2. Len(app[p]) = Len(appended[p]) + n /\ Len(app[p]) + Len(t) = Len(appended[p]) + len
      <4>1. Len(app[p]) = Len(appended[p]) + n /\ Len(appended[p]) \in Nat
        BY <1>4, <1>5, <2>9, BytesAdded
      <4>2. (Len(appended[p]) + n) + (len - n) = Len(appended[p]) + len
        BY <1>3, <4>1
      <4>. QED BY <2>1, <4>1, <4>2
    <3>3. /\ last = ix[p].lastPage /\ ch[last].rest = 0 /\ ix[p].firstPage = index[p].firstPage
          /\ chunks'[last] = [payloadSize |-> ch[last].payloadSize, rest |-> pageCount, data |-> ch[last].data]
      <4>1. last = ix[p].lastPage /\ ix[p].firstPage = index[p].firstPage
        BY <2>9
      <4>2. ch[last].payloadSize = c.payloadSize /\ ch[last].rest = 0 /\ ch[last].data = c.data \o s
        BY <2>5, <2>6
      <4>. QED BY <2>7, <4>1, <4>2
    <3>4. DOMAIN chunks' = DOMAIN ch \union {pageCount}
      BY <2>6, <2>7
    <3>5. \A a \in DOMAIN ch : a # last => chunks'[a] = ch[a]
      <4>1. pageCount \notin DOMAIN chunks
        <5>1. DOMAIN chunks \subseteq DOMAIN pages /\ pageCount \notin DOMAIN pages
          BY <1>1, <1>3 DEF Chained, Places, Headers
        <5>. QED BY <5>1
      <4>. QED BY <2>6, <2>7, <4>1
    <3>6. chunks'[pageCount] = [payloadSize |-> Payload(k), rest |-> Payload(k) - Len(t), data |-> t]
      BY <2>7, <2>8
    <3>7. /\ index'[p] = [firstPage |-> ix[p].firstPage, lastPage |-> pageCount, totalPayloadSize |-> Len(app[p]) + Len(t)]
          /\ Len(t) <= Payload(k)
      BY <2>1, <2>2, <2>10, <3>2, <3>3
    <3>. QED BY <2>1, <2>2, <2>3, <2>10, <3>1, <3>3, <3>4, <3>5, <3>6, <3>7 DEF Linking
  <2>15. Chained(chunks', index', appended', pageCount + k, Pile!Put(pos, pageCount, Len(app[p])),
                 Pile!Put(own, pageCount, p), Pile!Put(pages, pageCount, k))
    BY <1>3, <2>13, <2>14, Linked
  <2>. QED BY <1>6, <2>11, <2>15 DEF ChunksKnown
<1>. QED BY <1>7, <1>8

\* Two fields of the block, and three of the call of load(), are changed at once.
LEMMA BlockChanged ==
  ASSUME NEW b, b \in [capacity : Nat, size : Nat, cycles : Nat \ {0}], NEW n, NEW k
  PROVE  [b EXCEPT !.size = n, !.cycles = k] = [capacity |-> b.capacity, size |-> n, cycles |-> k]
<1>1. PICK c : c = [b EXCEPT !.size = n]
  OBVIOUS
<1>2. c \in [capacity : Nat, size : {n}, cycles : Nat \ {0}] /\ c.capacity = b.capacity /\ c.size = n
  BY <1>1
<1>3. [c EXCEPT !.cycles = k] = [capacity |-> c.capacity, size |-> c.size, cycles |-> k]
  BY <1>2
<1>4. [b EXCEPT !.size = n, !.cycles = k] = [c EXCEPT !.cycles = k]
  BY <1>1
<1>. QED BY <1>2, <1>3, <1>4

Loads == [pile : Piles \union {0}, page : Nat, left : Nat, data : Seq(PileBytes)]
LEMMA LoadChanged ==
  ASSUME NEW l \in Loads, NEW a, NEW m, NEW d
  PROVE  [l EXCEPT !.page = a, !.left = m, !.data = d] = [pile |-> l.pile, page |-> a, left |-> m, data |-> d]
<1>1. PICK b : b = [l EXCEPT !.page = a]
  OBVIOUS
<1>2. b \in [pile : {l.pile}, page : {a}, left : Nat, data : Seq(PileBytes)] /\ b.pile = l.pile /\ b.page = a
  BY <1>1 DEF Loads
<1>3. PICK c : c = [b EXCEPT !.left = m]
  OBVIOUS
<1>4. c \in [pile : {l.pile}, page : {a}, left : {m}, data : Seq(PileBytes)] /\ c.pile = l.pile /\ c.page = a /\ c.left = m
  BY <1>2, <1>3
<1>5. [c EXCEPT !.data = d] = [pile |-> c.pile, page |-> c.page, left |-> c.left, data |-> d]
  BY <1>4
<1>6. [l EXCEPT !.page = a, !.left = m, !.data = d] = [b EXCEPT !.left = m, !.data = d]
  BY <1>1
<1>7. [b EXCEPT !.left = m, !.data = d] = [c EXCEPT !.data = d]
  BY <1>3
<1>. QED BY <1>4, <1>5, <1>6, <1>7

\* The block is made to fit what is loaded.
LEMMA BlockFits ==
  ASSUME block \in [capacity : Nat, size : Nat, cycles : Nat \ {0}], NEW n \in Nat
  PROVE  /\ Pile!Reset(n) \in [capacity : Nat, size : Nat, cycles : Nat \ {0}]
         /\ Pile!Reset(n).size = n /\ n <= Pile!Reset(n).capacity
<1>1. Increment \in Nat \ {0} /\ MaxWastefulCycles \in Nat \ {0}
  BY ServicesAssumption DEF Pile!PileAssumption
<1>2. block.capacity \in Nat /\ block.cycles \in Nat \ {0}
  OBVIOUS
<1>3. CASE n > block.capacity \/ Pile!Cycles(n) = 0
  <2>. DEFINE x == n + Increment - 1
              q == x \div Increment
  <2>1. x \in Nat /\ x + 1 = n + Increment
    BY <1>1
  <2>. HIDE DEF x
  <2>2. q \in Nat /\ q * Increment \in Nat /\ x < q * Increment + Increment
    BY <1>1, <2>1
  <2>. HIDE DEF q
  <2>3. n <= q * Increment
    BY <1>1, <2>1, <2>2
  <2>4. Pile!Reset(n) = [size |-> n, cycles |-> MaxWastefulCycles, capacity |-> q * Increment]
    BY <1>3 DEF Pile!Reset, q, x
  <2>. QED BY <1>1, <2>2, <2>3, <2>4
<1>4. CASE ~(n > block.capacity) /\ Pile!Cycles(n) # 0
  <2>1. Pile!Reset(n) = [block EXCEPT !.size = n, !.cycles = Pile!Cycles(n)]
    BY <1>4 DEF Pile!Reset
  <2>2. Pile!Reset(n) = [capacity |-> block.capacity, size |-> n, cycles |-> Pile!Cycles(n)]
    BY <2>1, BlockChanged, ZenonT(30)
  <2>3. Pile!Cycles(n) \in Nat
    BY <1>2 DEF Pile!Cycles
  <2>. HIDE DEF Pile!Cycles
  <2>4. n <= block.capacity
    BY <1>2, <1>4
  <2>. QED BY <1>2, <1>4, <2>2, <2>3, <2>4
<1>. QED BY <1>3, <1>4

\* load() starts with the first chunk, which has the first bytes; of a pile that
\* nothing was appended to it reads nothing.
LEMMA LoadKept ==
  ASSUME PileInv, NEW p \in Piles, Pile!Load(p)
  PROVE  PileInv' /\ Pile!ReadBack
<1>1. PICK pos, own, pages : Chained(chunks, index, appended, pageCount, pos, own, pages)
  BY DEF PileInv
<1>. DEFINE e == index[p]
            ap == appended[p]
<1>2. EntryKnown(e, ap, p, chunks, pos, own, pages)
  BY <1>1 DEF Chained
<1>. HIDE DEF e, ap
<1>3. ap \in Seq(PileBytes) /\ e \in EntryRecords /\ Len(ap) \in Nat
  BY <1>2, LenProperties DEF EntryKnown
<1>4. /\ block \in [capacity : Nat, size : Nat, cycles : Nat \ {0}] /\ calls' \in Nat /\ calls \in Nat
      /\ UNCHANGED <<pageSize, pageCount, index, chunks, appended>>
  BY DEF PileInv, PileTyped, Pile!Load, Pile!Call
<1>5. CASE e.lastPage = 0
  <2>1. block' = Pile!Reset(0) /\ loading' = Pile!Idle /\ loaded' = [pile |-> p, page |-> 0, left |-> 0, data |-> <<>>]
    BY <1>5 DEF Pile!Load, e
  <2>2. PileTyped'
    <3>1. block' \in [capacity : Nat, size : Nat, cycles : Nat \ {0}] /\ block'.size <= block'.capacity
      BY <1>4, <2>1, BlockFits
    <3>2. loading' \in Loads
      <4>1. <<>> \in Seq(PileBytes)
        OBVIOUS
      <4>. QED BY <2>1, <4>1 DEF Pile!Idle, Pile!NoPile, Loads
    <3>. QED BY <1>4, <3>1, <3>2 DEF PileInv, PileTyped, Loads
  <2>3. PileInv'
    BY <1>1, <1>4, <2>1, <2>2 DEF PileInv
  <2>4. ap = <<>>
    BY <1>2, <1>5 DEF EntryKnown
  <2>5. loaded'.data = appended[loaded'.pile] /\ Len(loaded'.data) = 0
    BY <2>1, <2>4 DEF ap
  <2>. QED BY <2>3, <2>5 DEF Pile!ReadBack
<1>6. CASE e.lastPage # 0
  <2>1. /\ block' = Pile!Reset(e.totalPayloadSize) /\ loaded' = loaded
        /\ loading' = [pile |-> p, page |-> e.firstPage, left |-> e.totalPayloadSize, data |-> <<>>]
    BY <1>6 DEF Pile!Load, e
  <2>2. /\ e.firstPage \in DOMAIN chunks /\ own[e.firstPage] = p /\ pos[e.firstPage] = 0 /\ e.totalPayloadSize = Len(ap)
        /\ e.firstPage \in Nat
    BY <1>2, <1>3, <1>6 DEF EntryKnown, EntryRecords
  <2>3. block' \in [capacity : Nat, size : Nat, cycles : Nat \ {0}] /\ block'.size <= block'.capacity /\ block'.size = Len(ap)
    BY <1>3, <1>4, <2>1, <2>2, BlockFits
  <2>4. /\ loading'.pile = p /\ loading'.page = e.firstPage /\ loading'.left = Len(ap) /\ loading'.data = <<>>
        /\ <<>> \in Seq(PileBytes) /\ Len(<<>>) = 0 /\ loading' \in Loads
    <3>1. <<>> \in Seq(PileBytes) /\ Len(<<>>) = 0
      OBVIOUS
    <3>. QED BY <1>3, <2>1, <2>2, <3>1 DEF Loads
  <2>5. LoadKnown(loading', crossed', chunks, ap, pos, own, block'.size)
    BY <1>3, <2>2, <2>3, <2>4 DEF LoadKnown
  <2>6. PileTyped'
    BY <1>4, <2>3, <2>4 DEF PileInv, PileTyped, Loads
  <2>7. PileInv'
    BY <1>1, <1>4, <2>4, <2>5, <2>6 DEF PileInv, ap
  <2>. QED BY <2>1, <2>7 DEF Pile!ReadBack
<1>. QED BY <1>5, <1>6

\* Of a chunk what it has is read, but for bytes beyond the mapping it begins in.
LEMMA ChunkRead ==
  ASSUME NEW data \in Seq(PileBytes), NEW page, NEW damaged
  PROVE  \E r \in Seq(PileBytes) :
           /\ r = Pile!Content(page, data, damaged) /\ Len(r) = Len(data)
           /\ \A i \in 1 .. Len(data) : ReadAs(r, data, Pile!Beyond(page, data), i)
<1>. DEFINE n == Len(data)
            far == Pile!Beyond(page, data)
            r == [i \in 1 .. n |-> IF damaged /\ i \in far THEN Pile!Strange ELSE data[i]]
<1>1. n \in Nat /\ \A i \in 1 .. n : data[i] \in PileBytes
  BY LenProperties, ElementOfSeq
<1>2. Pile!Strange \in PileBytes
  BY DEF Pile!Strange, PileBytes
<1>3. r = Pile!Content(page, data, damaged)
  BY DEF Pile!Content
<1>. HIDE DEF far, n
<1>4. r \in [1 .. n -> PileBytes] /\ \A i \in 1 .. n : r[i] = data[i] \/ (i \in far /\ r[i] = Pile!Strange)
  BY <1>1, <1>2
<1>. HIDE DEF r
<1>5. r \in Seq(PileBytes) /\ Len(r) = n
  BY <1>1, <1>4
<1>. QED BY <1>3, <1>4, <1>5 DEF ReadAs, far, n

\* The next chunk is read: the last one makes the pile complete, another one says
\* where its successor is, and that the pile goes on there.
LEMMA LoadChunkKept ==
  ASSUME PileInv, Pile!LoadChunk
  PROVE  PileInv' /\ Pile!ReadBack
<1>. DEFINE c == chunks[loading.page]
            p == loading.pile
            ap == appended[loading.pile]
            far == Pile!Beyond(loading.page, chunks[loading.page].data)
<1>1. PICK pos, own, pages : /\ Chained(chunks, index, appended, pageCount, pos, own, pages)
                             /\ loading # Pile!Idle => LoadKnown(loading, crossed, chunks, appended[loading.pile], pos, own, block.size)
  BY DEF PileInv
<1>2. loading # Pile!Idle /\ UNCHANGED <<pageSize, pageCount, index, chunks, appended, block, calls>>
  BY DEF Pile!LoadChunk
<1>3. /\ p \in Piles /\ loading.page \in DOMAIN chunks /\ own[loading.page] = p
      /\ loading.data \in Seq(PileBytes) /\ Len(loading.data) = pos[loading.page]
      /\ \A i \in 1 .. Len(loading.data) : ReadAs(loading.data, ap, crossed, i)
      /\ loading.left = Len(ap) - pos[loading.page] /\ block.size = Len(ap)
  BY <1>1, <1>2 DEF LoadKnown
<1>4. ChunkKnown(loading.page, index[p], ap, chunks, pos, own) /\ EntryKnown(index[p], ap, p, chunks, pos, own, pages)
  BY <1>1, <1>3 DEF Chained
<1>5. c \in ChunkRecords /\ ap \in Seq(PileBytes) /\ Len(ap) \in Nat /\ loading \in Loads
  <2>1. c \in ChunkRecords
    BY <1>1, <1>3 DEF Chained, Headers
  <2>2. ap \in Seq(PileBytes)
    BY <1>4 DEF EntryKnown
  <2>. QED BY <2>1, <2>2, LenProperties DEF PileInv, PileTyped, Loads
<1>6. Holds(c, pos[loading.page], ap)
  BY <1>4 DEF ChunkKnown
<1>0. PICK d : /\ \E damaged \in BOOLEAN : d = loading.data \o Pile!Content(loading.page, chunks[loading.page].data, damaged)
               /\ IF loading.page = index[loading.pile].lastPage
                  THEN /\ loaded' = [loading EXCEPT !.page = 0, !.data = d,
                                                   !.left = loading.left - (chunks[loading.page].payloadSize - chunks[loading.page].rest)]
                       /\ loading' = Pile!Idle
                  ELSE /\ loading' = [loading EXCEPT !.page = chunks[loading.page].rest, !.data = d,
                                                    !.left = loading.left - chunks[loading.page].payloadSize]
                       /\ loaded' = loaded
               /\ crossed' = crossed \union {Len(loading.data) + i : i \in far}
  BY DEF Pile!LoadChunk
<1>7. IF loading.page = index[p].lastPage
      THEN /\ loaded' = [loading EXCEPT !.page = 0, !.left = loading.left - (c.payloadSize - c.rest), !.data = d]
           /\ loading' = Pile!Idle
      ELSE /\ loading' = [loading EXCEPT !.page = c.rest, !.left = loading.left - c.payloadSize, !.data = d]
           /\ loaded' = loaded
  BY <1>0
<1>. HIDE DEF c, p, ap, far
<1>8. /\ d \in Seq(PileBytes) /\ Len(d) = pos[loading.page] + Len(c.data) /\ pos[loading.page] \in Nat /\ Len(c.data) \in Nat
      /\ \A i \in 1 .. pos[loading.page] + Len(c.data) : ReadAs(d, ap, crossed', i)
  <2>. DEFINE u == loading.data
  <2>1. u \in Seq(PileBytes) /\ pos[loading.page] = Len(u) /\ \A i \in 1 .. Len(u) : ReadAs(u, ap, crossed, i)
    BY <1>3
  <2>2. PICK r \in Seq(PileBytes) : /\ d = u \o r /\ Len(r) = Len(c.data)
                                    /\ \A i \in 1 .. Len(c.data) : ReadAs(r, c.data, far, i)
    <3>1. c.data \in Seq(PileBytes)
      BY <1>5 DEF ChunkRecords
    <3>. QED BY <1>0, <3>1, ChunkRead DEF c, far
  <2>3. crossed' = crossed \union {Len(u) + i : i \in far}
    BY <1>0
  <2>4. c.data \in Seq(PileBytes) /\ Len(c.data) \in Nat
    BY <1>5, LenProperties DEF ChunkRecords
  <2>5. u \in Seq(PileBytes) /\ Holds(c, Len(u), ap) /\ \A i \in 1 .. Len(u) : ReadAs(u, ap, crossed, i)
    BY <1>6, <2>1
  <2>. HIDE DEF u
  <2>6. /\ u \o r \in Seq(PileBytes) /\ Len(u \o r) = Len(u) + Len(c.data) /\ Len(u) \in Nat
        /\ \A i \in 1 .. Len(u) + Len(c.data) : ReadAs(u \o r, ap, crossed', i)
    <3>. DEFINE o == Len(u)
    <3>1. c.data \in Seq(PileBytes) /\ Len(c.data) \in Nat /\ o \in Nat
      BY <2>4, <2>5, LenProperties
    <3>2. /\ u \o r \in Seq(PileBytes) /\ Len(u \o r) = o + Len(c.data)
          /\ \A i \in 1 .. o : (u \o r)[i] = u[i]
          /\ \A i \in 1 .. Len(c.data) : (u \o r)[o + i] = r[i]
      <4>1. /\ u \o r \in Seq(PileBytes) /\ Len(u \o r) = Len(u) + Len(r)
            /\ \A i \in 1 .. Len(u) : (u \o r)[i] = u[i]
            /\ \A i \in 1 .. Len(r) : (u \o r)[Len(u) + i] = r[i]
        BY <2>5, BytesAdded
      <4>2. Len(u) = o /\ Len(r) = Len(c.data)
        BY <2>2
      <4>. QED BY <4>1, <4>2
    <3>3. ASSUME NEW i \in 1 .. o + Len(c.data) PROVE ReadAs(u \o r, ap, crossed', i)
      <4>1. CASE i <= o
        <5>1. i \in 1 .. o
          BY <3>1, <4>1
        <5>2. u[i] = ap[i] \/ (i \in crossed /\ u[i] = Pile!Strange)
          BY <2>5, <5>1 DEF ReadAs
        <5>. QED BY <2>3, <3>2, <5>1, <5>2 DEF ReadAs
      <4>2. CASE i > o
        <5>1. PICK j \in 1 .. Len(c.data) : i = o + j
          <6>1. i - o \in 1 .. Len(c.data) /\ i = o + (i - o)
            BY <3>1, <4>2
          <6>. QED BY <6>1
        <5>2. c.data[j] = ap[o + j] /\ (u \o r)[o + j] = r[j]
          BY <2>5, <3>2, <5>1 DEF Holds
        <5>3. r[j] = c.data[j] \/ (j \in far /\ r[j] = Pile!Strange)
          BY <2>2, <5>1 DEF ReadAs
        <5>4. j \in far => i \in crossed'
          BY <2>3, <5>1
        <5>. QED BY <5>1, <5>2, <5>3, <5>4 DEF ReadAs
      <4>3. i <= o \/ i > o
        BY <3>1
      <4>. QED BY <4>1, <4>2, <4>3
    <3>. QED BY <3>1, <3>2, <3>3
  <2>. QED BY <2>1, <2>2, <2>3, <2>4, <2>6
<1>9. CASE loading.page = index[p].lastPage
  <2>1. loading' = Pile!Idle /\ loaded' = [loading EXCEPT !.page = 0, !.left = loading.left - (c.payloadSize - c.rest), !.data = d]
    BY <1>7, <1>9
  <2>2. pos[loading.page] + Len(c.data) = Len(ap)
    BY <1>4, <1>9 DEF ChunkKnown, EndsPile, c
  <2>3. Len(d) = Len(ap) /\ \A i \in 1 .. Len(ap) : d[i] = ap[i] \/ (i \in crossed' /\ d[i] = Pile!Strange)
    BY <1>8, <2>2 DEF ReadAs
  <2>4. loaded'.pile = p /\ loaded'.data = d
    <3>1. loaded' = [pile |-> loading.pile, page |-> 0, left |-> loading.left - (c.payloadSize - c.rest), data |-> d]
      BY <1>5, <2>1, LoadChanged, ZenonT(30)
    <3>. QED BY <3>1 DEF p
  <2>5. Pile!ReadBack
    BY <1>2, <2>3, <2>4 DEF Pile!ReadBack, ap, p
  <2>6. PileTyped'
    <3>1. loading' \in Loads
      <4>1. <<>> \in Seq(PileBytes)
        OBVIOUS
      <4>. QED BY <2>1, <4>1 DEF Pile!Idle, Pile!NoPile, Loads
    <3>. QED BY <1>2, <3>1 DEF PileInv, PileTyped, Loads
  <2>. QED BY <1>1, <1>2, <2>1, <2>5, <2>6 DEF PileInv
<1>10. CASE loading.page # index[p].lastPage
  <2>1. loaded' = loaded /\ loading' = [loading EXCEPT !.page = c.rest, !.left = loading.left - c.payloadSize, !.data = d]
    BY <1>7, <1>10
  <2>2. loading' = [pile |-> p, page |-> c.rest, left |-> loading.left - c.payloadSize, data |-> d]
    BY <1>5, <2>1, LoadChanged, ZenonT(30) DEF p
  <2>3. /\ Len(c.data) = c.payloadSize /\ c.rest \in DOMAIN chunks /\ own[c.rest] = p
        /\ pos[c.rest] = pos[loading.page] + c.payloadSize /\ pos[loading.page] + c.payloadSize < Len(ap)
    BY <1>3, <1>4, <1>10 DEF ChunkKnown, GoesOn, c
  <2>4. /\ loading.left - c.payloadSize = Len(ap) - pos[c.rest] /\ loading.left - c.payloadSize \in Nat
        /\ Len(d) = pos[c.rest] /\ \A i \in 1 .. Len(d) : ReadAs(d, ap, crossed', i)
    <3>. DEFINE o == pos[loading.page]
                m == c.payloadSize
                z == Len(ap)
                r == pos[c.rest]
    <3>1. o \in Nat /\ m \in Nat /\ z \in Nat /\ r = o + m /\ o + m < z /\ loading.left = z - o /\ Len(c.data) = m
      BY <1>3, <1>5, <1>8, <2>3
    <3>2. Len(d) = o + m /\ \A i \in 1 .. o + m : ReadAs(d, ap, crossed', i)
      BY <1>8, <2>3
    <3>. HIDE DEF o, m, z, r
    <3>3. (z - o) - m = z - r /\ (z - o) - m \in Nat
      BY <3>1
    <3>4. /\ loading.left - m = z - r /\ loading.left - m \in Nat
          /\ Len(d) = r /\ \A i \in 1 .. Len(d) : ReadAs(d, ap, crossed', i)
      BY <3>1, <3>2, <3>3
    <3>. QED BY <3>4 DEF m, z, r
  <2>5. /\ loading'.pile = p /\ loading'.page = c.rest /\ loading'.left = loading.left - c.payloadSize /\ loading'.data = d
        /\ loading' \in Loads
    <3>1. c.rest \in Nat
      BY <1>5 DEF ChunkRecords
    <3>. QED BY <1>3, <1>8, <2>2, <2>4, <3>1 DEF Loads
  <2>6. LoadKnown(loading', crossed', chunks, ap, pos, own, block.size)
    BY <1>3, <1>8, <2>3, <2>4, <2>5 DEF LoadKnown
  <2>7. PileTyped'
    BY <1>2, <2>5 DEF PileInv, PileTyped, Loads
  <2>8. appended'[loading'.pile] = ap
    BY <1>2, <2>5 DEF ap, p
  <2>9. PileInv'
    BY <1>1, <1>2, <2>6, <2>7, <2>8 DEF PileInv
  <2>. QED BY <2>1, <2>9 DEF Pile!ReadBack
<1>. QED BY <1>9, <1>10

\* Every step of a pile file keeps the invariant, and what is read is what was
\* appended, but for bytes beyond a mapping.
LEMMA PileSteps ==
  ASSUME PileInv, Pile!Next
  PROVE  PileInv' /\ Pile!ReadBack
<1>1. ASSUME NEW p \in Piles, \/ \E n \in Preallocations : Pile!Preallocate(p, n)
                              \/ \E len \in PileLengths : Pile!AppendFirst(p, len) \/ Pile!AppendMore(p, len)
      PROVE  PileInv' /\ Pile!ReadBack
  <2>1. PileTyped' /\ ChunksKnown'
    BY <1>1, PreallocateKept, AppendFirstKept, AppendMoreKept
  <2>2. loading' = Pile!Idle /\ loaded' = loaded
    BY <1>1, ZenonT(30) DEF Pile!Preallocate, Pile!AppendFirst, Pile!AppendMore, Pile!Call
  <2>3. PileInv'
    BY <2>1, <2>2 DEF PileInv, ChunksKnown
  <2>. QED BY <2>2, <2>3 DEF Pile!ReadBack
<1>2. ASSUME NEW p \in Piles, Pile!Load(p) PROVE PileInv' /\ Pile!ReadBack
  BY <1>2, LoadKept
<1>3. CASE Pile!LoadChunk
  BY <1>3, LoadChunkKept
<1>4. CASE Pile!OpenExisting
  <2>1. /\ pageSize' = PageShift /\ calls' \in Nat
        /\ UNCHANGED <<pageCount, index, chunks, appended, block, loading, loaded, crossed>>
    BY <1>4 DEF Pile!OpenExisting, Pile!Call, PileInv, PileTyped
  <2>2. PileTyped'
    BY <2>1 DEF PileInv, PileTyped
  <2>. QED BY <2>1, <2>2 DEF PileInv, Pile!ReadBack
<1>. QED BY <1>1, <1>2, <1>3, <1>4 DEF Pile!Next

\* The invariant stays when nothing of the pile file changes.
LEMMA PileUnchanged ==
  ASSUME PileInv, UNCHANGED <<pilesVars, calls, index>>
  PROVE  PileInv'
<1>1. UNCHANGED <<pageSize, pageCount, index, chunks, appended, block, loading, loaded, crossed, calls>>
  BY DEF pilesVars
<1>2. PileTyped'
  BY <1>1 DEF PileInv, PileTyped
<1>. QED BY <1>1, <1>2 DEF PileInv

\* What the invariant says of reading and of pages.
LEMMA PileImplied ==
  ASSUME PileInv
  PROVE  Pile!ReadFits /\ Pile!ChunksDisjoint
<1>1. PICK pos, own, pages : /\ Chained(chunks, index, appended, pageCount, pos, own, pages)
                             /\ loading # Pile!Idle => LoadKnown(loading, crossed, chunks, appended[loading.pile], pos, own, block.size)
  BY DEF PileInv
<1>2. /\ Places(pageCount, pos, own, pages) /\ Headers(chunks, pages)
      /\ \A p \in Piles : EntryKnown(index[p], appended[p], p, chunks, pos, own, pages)
      /\ \A a \in DOMAIN chunks : ChunkKnown(a, index[own[a]], appended[own[a]], chunks, pos, own)
  BY <1>1 DEF Chained
<1>3. /\ \A a \in DOMAIN pages : /\ a \in Nat \ {0} /\ own[a] \in Piles /\ pos[a] \in Nat
                                 /\ pages[a] \in Nat \ {0} /\ a + pages[a] <= pageCount
      /\ \A a, b \in DOMAIN pages : a < b => a + pages[a] <= b
  BY <1>2 DEF Places
<1>4. /\ DOMAIN chunks \subseteq DOMAIN pages
      /\ \A a \in DOMAIN chunks : chunks[a] \in ChunkRecords /\ chunks[a].payloadSize = Payload(pages[a])
  BY <1>2 DEF Headers
<1>5. ASSUME loading # Pile!Idle
      PROVE  /\ IF loading.page = index[loading.pile].lastPage
                THEN loading.left = chunks[loading.page].payloadSize - chunks[loading.page].rest
                ELSE loading.left > chunks[loading.page].payloadSize
             /\ Len(loading.data) + loading.left = block.size /\ block.size <= block.capacity
  <2>. DEFINE c == chunks[loading.page]
              e == index[loading.pile]
              ap == appended[loading.pile]
              o == pos[loading.page]
              z == Len(ap)
              m == Len(c.data)
  <2>1. /\ loading.pile \in Piles /\ loading.page \in DOMAIN chunks /\ own[loading.page] = loading.pile
        /\ Len(loading.data) = o /\ loading.left = z - o /\ block.size = z
    BY <1>1, <1>5 DEF LoadKnown
  <2>2. ChunkKnown(loading.page, e, ap, chunks, pos, own) /\ ap \in Seq(PileBytes) /\ c \in ChunkRecords /\ o \in Nat
    BY <1>2, <1>3, <1>4, <2>1 DEF EntryKnown
  <2>3. z \in Nat /\ m \in Nat /\ c.rest \in Nat /\ c.payloadSize \in Nat
    BY <2>2, LenProperties DEF ChunkRecords
  <2>4. block.size <= block.capacity
    BY DEF PileInv, PileTyped
  <2>5. CASE loading.page = e.lastPage
    <3>1. o + m = z /\ m + c.rest = c.payloadSize
      BY <2>2, <2>5 DEF ChunkKnown, EndsPile
    <3>. HIDE DEF c, e, ap, o, z, m
    <3>2. z - o = c.payloadSize - c.rest /\ o + (z - o) = z
      BY <2>2, <2>3, <3>1
    <3>. QED BY <2>1, <2>4, <2>5, <3>2 DEF e, c
  <2>6. CASE loading.page # e.lastPage
    <3>1. o + c.payloadSize < z
      BY <2>2, <2>6 DEF ChunkKnown, GoesOn
    <3>. HIDE DEF c, e, ap, o, z, m
    <3>2. z - o > c.payloadSize /\ o + (z - o) = z
      BY <2>2, <2>3, <3>1
    <3>. QED BY <2>1, <2>4, <2>6, <3>2 DEF e, c
  <2>. QED BY <2>5, <2>6
<1>6. Pile!ReadFits
  BY <1>5 DEF Pile!ReadFits
<1>7. ASSUME NEW a \in DOMAIN chunks PROVE Pile!PagesOf(chunks[a]) = pages[a]
  <2>1. pages[a] \in Nat \ {0} /\ chunks[a].payloadSize = Payload(pages[a])
    BY <1>3, <1>4
  <2>2. (Payload(pages[a]) + HeaderSize) \div Pile!PageSize = pages[a]
    BY <2>1, PayloadOfPages
  <2>. QED BY <2>1, <2>2 DEF Pile!PagesOf
<1>8. ASSUME NEW a \in DOMAIN chunks, NEW b \in DOMAIN chunks, a # b
      PROVE  Pile!Run(a, Pile!PagesOf(chunks[a])) \intersect Pile!Run(b, Pile!PagesOf(chunks[b])) = {}
  <2>1. a \in DOMAIN pages /\ b \in DOMAIN pages
    BY <1>4
  <2>2. /\ a \in Nat /\ b \in Nat /\ pages[a] \in Nat /\ pages[b] \in Nat
        /\ (a < b => a + pages[a] <= b) /\ (b < a => b + pages[b] <= a)
    BY <1>3, <2>1
  <2>3. \A i : ~(i \in a .. a + pages[a] - 1 /\ i \in b .. b + pages[b] - 1)
    BY <1>8, <2>2
  <2>. QED BY <1>7, <2>3 DEF Pile!Run
<1>9. ASSUME NEW a \in DOMAIN chunks PROVE Pile!Run(a, Pile!PagesOf(chunks[a])) \subseteq 1 .. pageCount - 1
  <2>1. a \in Nat \ {0} /\ pages[a] \in Nat \ {0} /\ a + pages[a] <= pageCount /\ pageCount \in Nat
    BY <1>3, <1>4 DEF PileInv, PileTyped
  <2>2. \A i : i \in a .. a + pages[a] - 1 => i \in 1 .. pageCount - 1
    BY <2>1
  <2>. QED BY <1>7, <2>2 DEF Pile!Run
<1>10. ASSUME NEW a \in DOMAIN chunks PROVE Len(chunks[a].data) <= chunks[a].payloadSize
  <2>1. ChunkKnown(a, index[own[a]], appended[own[a]], chunks, pos, own) /\ chunks[a] \in ChunkRecords
    BY <1>2, <1>4
  <2>2. chunks[a].rest \in Nat /\ chunks[a].payloadSize \in Nat /\ Len(chunks[a].data) \in Nat
    BY <2>1, LenProperties DEF ChunkRecords
  <2>3. Len(chunks[a].data) + chunks[a].rest = chunks[a].payloadSize \/ Len(chunks[a].data) = chunks[a].payloadSize
    BY <2>1 DEF ChunkKnown, EndsPile, GoesOn
  <2>. QED BY <2>2, <2>3
<1>11. ASSUME NEW p \in Pile!Reserved
       PROVE  Pile!Run(index[p].firstPage, (index[p].totalPayloadSize + HeaderSize) \div Pile!PageSize) \intersect DOMAIN chunks = {}
  <2>. DEFINE a == index[p].firstPage
  <2>1. p \in Piles /\ a # 0 /\ index[p].lastPage = 0
    BY DEF Pile!Reserved
  <2>2. a \in DOMAIN pages /\ a \notin DOMAIN chunks /\ index[p].totalPayloadSize = Payload(pages[a])
    BY <1>2, <2>1 DEF EntryKnown
  <2>3. a \in Nat /\ pages[a] \in Nat \ {0}
    BY <1>3, <2>2
  <2>4. (index[p].totalPayloadSize + HeaderSize) \div Pile!PageSize = pages[a]
    BY <2>2, <2>3, PayloadOfPages
  <2>. HIDE DEF a
  <2>5. ASSUME NEW b \in DOMAIN chunks PROVE b \notin a .. a + pages[a] - 1
    <3>1. b \in Nat /\ b # a /\ b \in DOMAIN pages
      BY <1>3, <1>4, <2>2
    <3>2. a < b => a + pages[a] <= b
      BY <1>3, <2>2, <3>1
    <3>. QED BY <2>3, <3>1, <3>2
  <2>6. Pile!Run(a, pages[a]) \intersect DOMAIN chunks = {}
    BY <2>5 DEF Pile!Run
  <2>. QED BY <2>4, <2>6 DEF a
<1>12. Pile!ChunksDisjoint
  BY <1>8, <1>9, <1>10, <1>11 DEF Pile!ChunksDisjoint, Pile!IndexPages
<1>. QED BY <1>6, <1>12

\* For any number of piles, lengths and sizes of pages: what is read of a pile
\* agrees with its chunks and fits into the block, and chunks have pages of their
\* own (PileFile.cpp, ReusableBlock.h).
THEOREM PileAlwaysRight == Spec => []PileRight
<1>. DEFINE Inv == subject = "piles" => PileInv
<1>1. Init => Inv
  BY PileStarts DEF Init
<1>2. Inv /\ [Next]_vars => Inv'
  <2>. SUFFICES ASSUME Inv, [Next]_vars, subject' = "piles" PROVE PileInv'
    OBVIOUS
  <2>1. CASE PileStep
    BY <2>1, PileSteps DEF PileStep
  <2>2. CASE UNCHANGED vars
    <3>1. subject = "piles" /\ UNCHANGED <<pilesVars, calls, index>>
      BY <2>2 DEF vars
    <3>. QED BY <3>1, PileUnchanged
  <2>3. CASE HandlesStep \/ ConsoleStep \/ MappedStep \/ RegistryStep \/ BufferStep \/ MemoryStep \/ CellsStep
    BY <2>3 DEF HandlesStep, ConsoleStep, MappedStep, RegistryStep, BufferStep, MemoryStep, CellsStep
  <2>. QED BY <2>1, <2>2, <2>3 DEF Next
<1>3. Inv => PileRight
  BY PileImplied DEF PileRight
<1>. QED BY <1>1, <1>2, <1>3, PTL DEF Spec

-----------------------------------------------------------------------------
(* What a step may not do *)

\* No step of a thread moves the percentage back, but for one that starts the
\* progress, none replaces a published index, and a pile that has been read is
\* what was appended, all of it and in order, each byte but those of a chunk that
\* lie beyond the mapping it begins in (Console.cpp, lines 122-166;
\* ReverseTileIndex.cpp; PileFile.cpp, lines 102-206).
THEOREM StepsAlwaysRight == Spec => StepsRight
<1>. DEFINE Inv == /\ subject = "console"  => ConsoleInv
                   /\ subject = "piles"    => PileInv
                   /\ subject = "registry" => RegistryInv
            Kept == /\ subject = "console"  => Console!Forward
                    /\ subject = "piles"    => Pile!ReadBack
                    /\ subject = "registry" => Registry!IndexKept
<1>1. Init => Inv
  BY ConsoleStarts, PileStarts, RegistryStarts DEF Init
<1>2. Inv /\ [Next]_vars => Inv' /\ [Kept]_vars
  <2>. SUFFICES ASSUME Inv, [Next]_vars PROVE Inv' /\ [Kept]_vars
    OBVIOUS
  <2>1. CASE ConsoleStep
    BY <2>1, ConsoleSteps DEF ConsoleStep
  <2>2. CASE RegistryStep
    BY <2>2, RegistrySteps DEF RegistryStep
  <2>3. CASE PileStep
    BY <2>3, PileSteps DEF PileStep
  <2>4. CASE UNCHANGED vars
    <3>1. /\ subject' = subject /\ UNCHANGED <<consoleVars, doing>> /\ UNCHANGED <<registryVars, index>>
          /\ UNCHANGED <<pilesVars, calls, index>>
      BY <2>4 DEF vars
    <3>2. subject = "console" => ConsoleInv'
      BY <3>1, ConsoleUnchanged
    <3>3. subject = "registry" => RegistryInv'
      BY <3>1, RegistryUnchanged
    <3>4. subject = "piles" => PileInv'
      BY <3>1, PileUnchanged
    <3>. QED BY <2>4, <3>1, <3>2, <3>3, <3>4
  <2>5. CASE HandlesStep \/ MappedStep \/ BufferStep \/ MemoryStep \/ CellsStep
    BY <2>5 DEF HandlesStep, MappedStep, BufferStep, MemoryStep, CellsStep
  <2>. QED BY <2>1, <2>2, <2>3, <2>4, <2>5 DEF Next
<1>. HIDE DEF Inv, Kept
<1>3. Spec => [][Kept]_vars
  BY <1>1, <1>2, PTL DEF Spec
<1>. QED BY <1>3 DEF StepsRight, Kept
=============================================================================
