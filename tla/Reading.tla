-------------------------------- MODULE Reading --------------------------------
(***************************************************************************)
(* What a thread reads in a library: the GOQL compiler and its matchers,   *)
(* the walk through the tiles, and the tables of related features.  Each   *)
(* behaviour is one of a single part, the subject, as in Structures.       *)
(***************************************************************************)
EXTENDS Naturals, Sequences, FiniteSets

CONSTANTS Subjects     \* "goql", "tiles", "members"

CONSTANTS
  MaxCommonKey, CodeNo, CodeOf(_), Queries, Filters, SomeKeys, StringCount, Hash,
  TaggedFeatures(_), NumberIn, NotANumber,
  Bits, Levels, Trees, TileFeatures, Requests, NoBox, Losses,
  NoFeature, Fetching, NoRoles, MemberFeatures, Kind, TileOf, Address, Tex, Place,
  Areas, Placeholders, TableOf, Rings, Jobs

VARIABLES
  subject,
  also, graph, sels, holder, node, words, deferred, jumps, code,
  store, missing, box, levels, level, tile, tip, northwest, turbo, accepted, results, lookup,
  job, tables, stack, seen, cursor, ahead, ways, stage, current, out, where,
  pc, query     \* of more than one part

Compiler == INSTANCE Goql WITH Features <- TaggedFeatures
Tiles    == INSTANCE TileQuery WITH Features <- TileFeatures
Related  == INSTANCE Members WITH Features <- MemberFeatures

ASSUME ReadingAssumption ==
  Compiler!MaxCommonKeyAssumption /\ Tiles!BitsAssumption /\ Tiles!TileQueryAssumption

goqlVars    == <<also, graph, sels, holder, node, words, deferred, jumps, code>>
tilesVars   == <<store, missing, box, levels, level, tile, tip, northwest, turbo, accepted, results, lookup>>
membersVars == <<job, tables, stack, seen, cursor, ahead, ways, stage, current, out, where>>
vars == <<subject, goqlVars, tilesVars, membersVars, pc, query>>

NoQuery   == /\ also = 0 /\ graph = 0 /\ sels = 0 /\ holder = 0 /\ node = 0 /\ words = 0
             /\ deferred = 0 /\ jumps = 0 /\ code = 0
NoTiles   == /\ store = 0 /\ missing = 0 /\ box = 0 /\ levels = 0 /\ level = 0 /\ tile = 0 /\ tip = 0
             /\ northwest = 0 /\ turbo = 0 /\ accepted = 0 /\ results = 0 /\ lookup = 0
NoMembers == /\ job = 0 /\ tables = 0 /\ stack = 0 /\ seen = 0 /\ cursor = 0 /\ ahead = 0
             /\ ways = 0 /\ stage = 0 /\ current = 0 /\ out = 0 /\ where = 0

Init ==
  /\ subject \in Subjects
  /\ IF subject = "goql"    THEN Compiler!Init ELSE NoQuery
  /\ IF subject = "tiles"   THEN Tiles!Init    ELSE NoTiles
  /\ IF subject = "members" THEN Related!Init  ELSE NoMembers
  /\ IF subject = "members" THEN pc = 0 /\ query = 0 ELSE TRUE

CompilerStep ==
  subject = "goql" /\ Compiler!Next /\ UNCHANGED <<subject, tilesVars, membersVars>>
TilesStep ==
  subject = "tiles" /\ Tiles!Next /\ UNCHANGED <<subject, goqlVars, membersVars>>
RelatedStep ==
  subject = "members" /\ Related!Next /\ UNCHANGED <<subject, goqlVars, tilesVars, pc, query>>

Next == CompilerStep \/ TilesStep \/ RelatedStep

Spec == Init /\ [][Next]_vars

-----------------------------------------------------------------------------
(* What is checked of each part: its properties, stated in its own module. *)


\* The compiled code fits its memory, and its jumps lead to instructions
\* (MatcherEmitter.cpp).
CodeSound ==
  subject = "goql" => Compiler!TypeOK /\ Compiler!InstructionsFit /\ Compiler!JumpsLand

\* A query finds each feature once, in whichever tiles it lies and whichever
\* filter passes over some; the tip of the tile is right, and so is what
\* FeatureFinder gives; the boxes and tiles it reckons with mean what they
\* should (TileIndexWalker.cpp, TileQueryTask.cpp, Box.h, TilePair.h).
TilesFound ==
  subject = "tiles" => /\ Tiles!TypeOK /\ Tiles!FoundOnce /\ Tiles!TipIsOfTile /\ Tiles!Finder
                       /\ Tiles!BoxesCover /\ Tiles!TwinsAgree

\* Members, the nodes of ways, and parents are those that the tables list, and
\* a walk takes each relation once (RelatedIterator.h, FeatureIteratorBase.cpp).
RelatedExact ==
  subject = "members" => /\ Related!ListedExactly /\ Related!NodesInOrder
                         /\ Related!ParentsExact /\ Related!WalkedOnce

\* This does not hold: see the README, section 6.  [k] takes a feature whose k is
\* present and not "no".
AllMatched == subject = "goql" => Compiler!AllMatchAsDefined

\* Nor does this: a feature's role is empty unless "it was returned via members()
\* or Features::membersOf()" (Feature.h, 77-78).
RolesOfMembers == subject = "members" => Related!RolesOfMembers
================================================================================
