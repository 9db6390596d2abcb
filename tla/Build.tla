-------------------------------- MODULE Build --------------------------------
(***************************************************************************)
(* Building from source (addons/build, addons/golang, addons/nodejs): the  *)
(* order strategies are tried in, the detection of a repository's builder, *)
(* and what the builders make of the directories they are given.           *)
(*                                                                         *)
(* A repository is a record: the names of the files at its root, the       *)
(* workspaces of its package files, the folders of its rush projects, and  *)
(* the directories there are.  A file that cannot be read as what it is    *)
(* for is in "broken".  The tools themselves are external.                 *)
(***************************************************************************)
EXTENDS Sequences, FiniteSets, SequencesExt

CONSTANT Alphabetical   \* the names of strategies there are, in the order of the alphabet

\* A strategy by its name and what it supersedes (WithStrategy).
Strategy(name, supersedes) == [name |-> name, supersedes |-> supersedes]
Names(strategies) == {s.name : s \in strategies}

SupersededBy(strategies, n) == {s.name : s \in {t \in strategies : n \in t.supersedes}}

(***************************************************************************)
(* resolveStrategyOrder: a search in depth from every name, along those it *)
(* is superseded by.  Its state is what it has seen, the order so far, and *)
(* whether it went round a circle, which ends it.                          *)
(***************************************************************************)
\* slices.Sorted.
Sorted(names) == SelectSeq(Alphabetical, LAMBDA n : n \in names)

Search(names) == [seen : SUBSET names, order : Seq(names), cycle : BOOLEAN]
NotBegun == [seen |-> {}, order |-> <<>>, cycle |-> FALSE]

\* What a visit of a name makes of the search so far; the path is how it was come to.
Visit(strategies) ==
  LET names == Names(strategies)
      visit[n \in names, path \in SUBSET names, so \in Search(names)] ==
        CASE so.cycle      -> so
          [] n \in path    -> [so EXCEPT !.cycle = TRUE]
          [] n \in so.seen -> so
          [] OTHER ->
               LET below == FoldLeft(LAMBDA then, s : visit[s, path \cup {n}, then],
                                     [so EXCEPT !.seen = @ \cup {n}],
                                     Sorted(SupersededBy(strategies, n)))
               IN  IF below.cycle THEN below ELSE [below EXCEPT !.order = Append(@, n)]
  IN  visit
VisitAll(strategies) ==
  FoldLeft(LAMBDA so, n : Visit(strategies)[n, {}, so], NotBegun, Sorted(Names(strategies)))

\* Mutant of Resolve: the names in the order of the alphabet, as long as there is one.
ResolveByName(strategies) ==
  [VisitAll(strategies) EXCEPT !.order = Sorted(Names(strategies))]

Resolve(strategies) == VisitAll(strategies)

\* What it is to find: a strategy comes after all that supersede it, unless strategies
\* supersede one another in a circle.
Circle(strategies) ==
  \E c \in SUBSET Names(strategies) :
    c # {} /\ \A n \in c : SupersededBy(strategies, n) \cap c # {}
InOrder(order, strategies) ==
  /\ order \in Seq(Names(strategies)) /\ IsInjective(order)
  /\ Names(strategies) \subseteq ToSet(order)
  /\ \A i, j \in DOMAIN order :
       order[i] \in SupersededBy(strategies, order[j]) => i < j

(***************************************************************************)
(* Detection.  A detector gives a builder, none, or an error.              *)
(***************************************************************************)
Builder(tool, repo) == [tool |-> tool, repo |-> repo]
NoBuilder == [tool |-> "none"]
Error     == [tool |-> "error"]

\* The workspaces npm or pnpm knows of: with a lock file of pnpm they are those of pnpm's
\* own file, which is read as JSON, and not the package file's.
Workspaces(tool, repo) ==
  CASE tool = "npm"                          -> repo.workspaces
    [] "pnpm-workspace.yaml" \in repo.files  -> repo.packages
    [] OTHER                                 -> {}

\* expandWorkspaces: a pattern nothing matches is an error.
Expands(patterns) == "unmatched" \notin patterns

detectGoBuild(repo) == IF "go.mod" \in repo.files THEN Builder("go", repo) ELSE NoBuilder
detectMage(repo) ==
  IF repo.files \cap {"magefile.go", "magefiles"} # {} THEN Builder("mage", repo) ELSE NoBuilder

detectNPM(repo) ==
  CASE "package.json" \notin repo.files                       -> NoBuilder
    [] "package.json" \in repo.broken                         -> Error
    [] ~Expands(repo.workspaces)                              -> Error
    [] "pnpm-lock.yaml" \notin repo.files                     -> Builder("npm", repo)
    [] repo.workspaces # {}                                   -> Error
    [] "pnpm-workspace.yaml" \notin repo.files                -> Builder("pnpm", repo)
    [] "pnpm-workspace.yaml" \in repo.broken                  -> Error
    [] ~Expands(repo.packages)                                -> Error
    [] OTHER                                                  -> Builder("pnpm", repo)

detectRush(repo) ==
  CASE "rush.json" \notin repo.files -> NoBuilder
    [] "rush.json" \in repo.broken   -> Error
    [] OTHER                         -> Builder("rush", repo)

\* The detector of a strategy (the ones of a test detect a file of their name).
Detector(name, repo) ==
  CASE name = "go-build" -> detectGoBuild(repo)
    [] name = "mage"     -> detectMage(repo)
    [] name = "npm"      -> detectNPM(repo)
    [] name = "rush"     -> detectRush(repo)
    [] OTHER             -> NoBuilder

\* Mutant of DetectStrategy: from the last strategy on.
DetectBackwards(order, repo) ==
  LET found == {i \in DOMAIN order : Detector(order[i], repo) # NoBuilder} IN
  IF found = {} THEN NoBuilder ELSE Detector(order[Max(found)], repo)

\* The first strategy in order that does not say no decides.
DetectStrategy(order, repo) ==
  LET found == {i \in DOMAIN order : Detector(order[i], repo) # NoBuilder} IN
  IF found = {} THEN NoBuilder ELSE Detector(order[Min(found)], repo)

TryStrategy(strategies, name, repo) ==
  IF name \in Names(strategies) THEN Detector(name, repo) ELSE Error

(***************************************************************************)
(* Building: the directories built if the tool has nothing to object, or   *)
(* Refused.  A directory that is built takes what is below it along where  *)
(* it is "." only: the others are of one level.                            *)
(***************************************************************************)
Refused == {"refused"}
All(repo) == repo.dirs
Below(ds, repo) == IF "." \in ds THEN repo.dirs ELSE ds

BuildAll(b) == All(b.repo)

\* go build refuses a directory that is not there.
goBuildDirs(b, ds) ==
  CASE ds = {} -> BuildAll(b)
    [] ds \subseteq b.repo.dirs \cup {"."} -> Below(ds, b.repo)
    [] OTHER -> Refused

\* Each directory is a filter of its own, and what any of them matches is built: npm
\* refuses if there is no match at all, and takes "." for the workspaces in it; pnpm is
\* content with none.
npmBuildDirs(b, ds) ==
  LET asked   == ds \cup (IF b.tool = "npm" THEN Below(ds, b.repo) ELSE {})
      matched == asked \cap Workspaces(b.tool, b.repo) IN
  CASE ds = {}                        -> BuildAll(b)
    [] b.tool = "npm" /\ matched = {} -> Refused
    [] OTHER                          -> matched

rushBuildDirs(b, ds) ==
  CASE ds = {} -> BuildAll(b)
    [] ds \subseteq b.repo.projects -> ds
    [] OTHER -> Refused

BuildDirs(b, ds) ==
  CASE b.tool = "go"            -> goBuildDirs(b, ds)
    [] b.tool = "mage"          -> BuildAll(b)
    [] b.tool \in {"npm", "pnpm"} -> npmBuildDirs(b, ds)
    [] OTHER                    -> rushBuildDirs(b, ds)

\* build.Services looks for the root itself; the hook of a start never finds it, for it
\* looks for "" where Clean has left ".".
ServicesBuild(b, ds) == IF ds = {} \/ "." \in ds THEN BuildAll(b) ELSE BuildDirs(b, ds)
HookBuild(b, ds)     == IF "" \in ds THEN BuildAll(b) ELSE BuildDirs(b, ds)
=============================================================================
