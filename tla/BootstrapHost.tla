----------------------------- MODULE BootstrapHost -----------------------------
(***************************************************************************)
(* What a bootstrap does to the machine: runs and dry runs of a plan, in   *)
(* the order BootstrapPlan shows it has, with the steps of the apt addon   *)
(* (sources, update, selection and installation of packages), those that   *)
(* run other commands, edit a file (TextEdit) or ask the user.  A run may  *)
(* be killed or fail in the middle of a step, and is then run again; the   *)
(* context of a run is gone with it, the machine stays.                    *)
(***************************************************************************)
EXTENDS TextEdit

CONSTANTS
  Plans,   \* by name, the steps of a plan, default steps included, as they were added
  Offers,  \* by apt source, the packages it offers
  KeyOf,   \* by apt source, the file of its signing key
  Needs,   \* by apt source, what apt needs to read it: private ones need a login
  Editors, \* by name, the editors of the steps that edit
  Checked, \* the prompts whose answers are validated
  Setups,  \* the machines and the plans
  Distros, \* what the distribution may come to offer
  MaxRuns  \* the number of runs

\* What a step of a plan is.
Selecting == {"packages", "if available", "first available"}
Kinds == Selecting \cup
  {"remove", "source", "update", "install", "deb", "make", "join", "edit", "ask"}
AnyStep ==
  [name : STRING, kind : Kinds, args : Seq(STRING), needs : SUBSET STRING,
   after : SUBSET STRING, before : SUBSET STRING, skip : SUBSET STRING]

ASSUME EditorsAssumption == \A n \in DOMAIN Editors : IsEditor(Editors[n])
ASSUME FilesAssumption == \A s \in Setups : s.file \in Seq(Lines)

Sources == DOMAIN Offers
Prompts == {"user name", "user email", "github user"}
ArgsOf(step) == {step.args[k] : k \in DOMAIN step.args}

ASSUME StepsAssumption ==
  /\ \A s \in Setups : s.plan \in DOMAIN Plans
  /\ \A n \in DOMAIN Plans : Plans[n] \in Seq(AnyStep)
  /\ \A n \in DOMAIN Plans : \A i \in DOMAIN Plans[n] :
       LET step == Plans[n][i] IN
       /\ step.kind = "source" => ArgsOf(step) \subseteq Sources
       /\ step.kind = "ask"    => ArgsOf(step) \subseteq Prompts

VARIABLES
  packages, \* the packages installed
  distro,   \* what the distribution offers at present
  known,    \* the packages apt knows since the last update
  lists,    \* by source, whether its file is there, whole or in part
  keys,     \* the signing keys there are
  made,     \* what else commands have left: logins, groups, tools
  conf,     \* by prompt, the value in git's configuration
  proc,     \* the bootstrap under way
  plan,     \* the name of its plan
  env,      \* why steps are skipped
  todo,     \* the steps still to be run, by their places in the plan
  queued,   \* the pending packages, and those to be removed
  dirty,    \* the sources were changed since the last update, if there was one
  reboot,   \* the user will be told to reboot
  info,     \* by prompt, the value in the context
  begun,    \* (history) packages, made and file when the run began
  settled,  \* (history) nothing has happened since a run was completed
  runs      \* (history) how many runs there were

machine == <<packages, distro, known, lists, keys, made, conf>>
context == <<queued, dirty, reboot, info>>
rest    == <<plan, env, begun, runs>>
vars    == <<machine, proc, todo, context, rest, settled, edit>>

Init ==
  /\ \E s \in Setups :
       /\ plan = s.plan /\ env = s.env /\ file = s.file
       /\ packages = s.packages /\ known = s.known /\ distro = s.distro /\ conf = s.conf
       /\ begun = [packages |-> s.packages, made |-> {}, file |-> s.file]
  /\ lists = [s \in Sources |-> "none"] /\ keys = {} /\ made = {}
  /\ proc = "off" /\ todo = {} /\ queued = {} /\ dirty = "unset" /\ reboot = FALSE
  /\ info = [p \in Prompts |-> "none"] /\ settled = FALSE /\ runs = 0
  /\ flushed = TRUE /\ editor = [how |-> "none"] /\ src = <<>> /\ read = 0 /\ state = 0
  /\ out = <<>> /\ synced = FALSE /\ phase = "idle"

-----------------------------------------------------------------------------
(***************************************************************************)
(* The order of the steps.                                                 *)
(***************************************************************************)

\* Mutant of Waits: who else is to come first is not asked.
WaitsAfter(steps, pending, i) == \E j \in pending : steps[j].name \in steps[i].after

Precedes(steps, j, i) == steps[j].name \in steps[i].after \/ steps[i].name \in steps[j].before
Waits(steps, pending, i) == \E j \in pending : Precedes(steps, j, i)

Turns(steps, pending) == {i \in pending : ~Waits(steps, pending, i)}

\* Only a plan that can be ordered is run (BootstrapPlan says which cannot).
ASSUME PlansAssumption ==
  \A n \in DOMAIN Plans : \A some \in SUBSET DOMAIN Plans[n] :
    some # {} => Turns(Plans[n], some) # {}

\* Again and again it is the turn of the first step that has not to wait for another.
Turn == First(Turns(Plans[plan], todo))
Step == Plans[plan][Turn]
Args == ArgsOf(Step)

Skipped == Step.skip \cap env # {}

\* A step of one of the kinds has its turn.
AtStep == proc \in {"run", "sim"} /\ phase = "idle" /\ todo # {}
At(modes, kinds) == AtStep /\ proc \in modes /\ ~Skipped /\ Step.kind \in kinds
Pass == todo' = todo \ {Turn} /\ UNCHANGED <<proc, rest, settled>>

Begin(mode) ==
  /\ proc \in {"off", "panicked"} /\ runs < MaxRuns
  /\ proc' = mode /\ todo' = DOMAIN Plans[plan] /\ runs' = runs + 1
  /\ queued' = {} /\ dirty' = "unset" /\ reboot' = FALSE
  /\ info' = [p \in Prompts |-> "none"]
  /\ begun' = [packages |-> packages, made |-> made, file |-> file]
  /\ UNCHANGED <<machine, plan, env, settled, edit>>

Skip ==
  /\ AtStep /\ Skipped
  /\ Pass /\ UNCHANGED <<machine, context, edit>>

\* Steps that only print in a dry run.
Mention ==
  /\ At({"sim"}, {"update", "remove", "deb", "edit"})
  /\ Pass /\ UNCHANGED <<machine, context, edit>>

Complete ==
  /\ proc \in {"run", "sim"} /\ phase = "idle" /\ todo = {}
  /\ proc' = "off" /\ settled' = (settled \/ proc = "run")
  /\ UNCHANGED <<machine, context, todo, rest, edit>>

-----------------------------------------------------------------------------
(***************************************************************************)
(* apt: selecting packages, installing sources, update and install.        *)
(***************************************************************************)

\* The first of the step's packages that apt knows.
FirstKnown(step) ==
  {step.args[k] : k \in {k \in DOMAIN step.args :
     /\ step.args[k] \in known
     /\ \A j \in 1 .. k - 1 : step.args[j] \notin known}}

\* What the step adds to the pending packages.
Selected ==
  CASE Step.kind = "packages" -> {<<"+", p>> : p \in Args}
    [] Step.kind = "if available" -> {<<"+", p>> : p \in Args \cap known}
    [] Step.kind = "first available" -> {<<"+", p>> : p \in FirstKnown(Step)}
    [] Step.kind = "remove" -> {<<"-", p>> : p \in Args \cap (known \cup packages)}

Select ==
  /\ \/ At({"run", "sim"}, {"packages", "if available"})
     \/ At({"run", "sim"}, {"first available"}) /\ Selected # {}
     \/ At({"run"}, {"remove"})
  /\ queued' = queued \cup Selected
  /\ Pass /\ UNCHANGED <<machine, dirty, reboot, info, edit>>

\* Mutant of SourceStep: the sources are dirty only when the first run changes them.
SourceQuietly ==
  /\ At({"run", "sim"}, {"source"})
  /\ IF proc = "run"
     THEN /\ lists' = [s \in Sources |-> IF s \in Args THEN "whole" ELSE lists[s]]
          /\ keys' = keys \cup {KeyOf[s] : s \in Args}
     ELSE UNCHANGED <<lists, keys>>
  /\ Pass /\ UNCHANGED <<packages, distro, known, made, conf, queued, dirty, reboot, info, edit>>

\* The source and its key are written unless they are there; the sources count as
\* changed all the same, and in a dry run too.
SourceStep ==
  /\ At({"run", "sim"}, {"source"})
  /\ IF proc = "run"
     THEN /\ lists' = [s \in Sources |-> IF s \in Args THEN "whole" ELSE lists[s]]
          /\ keys' = keys \cup {KeyOf[s] : s \in Args}
     ELSE UNCHANGED <<lists, keys>>
  /\ dirty' = "yes"
  /\ Pass /\ UNCHANGED <<packages, distro, known, made, conf, queued, reboot, info, edit>>

Have == packages \cup made
Readable(s) == lists[s] = "whole" /\ KeyOf[s] \in keys /\ Needs[s] \subseteq Have
Offered == distro \cup UNION {Offers[s] : s \in {s \in Sources : lists[s] = "whole"}}

\* apt update fails when it cannot read a source.
CanUpdate == dirty = "no" \/ \A s \in Sources : lists[s] = "none" \/ Readable(s)

Update ==
  /\ At({"run"}, {"update"}) /\ CanUpdate
  /\ IF dirty = "no" THEN UNCHANGED <<known, dirty>> ELSE known' = Offered /\ dirty' = "no"
  /\ Pass /\ UNCHANGED <<packages, distro, lists, keys, made, conf, queued, reboot, info, edit>>

Added   == {q[2] : q \in {q \in queued : q[1] = "+"}}
Removed == {q[2] : q \in {q \in queued : q[1] = "-"}}

\* apt install fails when it knows nothing of a package.
Unknown == (Added \cup Removed) \ (known \cup packages)

\* Mutant of Installs: the need of a reboot is set anew.
InstallsAnew(also) ==
  /\ packages' = (packages \ Removed) \cup Added \cup also
  /\ queued' = {}
  /\ reboot' = (packages' # packages)

\* DoInstall: the pending packages are installed with the others given.
Installs(also) ==
  /\ packages' = (packages \ Removed) \cup Added \cup also
  /\ queued' = {}
  /\ reboot' = (reboot \/ packages' # packages)

Install ==
  /\ At({"run"}, {"install"}) /\ Unknown = {}
  /\ Installs({})
  /\ Pass /\ UNCHANGED <<distro, known, lists, keys, made, conf, dirty, info, edit>>

SimInstall ==
  /\ At({"sim"}, {"install"})
  /\ queued' = {}
  /\ Pass /\ UNCHANGED <<machine, dirty, reboot, info, edit>>

\* A downloaded package is installed, with what is pending, unless it is there.
InstallDownloaded ==
  /\ At({"run"}, {"deb"})
  /\ IF Args \subseteq packages THEN UNCHANGED <<packages, queued, reboot>>
     ELSE Unknown = {} /\ Installs(Args)
  /\ Pass /\ UNCHANGED <<distro, known, lists, keys, made, conf, dirty, info, edit>>

-----------------------------------------------------------------------------
(***************************************************************************)
(* Commands, edits and prompts.                                            *)
(***************************************************************************)

\* A command that makes something of what there is.  Joining a group calls for a
\* reboot, and a dry run of it looks for the group.
Make ==
  /\ At({"run", "sim"}, {"make", "join"})
  /\ (proc = "run" \/ Step.kind = "join") => Step.needs \subseteq Have
  /\ IF proc = "run"
     THEN /\ made' = made \cup Args
          /\ reboot' = (reboot \/ (Step.kind = "join" /\ ~(Args \subseteq made)))
     ELSE UNCHANGED <<made, reboot>>
  /\ Pass /\ UNCHANGED <<packages, distro, known, lists, keys, conf, queued, dirty, info, edit>>

EditFile ==
  /\ At({"run"}, {"edit"})
  /\ \E n \in DOMAIN Editors : Step.args = <<n>> /\ Open(Editors[n])
  /\ UNCHANGED <<machine, proc, todo, context, rest, settled>>

EditGoesOn ==
  /\ EditOn /\ UNCHANGED <<machine, proc, todo, context, rest, settled>>

\* A changed file calls for a reboot.
EditEnds ==
  /\ phase \in {"kept", "changed"} /\ phase' = "idle"
  /\ reboot' = (reboot \/ phase = "changed")
  /\ Pass
  /\ UNCHANGED <<machine, queued, dirty, info, file, flushed, editor, src, read, state, out,
                 synced>>

\* What comes of a prompt before the user is asked: the value configured is saved in
\* the context; a wrong one is an error.  A valid value the context has is saved
\* again, which panics; and one that is not validated is asked for again.
Fate(p) ==
  CASE info[p] = "none" /\ conf[p] = "good" -> "saved"
    [] info[p] = "none" /\ conf[p] = "bad"  -> "error"
    [] info[p] # "none" /\ p \in Checked    -> "panic"
    [] OTHER -> "asked"
Asked == {p \in Args : Fate(p) = "asked"}
Answers == [Asked -> {"good", "empty"}]

\* All are asked in one form; then each answer is kept and, when there is one,
\* written.  A dry run keeps what is guessed.
Ask ==
  /\ At({"run", "sim"}, {"ask"})
  /\ \A p \in Args : Fate(p) \in {"saved", "asked"}
  /\ \E given \in Answers :
       /\ proc = "run" => \A p \in Asked \cap Checked : given[p] = "good"
       /\ info' = [p \in Prompts |->
                     CASE p \in Args \ Asked -> "good"
                       [] p \in Asked /\ (proc = "run" \/ given[p] = "good") -> given[p]
                       [] OTHER -> info[p]]
       /\ conf' = [p \in Prompts |->
                     IF proc = "run" /\ p \in Asked /\ given[p] = "good" THEN "good" ELSE conf[p]]
  /\ Pass /\ UNCHANGED <<packages, distro, known, lists, keys, made, queued, dirty, reboot, edit>>

\* A value is saved that is saved already.
Panic ==
  /\ At({"run", "sim"}, {"ask"})
  /\ \E p \in Args : Fate(p) = "panic"
  /\ proc' = "panicked"
  /\ UNCHANGED <<machine, todo, context, rest, settled, edit>>

-----------------------------------------------------------------------------
(***************************************************************************)
(* Failures, and what happens between runs.                                *)
(***************************************************************************)

\* What the step at hand may have done of its work when it fails or is killed.
NothingDone == UNCHANGED machine
SourceTorn ==
  /\ At({"run"}, {"source"})
  /\ \E s \in Args :
       \/ lists[s] # "whole" /\ lists' = [lists EXCEPT ![s] = "torn"]
       \/ lists' = [lists EXCEPT ![s] = "whole"]
  /\ UNCHANGED <<packages, distro, known, keys, made, conf>>
SomeInstalled ==
  /\ At({"run"}, {"install", "deb"}) /\ Unknown = {}
  /\ \E some \in SUBSET Added : packages' = packages \cup some
  /\ UNCHANGED <<distro, known, lists, keys, made, conf>>
SomeWritten ==
  /\ At({"run"}, {"ask"})
  /\ \E some \in SUBSET {p \in Asked : conf[p] = "none"} :
       conf' = [p \in Prompts |-> IF p \in some THEN "good" ELSE conf[p]]
  /\ UNCHANGED <<packages, distro, known, lists, keys, made>>

SomeMade ==
  /\ At({"run"}, {"make"}) /\ Step.needs \subseteq Have
  /\ \E some \in SUBSET Args : made' = made \cup some
  /\ UNCHANGED <<packages, distro, known, lists, keys, conf>>

\* A step fails, an editor finds no match, or the bootstrap is killed.
Stop ==
  /\ proc \in {"run", "sim"} /\ proc' = "off" /\ phase' = "idle"
  /\ NothingDone \/ SourceTorn \/ SomeInstalled \/ SomeWritten \/ SomeMade
  /\ UNCHANGED <<todo, context, rest, settled, file, flushed, editor, src, read, state, out,
                 synced>>

\* What was not flushed is lost.
PowerFails ==
  /\ ~flushed
  /\ file' = <<>> /\ flushed' = TRUE
  /\ proc' = "off" /\ phase' = "idle" /\ settled' = FALSE
  /\ UNCHANGED <<machine, todo, context, rest, editor, src, read, state, out, synced>>

\* Others change the machine, and the distribution what it offers.
WorldMoves ==
  /\ proc = "off" /\ settled /\ settled' = FALSE
  /\ \/ distro' \in Distros /\ UNCHANGED <<packages, made>>
     \/ \E p \in packages : packages' = packages \ {p} /\ UNCHANGED <<distro, made>>
     \/ \E m \in made : made' = made \ {m} /\ UNCHANGED <<distro, packages>>
  /\ UNCHANGED <<known, lists, keys, conf, proc, todo, context, rest, edit>>

Next ==
  \/ \E mode \in {"run", "sim"} : Begin(mode)
  \/ Skip \/ Mention \/ Complete
  \/ Select \/ SourceStep \/ Update \/ Install \/ SimInstall \/ InstallDownloaded
  \/ Make \/ EditFile \/ EditGoesOn \/ EditEnds \/ Ask \/ Panic
  \/ Stop \/ PowerFails \/ WorldMoves

Spec == Init /\ [][Next]_vars

-----------------------------------------------------------------------------
(***************************************************************************)
(* Plans the addons make; of others less is promised.                      *)
(***************************************************************************)

\* The steps of these kinds that are not skipped.
Does(steps, reasons, kinds) ==
  {i \in DOMAIN steps : steps[i].kind \in kinds /\ steps[i].skip \cap reasons = {}}

\* No step undoes what another does.
Tidy(steps) ==
  LET all(kinds) == Does(steps, {}, kinds)
      apart(some, others) ==
        \A i \in some, j \in others : ArgsOf(steps[i]) \cap ArgsOf(steps[j]) = {} IN
  /\ apart(all({"remove"}), all(Selecting \cup {"deb"}))
  /\ apart(all({"make"}), all({"join"}))
  /\ \A i \in all({"join"}) : ArgsOf(steps[i]) = {steps[i].args[1]}

\* One file is edited once, by an editor that has no more than a line to find above its
\* own and leaves one end marker.
OneEdit(steps) == \A i, j \in Does(steps, {}, {"edit"}) : i = j
Plain(e) ==
  /\ e.kind = "splice" => \A k \in DOMAIN e.content : Trim(e.content[k]) # Trim(e.end)
  /\ e.kind = "replace" => Len(e.previous) <= 1
PlainEdits(steps) == \A i \in Does(steps, {}, {"edit"}) : Plain(Editors[steps[i].args[1]])

\* What is only noted is done by a step that waits for it; and apt is up to date when
\* it is asked what there is.
Ordered(steps, reasons) ==
  LET does(kinds) == Does(steps, reasons, kinds)
      follows(i, kinds) == \E j \in does(kinds) : Precedes(steps, i, j) IN
  /\ \A i \in does(Selecting \cup {"remove"}) : follows(i, {"install"})
  /\ \A i \in does({"source"}) : follows(i, {"update"})
  /\ does({"install"}) # {} => does({"update"}) # {}
  /\ \A i \in does({"if available", "first available"}), j \in does({"update"}) :
       Precedes(steps, j, i)

\* The sets of steps that may be left: what waits for one of them is left too.
Stages(steps) ==
  {some \in SUBSET DOMAIN steps :
     \A i \in some, j \in DOMAIN steps : Precedes(steps, i, j) => j \in some}

\* As long as j is left it is not the turn of i.
ComesFirst(steps, j, i) ==
  \A some \in Stages(steps) : {i, j} \subseteq some => First(Turns(steps, some)) # i

\* What the distribution offers whatever comes.
AlwaysOffered(p) == \A d \in Distros \cup {s.distro : s \in Setups} : p \in d

\* What a step needs is there before it: a source anyone can read is written before any
\* update, the packages that are pending when some are installed were offered at an
\* update before, and what a command needs was made or installed.
Supplied(steps, reasons) ==
  LET does(kinds) == Does(steps, reasons, kinds)
      offers(j) == UNION {Offers[s] : s \in ArgsOf(steps[j])}
      offered(p, k) ==
        \E u \in does({"update"}) :
          /\ ComesFirst(steps, u, k)
          /\ \/ AlwaysOffered(p)
             \/ \E j \in does({"source"}) : ComesFirst(steps, j, u) /\ p \in offers(j) IN
  /\ \A i \in does({"source"}), u \in does({"update"}) :
       (\E s \in ArgsOf(steps[i]) : Needs[s] = {}) => ComesFirst(steps, i, u)
  /\ \A i \in does({"packages"}), k \in does({"install", "deb"}) :
       ComesFirst(steps, k, i) \/ \A p \in ArgsOf(steps[i]) : offered(p, k)
  /\ \A i \in does({"make", "join"}) : \A n \in steps[i].needs :
       \/ \E j \in does({"make", "join", "deb"}) :
            ComesFirst(steps, j, i) /\ n \in ArgsOf(steps[j])
       \/ \E j \in does({"packages"}), k \in does({"install"}) :
            ComesFirst(steps, j, k) /\ ComesFirst(steps, k, i) /\ n \in ArgsOf(steps[j])

-----------------------------------------------------------------------------
(***************************************************************************)
(* What a bootstrap promises.                                              *)
(***************************************************************************)

Completing == proc = "run" /\ phase = "idle" /\ todo = {}

Fulfilled(step) ==
  LET args == ArgsOf(step) IN
  CASE step.kind = "packages" -> args \subseteq packages
    [] step.kind = "if available" -> args \cap known \subseteq packages
    [] step.kind = "first available" -> args \cap packages # {}
    [] step.kind = "remove" -> args \cap packages = {}
    [] step.kind = "source" -> \A s \in args : lists[s] = "whole" /\ KeyOf[s] \in keys
    [] step.kind = "deb" -> args \subseteq packages
    [] step.kind \in {"make", "join"} -> args \subseteq made
    [] step.kind = "edit" -> AsTold(Editors[step.args[1]], file, file)
    [] step.kind = "ask" -> \A p \in args \cap Checked : conf[p] = "good"
    [] OTHER -> queued = {} /\ dirty = "no"

\* A run that completes has done what every step is there for, whatever earlier runs
\* left behind and whatever the steps after it did: nothing pending is forgotten, no
\* edit undoes another (plan.go, steps-packages.go).
AllAsAsked ==
  Completing =>
    \A i \in DOMAIN Plans[plan] :
      Plans[plan][i].skip \cap env # {} \/ Fulfilled(Plans[plan][i])

Groups ==
  {Plans[plan][i].args[1] : i \in {i \in DOMAIN Plans[plan] : Plans[plan][i].kind = "join"}}

\* The user is told to reboot exactly when this run changed the packages, the user's
\* groups or a file (reboot.go, steps-packages.go:185-192, user-groups.go:39).
RebootTold ==
  Completing =>
    (reboot <=> \/ packages # begun.packages
                \/ (made \ begun.made) \cap Groups # {}
                \/ file # begun.file)

\* A run after one that was completed, with nothing happening in between, changes
\* nothing, a killed or failing one neither, and calls for no reboot; what the user
\* left out the first time may be given.
RerunChangesNothing ==
  [][settled /\ settled' /\ proc = "run" =>
       /\ UNCHANGED <<packages, lists, keys, made, file>>
       /\ ~reboot'
       /\ \A p \in Prompts : conf[p] = "good" => conf'[p] = "good"]_vars

\* The step at hand cannot succeed.
Doomed ==
  CASE Step.kind = "update" -> ~CanUpdate
    [] Step.kind = "install" -> Unknown # {}
    [] Step.kind = "deb" -> Unknown # {} /\ ~(Args \subseteq packages)
    [] Step.kind \in {"make", "join"} -> ~(Step.needs \subseteq Have)
    [] OTHER -> FALSE

\* When a run comes to a step, what it needs has been done: the sources are written
\* before the update that reads them, and updated before packages are installed from
\* them, and those before the commands that use them are run.  There are two cases
\* the order of the steps cannot help: an earlier run, or a skipped login, left a
\* private source apt cannot read; and a package is to be removed that apt knew
\* before the update and not after (docker/bootstrap.go:34).
ReadyWhenReached ==
  proc = "run" /\ AtStep /\ ~Skipped /\ Doomed =>
    \/ /\ Step.kind = "update"
       /\ \E s \in Sources : lists[s] # "none" /\ Needs[s] # {} /\ ~Readable(s)
    \/ Step.kind \in {"install", "deb"} /\ Unknown \subseteq Removed

\* What an editor gives, line by line, is what it was told to make of the text as a
\* whole (textedit/simple.go, range.go, replace-line.go), unless the text misleads it.
EditedAsTold == phase \notin {"idle", "reading"} => AsTold(editor, src, out)

\* A file edited by way of a temporary one always is the old text or the whole new
\* one, and once on disk it stays so, even when the machine loses power
\* (edit-file.go:21-78).
FileWhole ==
  [][editor.how = "temp" /\ flushed =>
       flushed' /\ (file' = file \/ (file' = out /\ AsTold(editor, src, out)))]_vars
=============================================================================
