------------------------------ MODULE Settings ------------------------------
(***************************************************************************)
(* The configuration file of an app (lib/config) with the one key there    *)
(* is, the modes of services (service/mode-config.go), and the command     *)
(* that changes it, "config mode" (addons/stack/cmd.go).  Several          *)
(* processes of the app may run at once, each with what it loaded as it    *)
(* started, and any may be killed, or the machine lose power, between two  *)
(* calls of the file system.                                               *)
(*                                                                         *)
(* Save writes to a temporary file whose name is the same for all, so      *)
(* names and what they name, inodes, are told apart.                       *)
(***************************************************************************)
EXTENDS Naturals, FiniteSets

CONSTANTS
  Procs,      \* the processes that may run at once
  Services,   \* the names of services
  Inodes      \* a bound: the files there may be, in use or open, at a time

Modes == {"default", "local", "debug", "disabled"}
None  == "none"   \* no inode

ASSUME InodesAssumption == Inodes # {} /\ None \notin Inodes

VARIABLES
  file, tmp,    \* what the name of the file, and of the temporary one, name
  inode, disk,  \* what each inode holds, and what of it is on disk
  was,          \* what the name of the file may name again after a power failure
  conf,         \* for each process, its configuration and where it is in saving it
  asked,        \* history: the modes that successful commands asked for, now and before
  together,     \* history: two processes have changed modes at the same time
  misread       \* history: a process that could not load the file has saved it

settings == <<file, tmp, inode, disk, was, conf, asked, together, misread>>

AllDefault == [s \in Services |-> "default"]

\* What a file may hold: modes, of which the default ones are left out; nothing; a text
\* that is none of the app's, or a key it does not know; or what two have written over
\* one another.
Holds(m) == [is |-> "modes", modes |-> m]
Nothing  == [is |-> "nothing", modes |-> AllDefault]
Foreign  == [is |-> "foreign", modes |-> AllDefault]
Torn     == [is |-> "torn", modes |-> AllDefault]

\* What it may hold as the first process loads it.
Contents == {Nothing, Foreign} \cup {Holds(m) : m \in [Services -> Modes]}

Off == [pc |-> "off", modes |-> AllDefault, service |-> "", fd |-> None,
        stale |-> FALSE, failed |-> FALSE]

SettingsInit(content) ==
  /\ tmp = None
  /\ IF content = Nothing
     THEN file = None /\ inode = [i \in Inodes |-> Nothing]
     ELSE /\ file = CHOOSE i \in Inodes : TRUE
          /\ inode = [i \in Inodes |-> IF i = file THEN content ELSE Nothing]
  /\ disk = inode /\ was = file
  /\ conf = [p \in Procs |-> Off]
  /\ asked = [now |-> content.modes, before |-> content.modes]
  /\ together = FALSE /\ misread = FALSE

\* load: what cannot be read or is not known leaves the defaults, and an error that
\* cmd.Main prints.
Loaded ==
  IF file = None THEN [modes |-> AllDefault, failed |-> FALSE]
  ELSE [modes |-> inode[file].modes, failed |-> inode[file].is # "modes"]

Load(p) ==
  /\ conf[p].pc = "off"
  /\ conf' = [conf EXCEPT ![p] = [Off EXCEPT !.pc = "loaded", !.modes = Loaded.modes,
                                             !.failed = Loaded.failed]]
  /\ UNCHANGED <<file, tmp, inode, disk, was, asked, together, misread>>

Saving(p) == conf[p].pc \in {"created", "written", "synced"}
Free == Inodes \ ({file, tmp, was} \cup {conf[p].fd : p \in Procs})

\* SetMode, and the first call of Save: os.Create makes the temporary file or, when it
\* is there, empties it.
Create(p, s, m) ==
  /\ conf[p].pc = "loaded" /\ conf[p].modes[s] # m
  /\ \/ tmp # None /\ UNCHANGED tmp
     \/ tmp = None /\ Free # {} /\ tmp' = CHOOSE i \in Free : TRUE
  /\ inode' = [inode EXCEPT ![tmp'] = Nothing]
  /\ disk' = IF tmp = None THEN [disk EXCEPT ![tmp'] = Nothing] ELSE disk
  /\ conf' = [conf EXCEPT ![p].pc = "created", ![p].fd = tmp',
                          ![p].modes[s] = m, ![p].service = s]
  /\ together' = (together \/ conf[p].stale \/ \E q \in Procs \ {p} : Saving(q))
  /\ misread' = (misread \/ conf[p].failed)
  /\ UNCHANGED <<file, was, asked>>

\* Encode, from the beginning of the file: what another has written there shows where
\* it is longer.
Write(p) ==
  LET f == conf[p].fd IN
  /\ conf[p].pc = "created"
  /\ \E c \in {Holds(conf[p].modes)}
              \cup IF inode[f] \in {Nothing, Holds(conf[p].modes)} THEN {} ELSE {Torn} :
       inode' = [inode EXCEPT ![f] = c]
  /\ conf' = [conf EXCEPT ![p].pc = "written"]
  /\ UNCHANGED <<file, tmp, disk, was, asked, together, misread>>

\* Mutant of Sync: the file is closed only.
SyncNothing(p) ==
  /\ conf[p].pc = "written"
  /\ conf' = [conf EXCEPT ![p].pc = "synced"]
  /\ UNCHANGED <<file, tmp, inode, disk, was, asked, together, misread>>

Sync(p) ==
  /\ conf[p].pc = "written"
  /\ disk' = [disk EXCEPT ![conf[p].fd] = inode[conf[p].fd]]
  /\ conf' = [conf EXCEPT ![p].pc = "synced"]
  /\ UNCHANGED <<file, tmp, inode, was, asked, together, misread>>

\* The rename, of whatever has the name of the temporary file now.
Rename(p) ==
  /\ conf[p].pc = "synced" /\ tmp # None
  /\ file' = tmp /\ was' = file /\ tmp' = None
  /\ conf' = [q \in Procs |-> IF q = p THEN [conf[p] EXCEPT !.pc = "saved", !.fd = None]
                              ELSE [conf[q] EXCEPT !.stale = conf[q].pc # "off"]]
  /\ LET s == conf[p].service IN
     asked' = [now |-> [asked.now EXCEPT ![s] = conf[p].modes[s]], before |-> asked.now]
  /\ UNCHANGED <<inode, disk, together, misread>>

\* Somebody else has renamed it.
RenameFails(p) ==
  /\ conf[p].pc = "synced" /\ tmp = None
  /\ conf' = [conf EXCEPT ![p].pc = "failed", ![p].fd = None]
  /\ UNCHANGED <<file, tmp, inode, disk, was, asked, together, misread>>

\* A call fails, or the process is killed: the temporary file stays.
Abandon(p) ==
  /\ conf' = [conf EXCEPT ![p] = Off]
  /\ UNCHANGED <<file, tmp, inode, disk, was, asked, together, misread>>

\* The machine loses power: what was not flushed is lost, and the name of the file may
\* name again what it did.
LosePower ==
  /\ inode' = disk
  /\ \/ file' = file /\ UNCHANGED asked
     \/ file' = was /\ asked' = IF was = file THEN asked
                                ELSE [now |-> asked.before, before |-> asked.before]
  /\ was' = file'
  /\ conf' = [p \in Procs |-> Off]
  /\ UNCHANGED <<tmp, disk, together, misread>>

SettingsNext ==
  \/ LosePower
  \/ \E p \in Procs :
       \/ Load(p) \/ Write(p) \/ Sync(p) \/ Rename(p) \/ RenameFails(p) \/ Abandon(p)
       \/ \E s \in Services, m \in Modes : Create(p, s, m)

SettingsSpec == (\E c \in Contents : SettingsInit(c)) /\ [][SettingsNext]_settings

-----------------------------------------------------------------------------
\* However commands are interleaved, killed or cut short by a power failure, the file
\* is whole and has the modes that successful commands have set, of every service, and
\* no other: unless two changed modes at the same time (they share the temporary file,
\* and each saves all it has loaded), or one saved what it had not been able to load.
\* A power failure that loses a rename takes back what that command had set, though it
\* had succeeded (LosePower): what counts as set then is what was set before it.
ModesAsSet ==
  ~together /\ ~misread =>
    IF file = None THEN asked.now = AllDefault
    ELSE inode[file] \in {Holds(asked.now), Foreign}
=============================================================================
