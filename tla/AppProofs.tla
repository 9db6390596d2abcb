------------------------------ MODULE AppProofs ------------------------------
(***************************************************************************)
(* Proofs about the commands of an app, for any number of processes, any   *)
(* services and any programs: an app does with its configuration file what *)
(* Settings says, and with the cluster what K3s says; whatever does that   *)
(* keeps the modes that were set, and a set-up that has succeeded; and a   *)
(* start has built what it starts from its source.                         *)
(***************************************************************************)
EXTENDS App, SequenceTheorems, WellFoundedInduction, TLAPS

-----------------------------------------------------------------------------
(***************************************************************************)
(* The configuration file.  As long as processes do not change modes at    *)
(* the same time, there is one that saves at most, what it has loaded is   *)
(* what was set, and the files that have, or may have again, the name of   *)
(* the configuration file are flushed, and are none that is written.       *)
(***************************************************************************)
AllModes == [Services -> Modes]
Files == [is : {"modes", "nothing", "foreign", "torn"}, modes : AllModes]
Confs == [pc : {"off", "loaded", "created", "written", "synced", "saved", "failed"},
          modes : AllModes, service : Services \cup {""}, fd : Inodes \cup {None},
          stale : BOOLEAN, failed : BOOLEAN]

SettingsTypeOK ==
  /\ file \in Inodes \cup {None} /\ tmp \in Inodes \cup {None} /\ was \in Inodes \cup {None}
  /\ inode \in [Inodes -> Files] /\ disk \in [Inodes -> Files]
  /\ conf \in [Procs -> Confs]
  /\ asked \in [now : AllModes, before : AllModes]
  /\ together \in BOOLEAN /\ misread \in BOOLEAN

\* The one that saves has the temporary file, which is no other.
OneSaves ==
  /\ \A p, q \in Procs : Saving(p) /\ Saving(q) => p = q
  /\ \A p \in Procs : Saving(p) => conf[p].fd = tmp /\ tmp # None /\ conf[p].service \in Services
  /\ tmp # None => tmp # file /\ tmp # was

\* What the processes have in memory is what was set, but for what they change.
LoadedAsSet ==
  \A p \in Procs :
    /\ conf[p].pc = "loaded" /\ ~conf[p].stale /\ ~conf[p].failed => conf[p].modes = asked.now
    /\ Saving(p) => \A s \in Services : s # conf[p].service => conf[p].modes[s] = asked.now[s]

\* What the temporary file has at each point of saving.
SavedSoFar ==
  \A p \in Procs :
    /\ conf[p].pc = "created" => inode[tmp] = Nothing
    /\ conf[p].pc \in {"written", "synced"} => inode[tmp] = Holds(conf[p].modes)
    /\ conf[p].pc = "synced" => disk[tmp] = inode[tmp]

\* The file, and the one it may be again after a power failure.
FileAsSet ==
  /\ file = None => asked.now = AllDefault
  /\ file # None => inode[file] \in {Holds(asked.now), Foreign} /\ disk[file] = inode[file]
  /\ was # file /\ was = None => asked.before = AllDefault
  /\ was # file /\ was # None => disk[was] \in {Holds(asked.before), Foreign}

SettingsInv ==
  /\ SettingsTypeOK
  /\ ~together /\ ~misread => OneSaves /\ LoadedAsSet /\ SavedSoFar /\ FileAsSet

LEMMA Constants1 ==
  /\ AllDefault \in AllModes /\ Nothing \in Files /\ Foreign \in Files /\ Torn \in Files
  /\ \A m \in AllModes : Holds(m) \in Files
  /\ Off \in Confs /\ Off.pc = "off"
  /\ Nothing # Foreign /\ \A m : Holds(m) # Nothing /\ Holds(m) # Foreign
BY DEF AllDefault, AllModes, Modes, Nothing, Foreign, Torn, Files, Holds, Off, Confs

LEMMA SettingsInvInit ==
  ASSUME NEW c \in Contents, SettingsInit(c)
  PROVE  SettingsInv
<1>1. c \in Files /\ c.modes \in AllModes
  BY Constants1 DEF Contents, Files, AllModes, Holds, Nothing, Foreign
<1>2. file \in Inodes \cup {None} /\ inode \in [Inodes -> Files]
  <2>1. CASE c = Nothing
    BY <2>1, Constants1 DEF SettingsInit
  <2>2. CASE c # Nothing
    <3>1. file \in Inodes
      BY <2>2, InodesAssumption DEF SettingsInit
    <3>2. QED
      BY <2>2, <3>1, <1>1, Constants1 DEF SettingsInit
  <2>3. QED
    BY <2>1, <2>2
<1>3. SettingsTypeOK
  BY <1>1, <1>2, Constants1 DEF SettingsInit, SettingsTypeOK
<1>4. OneSaves /\ LoadedAsSet /\ SavedSoFar
  BY Constants1 DEF SettingsInit, OneSaves, LoadedAsSet, SavedSoFar, Saving
<1>5. FileAsSet
  <2>1. CASE c = Nothing
    BY <2>1, Constants1 DEF SettingsInit, FileAsSet, Nothing
  <2>2. CASE c # Nothing
    <3>1. file \in Inodes
      BY <2>2, InodesAssumption DEF SettingsInit
    <3>2. inode[file] = c /\ disk[file] = inode[file] /\ was = file /\ file # None
      BY <2>2, <3>1, InodesAssumption DEF SettingsInit
    <3>3. c \in {Holds(c.modes), Foreign}
      BY <2>2 DEF Contents, Holds
    <3>4. QED
      BY <3>2, <3>3 DEF SettingsInit, FileAsSet
  <2>3. QED
    BY <2>1, <2>2
<1>6. QED
  BY <1>3, <1>4, <1>5 DEF SettingsInv

LEMMA LoadKeeps ==
  ASSUME SettingsInv, NEW p \in Procs, Load(p)
  PROVE  SettingsInv'
<1>1. /\ Loaded.modes \in AllModes /\ Loaded.failed \in BOOLEAN
      /\ ~together /\ ~misread /\ ~Loaded.failed => Loaded.modes = asked.now
  <2>1. CASE file = None
    BY <2>1, Constants1 DEF Loaded, SettingsInv, FileAsSet
  <2>2. CASE file # None
    <3>1. inode[file] \in Files
      BY <2>2 DEF SettingsInv, SettingsTypeOK
    <3>2. Loaded.modes = inode[file].modes /\ Loaded.failed = (inode[file].is # "modes")
      BY <2>2 DEF Loaded
    <3>3. ~together /\ ~misread /\ inode[file].is = "modes" => inode[file].modes = asked.now
      BY <2>2 DEF SettingsInv, FileAsSet, Foreign, Holds
    <3>4. QED
      BY <3>1, <3>2, <3>3 DEF Files
  <2>3. QED
    BY <2>1, <2>2
<1> DEFINE new == [Off EXCEPT !.pc = "loaded", !.modes = Loaded.modes, !.failed = Loaded.failed]
<1>2. /\ new \in Confs /\ new.pc = "loaded" /\ new.modes = Loaded.modes
      /\ new.failed = Loaded.failed
  BY <1>1 DEF Off, Confs, AllModes
<1>3. conf' = [conf EXCEPT ![p] = new] /\ conf \in [Procs -> Confs]
  BY DEF Load, SettingsInv, SettingsTypeOK
<1> HIDE DEF new
<1>4. conf'[p] = new /\ \A q \in Procs \ {p} : conf'[q] = conf[q]
  BY <1>3
<1>5. SettingsTypeOK'
  BY <1>2, <1>3 DEF Load, SettingsInv, SettingsTypeOK
<1>6. ASSUME ~together, ~misread
      PROVE  OneSaves' /\ LoadedAsSet' /\ SavedSoFar' /\ FileAsSet'
  <2> USE <1>6 DEF Load, SettingsInv
  <2>1. \A q \in Procs : Saving(q)' <=> Saving(q) /\ q # p
    BY <1>2, <1>4 DEF Saving
  <2>2. OneSaves'
    BY <1>4, <2>1 DEF OneSaves, Saving
  <2>3. LoadedAsSet'
    BY <1>1, <1>2, <1>4, <2>1 DEF LoadedAsSet
  <2>4. SavedSoFar'
    BY <1>2, <1>4 DEF SavedSoFar
  <2>5. QED
    BY <2>2, <2>3, <2>4 DEF FileAsSet
<1>7. QED
  BY <1>5, <1>6 DEF Load, SettingsInv

LEMMA CreateKeeps ==
  ASSUME SettingsInv, NEW p \in Procs, NEW s \in Services, NEW m \in Modes, Create(p, s, m)
  PROVE  SettingsInv'
<1>1. conf[p] \in Confs /\ conf \in [Procs -> Confs]
  BY DEF SettingsInv, SettingsTypeOK
<1>2. /\ tmp' \in Inodes
      /\ tmp # None => tmp' = tmp
      /\ tmp = None => tmp' \notin {file, was}
  BY DEF Create, Free, SettingsInv, SettingsTypeOK
<1> DEFINE new == [conf[p] EXCEPT !.pc = "created", !.fd = tmp', !.modes[s] = m, !.service = s]
<1>3. conf' = [conf EXCEPT ![p] = new]
  BY ZenonT(40), <1>1 DEF Create
<1>4. /\ new \in Confs /\ new.pc = "created" /\ new.fd = tmp' /\ new.service = s
      /\ \A t \in Services : t # s => new.modes[t] = conf[p].modes[t]
  BY <1>1, <1>2 DEF Confs, AllModes
<1> HIDE DEF new
<1>5. conf'[p] = new /\ \A q \in Procs \ {p} : conf'[q] = conf[q]
  BY <1>1, <1>3
<1>6. /\ inode' = [inode EXCEPT ![tmp'] = Nothing] /\ inode' \in [Inodes -> Files]
      /\ disk' \in [Inodes -> Files] /\ \A i \in Inodes : i # tmp' => disk'[i] = disk[i]
  BY <1>2, Constants1 DEF Create, SettingsInv, SettingsTypeOK
<1>7. SettingsTypeOK'
  <2>1. together' \in BOOLEAN /\ misread' \in BOOLEAN
    BY DEF Create
  <2>2. conf' \in [Procs -> Confs]
    BY <1>1, <1>3, <1>4
  <2>3. UNCHANGED <<file, was, asked>>
    BY DEF Create
  <2>4. QED
    BY <1>2, <1>6, <2>1, <2>2, <2>3 DEF SettingsInv, SettingsTypeOK
<1>8. ASSUME ~together', ~misread'
      PROVE  OneSaves' /\ LoadedAsSet' /\ SavedSoFar' /\ FileAsSet'
  <2>1. /\ ~together /\ ~misread /\ ~conf[p].stale /\ ~conf[p].failed /\ conf[p].pc = "loaded"
        /\ \A q \in Procs \ {p} : ~Saving(q)
    BY <1>8 DEF Create
  <2>2. OneSaves /\ LoadedAsSet /\ SavedSoFar /\ FileAsSet
    BY <2>1 DEF SettingsInv
  <2>3. \A q \in Procs \ {p} : ~Saving(q)'
    BY <2>1, <1>5 DEF Saving
  <2>4. tmp' # file /\ tmp' # was /\ tmp' # None
    BY <1>2, <2>2, InodesAssumption DEF OneSaves
  <2>5. OneSaves'
    BY <1>4, <1>5, <2>3, <2>4 DEF Create, OneSaves
  <2>6. LoadedAsSet'
    <3>1. asked' = asked /\ conf[p].modes = asked.now
      BY <2>1, <2>2 DEF Create, LoadedAsSet
    <3>2. \A q \in Procs \ {p} :
            conf'[q].pc = "loaded" /\ ~conf'[q].stale /\ ~conf'[q].failed
              => conf'[q].modes = asked'.now
      BY <1>5, <2>2, <3>1 DEF LoadedAsSet
    <3>3. \A t \in Services : t # s => conf'[p].modes[t] = asked'.now[t]
      BY <1>4, <1>5, <3>1
    <3>4. QED
      BY <1>4, <1>5, <2>3, <3>2, <3>3 DEF LoadedAsSet
  <2>7. SavedSoFar'
    BY <1>2, <1>4, <1>5, <1>6, <2>3 DEF SavedSoFar, Saving, SettingsInv, SettingsTypeOK
  <2>8. FileAsSet'
    BY <1>2, <1>6, <2>2, <2>4 DEF Create, FileAsSet, SettingsInv, SettingsTypeOK
  <2>9. QED
    BY <2>5, <2>6, <2>7, <2>8
<1>9. QED
  BY <1>7, <1>8 DEF SettingsInv

LEMMA WriteKeeps ==
  ASSUME SettingsInv, NEW p \in Procs, Write(p)
  PROVE  SettingsInv'
<1> DEFINE f == conf[p].fd
<1>1. /\ conf \in [Procs -> Confs] /\ conf[p] \in Confs /\ conf[p].pc = "created"
      /\ f \in Inodes \cup {None} /\ Holds(conf[p].modes) \in Files
  BY Constants1 DEF Write, SettingsInv, SettingsTypeOK, Confs
<1>2. PICK c \in {Holds(conf[p].modes)}
                 \cup IF inode[f] \in {Nothing, Holds(conf[p].modes)} THEN {} ELSE {Torn} :
         inode' = [inode EXCEPT ![f] = c]
  BY DEF Write
<1>3. conf' = [conf EXCEPT ![p].pc = "written"]
  BY DEF Write
<1>4. /\ conf'[p] = [conf[p] EXCEPT !.pc = "written"] /\ \A q \in Procs \ {p} : conf'[q] = conf[q]
      /\ conf' \in [Procs -> Confs]
  BY <1>1, <1>3 DEF Confs
<1>5. /\ conf'[p].pc = "written" /\ conf'[p].fd = conf[p].fd /\ conf'[p].modes = conf[p].modes
      /\ conf'[p].service = conf[p].service
  BY <1>1, <1>4 DEF Confs
<1>6. SettingsTypeOK'
  <2>1. c \in Files
    BY <1>1, <1>2, Constants1
  <2>2. QED
    BY <1>2, <1>4, <2>1 DEF Write, SettingsInv, SettingsTypeOK
<1>7. ASSUME ~together, ~misread
      PROVE  OneSaves' /\ LoadedAsSet' /\ SavedSoFar' /\ FileAsSet'
  <2>1. OneSaves /\ LoadedAsSet /\ SavedSoFar /\ FileAsSet
    BY <1>7 DEF SettingsInv
  <2>2. /\ Saving(p) /\ (\A q \in Procs \ {p} : ~Saving(q)) /\ f = tmp /\ f \in Inodes
        /\ f # file /\ f # was /\ inode[f] = Nothing
    BY <1>1, <2>1 DEF OneSaves, SavedSoFar, Saving
  <2>3. inode' = [inode EXCEPT ![f] = Holds(conf[p].modes)]
    BY <1>2, <2>2
  <2>4. \A q \in Procs : Saving(q)' <=> Saving(q)
    BY <1>4, <1>5, <2>2 DEF Saving
  <2>5. OneSaves'
    BY <1>4, <1>5, <2>1, <2>4 DEF Write, OneSaves
  <2>6. LoadedAsSet'
    BY <1>4, <1>5, <2>1, <2>2, <2>4 DEF Write, LoadedAsSet
  <2>7. inode'[tmp] = Holds(conf'[p].modes)
    BY <1>5, <2>2, <2>3 DEF SettingsInv, SettingsTypeOK
  <2>8. SavedSoFar'
    BY <1>4, <1>5, <2>2, <2>7 DEF Write, SavedSoFar, Saving
  <2>9. FileAsSet'
    BY <2>1, <2>2, <2>3 DEF Write, FileAsSet, SettingsInv, SettingsTypeOK
  <2>10. QED
    BY <2>5, <2>6, <2>8, <2>9
<1>8. QED
  BY <1>6, <1>7 DEF Write, SettingsInv

LEMMA SyncKeeps ==
  ASSUME SettingsInv, NEW p \in Procs, Sync(p)
  PROVE  SettingsInv'
<1> DEFINE f == conf[p].fd
<1>1. /\ conf \in [Procs -> Confs] /\ conf[p] \in Confs /\ conf[p].pc = "written"
      /\ f \in Inodes \cup {None}
  BY DEF Sync, SettingsInv, SettingsTypeOK, Confs
<1>2. /\ conf'[p] = [conf[p] EXCEPT !.pc = "synced"] /\ \A q \in Procs \ {p} : conf'[q] = conf[q]
      /\ conf' \in [Procs -> Confs]
  BY <1>1 DEF Sync, Confs
<1>3. /\ conf'[p].pc = "synced" /\ conf'[p].fd = conf[p].fd /\ conf'[p].modes = conf[p].modes
      /\ conf'[p].service = conf[p].service
  BY <1>1, <1>2 DEF Confs
<1>4. /\ disk' \in [Inodes -> Files] /\ (f \in Inodes => disk'[f] = inode[f])
      /\ \A i \in Inodes : i # f => disk'[i] = disk[i]
  BY <1>1, InodesAssumption DEF Sync, SettingsInv, SettingsTypeOK
<1>5. SettingsTypeOK'
  BY <1>2, <1>4 DEF Sync, SettingsInv, SettingsTypeOK
<1>6. ASSUME ~together, ~misread
      PROVE  OneSaves' /\ LoadedAsSet' /\ SavedSoFar' /\ FileAsSet'
  <2>1. OneSaves /\ LoadedAsSet /\ SavedSoFar /\ FileAsSet
    BY <1>6 DEF SettingsInv
  <2>2. /\ Saving(p) /\ (\A q \in Procs \ {p} : ~Saving(q)) /\ f = tmp /\ f \in Inodes
        /\ f # file /\ f # was
    BY <1>1, <2>1 DEF OneSaves, Saving
  <2>3. \A q \in Procs : Saving(q)' <=> Saving(q)
    BY <1>2, <1>3, <2>2 DEF Saving
  <2>4. OneSaves'
    BY <1>2, <1>3, <2>1, <2>3 DEF Sync, OneSaves
  <2>5. LoadedAsSet'
    BY <1>2, <1>3, <2>1, <2>2, <2>3 DEF Sync, LoadedAsSet
  <2>6. SavedSoFar'
    BY <1>1, <1>2, <1>3, <1>4, <2>1, <2>2 DEF Sync, SavedSoFar, Saving
  <2>7. FileAsSet'
    BY <1>4, <2>1, <2>2 DEF Sync, FileAsSet, SettingsInv, SettingsTypeOK
  <2>8. QED
    BY <2>4, <2>5, <2>6, <2>7
<1>7. QED
  BY <1>5, <1>6 DEF Sync, SettingsInv

LEMMA RenameKeeps ==
  ASSUME SettingsInv, NEW p \in Procs, Rename(p)
  PROVE  SettingsInv'
<1> DEFINE s == conf[p].service
           new(q) == IF q = p THEN [conf[p] EXCEPT !.pc = "saved", !.fd = None]
                     ELSE [conf[q] EXCEPT !.stale = conf[q].pc # "off"]
<1>1. /\ conf \in [Procs -> Confs] /\ conf[p].pc = "synced" /\ tmp \in Inodes /\ tmp # None
      /\ file' = tmp /\ was' = file /\ tmp' = None
      /\ UNCHANGED <<inode, disk, together, misread>>
      /\ conf' = [q \in Procs |-> new(q)]
  BY DEF Rename, SettingsInv, SettingsTypeOK
<1>2. asked' = [now |-> [asked.now EXCEPT ![s] = conf[p].modes[s]], before |-> asked.now]
  BY DEF Rename
<1>3. /\ \A q \in Procs : new(q) \in Confs
      /\ new(p).pc = "saved"
      /\ \A q \in Procs \ {p} : new(q).pc = conf[q].pc /\ (conf[q].pc # "off" => new(q).stale)
  BY <1>1 DEF Confs
<1> HIDE DEF new
<1>4. /\ conf' \in [Procs -> Confs] /\ conf'[p].pc = "saved"
      /\ \A q \in Procs \ {p} : conf'[q].pc = conf[q].pc /\ (conf[q].pc # "off" => conf'[q].stale)
  BY <1>1, <1>3
<1>5. SettingsTypeOK'
  <2>1. asked.now \in AllModes /\ conf[p].modes \in AllModes /\ s \in Services \cup {""}
    BY <1>1 DEF SettingsInv, SettingsTypeOK, Confs
  <2>2. [asked.now EXCEPT ![s] = conf[p].modes[s]] \in AllModes
    BY <2>1 DEF AllModes
  <2>3. asked' \in [now : AllModes, before : AllModes]
    BY <1>2, <2>1, <2>2
  <2>4. QED
    BY <1>1, <1>4, <2>3 DEF SettingsInv, SettingsTypeOK
<1>6. ASSUME ~together, ~misread
      PROVE  OneSaves' /\ LoadedAsSet' /\ SavedSoFar' /\ FileAsSet'
  <2>1. OneSaves /\ LoadedAsSet /\ SavedSoFar /\ FileAsSet
    BY <1>6 DEF SettingsInv
  <2>2. \A q \in Procs : ~Saving(q)'
    BY <1>1, <1>4, <2>1 DEF OneSaves, Saving
  <2>3. OneSaves' /\ SavedSoFar'
    BY <1>1, <2>2 DEF OneSaves, SavedSoFar, Saving
  <2>4. LoadedAsSet'
    BY <1>4, <2>2 DEF LoadedAsSet
  <2>5. asked'.now = conf[p].modes /\ asked'.before = asked.now
    <3>1. s \in Services /\ \A t \in Services : t # s => conf[p].modes[t] = asked.now[t]
      BY <1>1, <2>1 DEF OneSaves, LoadedAsSet, Saving
    <3>2. asked.now \in AllModes /\ conf[p].modes \in AllModes
      BY <1>1 DEF SettingsInv, SettingsTypeOK, Confs
    <3>3. [asked.now EXCEPT ![s] = conf[p].modes[s]] = conf[p].modes
      BY <3>1, <3>2 DEF AllModes
    <3>4. QED
      BY <1>2, <3>3
  <2>6. FileAsSet'
    <3>1. file' # None /\ inode'[file'] = Holds(asked'.now) /\ disk'[file'] = inode'[file']
      BY <1>1, <2>1, <2>5 DEF SavedSoFar
    <3>2. /\ was' = None => asked'.before = AllDefault
          /\ was' # None => disk'[was'] \in {Holds(asked'.before), Foreign}
      BY <1>1, <2>1, <2>5 DEF FileAsSet
    <3>3. QED
      BY <3>1, <3>2 DEF FileAsSet
  <2>7. QED
    BY <2>3, <2>4, <2>6
<1>7. QED
  BY <1>1, <1>5, <1>6 DEF SettingsInv

\* A process that stops saving, or ends, leaves everything to the next.
LEMMA StopKeeps ==
  ASSUME SettingsInv, NEW p \in Procs, RenameFails(p) \/ Abandon(p)
  PROVE  SettingsInv'
<1>1. PICK new \in Confs : /\ new.pc \in {"off", "failed"} /\ conf' = [conf EXCEPT ![p] = new]
                           /\ UNCHANGED <<file, tmp, inode, disk, was, asked, together, misread>>
  <2>1. conf \in [Procs -> Confs]
    BY DEF SettingsInv, SettingsTypeOK
  <2>2. CASE Abandon(p)
    BY <2>2, Constants1 DEF Abandon
  <2>3. CASE RenameFails(p)
    <3>1. [conf[p] EXCEPT !.pc = "failed", !.fd = None] \in Confs
      BY <2>1 DEF Confs
    <3>2. [conf[p] EXCEPT !.pc = "failed", !.fd = None].pc = "failed"
      BY <2>1 DEF Confs
    <3>3. conf' = [conf EXCEPT ![p] = [conf[p] EXCEPT !.pc = "failed", !.fd = None]]
      BY <2>1, <2>3 DEF RenameFails
    <3>4. QED
      BY <2>3, <3>1, <3>2, <3>3 DEF RenameFails
  <2>4. QED
    BY <2>2, <2>3
<1>2. /\ conf' \in [Procs -> Confs] /\ conf'[p].pc \in {"off", "failed"}
      /\ \A q \in Procs \ {p} : conf'[q] = conf[q]
  BY <1>1 DEF SettingsInv, SettingsTypeOK
<1>3. SettingsTypeOK'
  BY <1>1, <1>2 DEF SettingsInv, SettingsTypeOK
<1>4. ASSUME ~together, ~misread
      PROVE  OneSaves' /\ LoadedAsSet' /\ SavedSoFar' /\ FileAsSet'
  <2>1. OneSaves /\ LoadedAsSet /\ SavedSoFar /\ FileAsSet
    BY <1>4 DEF SettingsInv
  <2>2. \A q \in Procs : Saving(q)' <=> Saving(q) /\ q # p
    BY <1>2 DEF Saving
  <2>3. OneSaves'
    BY <1>1, <1>2, <2>1, <2>2 DEF OneSaves
  <2>4. LoadedAsSet' /\ SavedSoFar'
    BY <1>1, <1>2, <2>1, <2>2 DEF LoadedAsSet, SavedSoFar
  <2>5. FileAsSet'
    BY <1>1, <2>1 DEF FileAsSet
  <2>6. QED
    BY <2>3, <2>4, <2>5
<1>5. QED
  BY <1>1, <1>3, <1>4 DEF SettingsInv

LEMMA LosePowerKeeps ==
  ASSUME SettingsInv, LosePower
  PROVE  SettingsInv'
<1>1. /\ inode' = disk /\ was' = file' /\ conf' = [p \in Procs |-> Off]
      /\ UNCHANGED <<tmp, disk, together, misread>>
      /\ \/ file' = file /\ asked' = asked
         \/ /\ file' = was /\ was # file
            /\ asked' = [now |-> asked.before, before |-> asked.before]
  BY DEF LosePower
<1>2. SettingsTypeOK'
  BY <1>1, Constants1 DEF SettingsInv, SettingsTypeOK
<1>3. \A p \in Procs : conf'[p].pc = "off" /\ ~Saving(p)'
  BY <1>1, Constants1 DEF Saving
<1>4. ASSUME ~together, ~misread
      PROVE  OneSaves' /\ LoadedAsSet' /\ SavedSoFar' /\ FileAsSet'
  <2>1. OneSaves /\ FileAsSet
    BY <1>4 DEF SettingsInv
  <2>2. OneSaves' /\ LoadedAsSet' /\ SavedSoFar'
    BY <1>1, <1>3, <2>1 DEF OneSaves, LoadedAsSet, SavedSoFar
  <2>3. FileAsSet'
    BY <1>1, <2>1 DEF FileAsSet
  <2>4. QED
    BY <2>2, <2>3
<1>5. QED
  BY <1>1, <1>2, <1>4 DEF SettingsInv

LEMMA SettingsInvNext == SettingsInv /\ [SettingsNext]_settings => SettingsInv'
<1> SUFFICES ASSUME SettingsInv, [SettingsNext]_settings PROVE SettingsInv'
  OBVIOUS
<1>1. CASE SettingsNext
  BY <1>1, LoadKeeps, CreateKeeps, WriteKeeps, SyncKeeps, RenameKeeps, StopKeeps, LosePowerKeeps
     DEF SettingsNext
<1>2. CASE UNCHANGED settings
  BY <1>2 DEF settings, SettingsInv, SettingsTypeOK, OneSaves, LoadedAsSet, SavedSoFar,
     FileAsSet, Saving
<1>3. QED
  BY <1>1, <1>2

\* What is done with the configuration file (lib/config/persistence.go:23-94,
\* service/mode-config.go:70-86) keeps, through kills and power failures, the modes that
\* were set.
THEOREM SettingsCorrect == SettingsSpec => [](SettingsTypeOK /\ ModesAsSet)
<1>1. (\E c \in Contents : SettingsInit(c)) => SettingsInv
  BY SettingsInvInit
<1>2. SettingsInv => SettingsTypeOK /\ ModesAsSet
  BY DEF SettingsInv, FileAsSet, ModesAsSet
<1>3. QED
  BY <1>1, <1>2, SettingsInvNext, PTL DEF SettingsSpec

-----------------------------------------------------------------------------
(***************************************************************************)
(* The cluster.  As long as no removal meets a server that comes back or   *)
(* another command, k3s.yaml and what was read from it have the            *)
(* certificates of the server there is; and as long as no kubeconfig that  *)
(* is being written is left or read, what is to be written has the rest of *)
(* the user's.                                                             *)
(***************************************************************************)
Merging == {"to write", "truncated"}
Removings == {"killed", "yaml removed", "data removed"}

Kubes == [bin : BOOLEAN, sudoers : BOOLEAN, data : Nat, yaml : Nat, server : Nat, made : Nat,
          kept : BOOLEAN]
MergeStates == [pc : {"no", "merged"} \cup Merging \cup Removings, cert : Nat, rest : BOOLEAN]

USE DEF Kubes, MergeStates

ClusterTypeOK ==
  /\ kube \in Kubes
  /\ user \in [app : Nat, rest : BOOLEAN]
  /\ merge \in [Clients -> MergeStates]
  /\ setUp \in BOOLEAN /\ raced \in BOOLEAN /\ cut \in BOOLEAN

\* The user's kubeconfig is whole, or about to be.
RestKept ==
  /\ (\A p \in Clients : ~Writing(p)) => user.rest
  /\ \A p \in Clients : merge[p].pc \in Merging => merge[p].rest

\* One removal has the cluster for itself.
RemovedAlone ==
  \A p \in Clients : Removing(p) =>
    /\ kube.server = 0 /\ ~setUp
    /\ \A q \in Clients \ {p} : merge[q].pc = "no"
    /\ merge[p].pc # "killed" => kube.yaml = 0

\* The certificates of the server, in its data, in k3s.yaml and where that was read.
SameCerts ==
  /\ kube.server # 0 => kube.server = kube.data
  /\ kube.yaml # 0 => kube.yaml = kube.data
  /\ \A p \in Clients : merge[p].pc \in Merging => kube.yaml # 0 /\ merge[p].cert = kube.yaml

\* What was merged is still there, unless another is writing.
MergedStays ==
  \A p \in Clients : merge[p].pc = "merged" =>
    kube.yaml # 0 /\ (user.app = kube.yaml \/ \E q \in Clients : Writing(q))
SetUpStays ==
  setUp => kube.yaml # 0 /\ (user.app = kube.yaml \/ \E q \in Clients : Writing(q))

ClusterInv ==
  /\ ClusterTypeOK
  /\ ~cut => RestKept
  /\ ~raced => RemovedAlone /\ SameCerts
  /\ ~raced /\ ~cut => MergedStays /\ SetUpStays

LEMMA ClusterInvInit == ClusterInit => ClusterInv
<1> SUFFICES ASSUME ClusterInit PROVE ClusterInv
  OBVIOUS
<1>1. \A p \in Clients : merge[p].pc = "no" /\ ~Removing(p)
  BY DEF ClusterInit, Idle, Removing
<1>2. ClusterTypeOK
  BY DEF ClusterInit, ClusterTypeOK, Idle
<1>3. RestKept
  BY <1>1 DEF ClusterInit, RestKept, Merging
<1>4. RemovedAlone /\ SameCerts
  BY <1>1 DEF ClusterInit, RemovedAlone, SameCerts, Merging
<1>5. MergedStays /\ SetUpStays
  BY <1>1 DEF ClusterInit, MergedStays, SetUpStays
<1>6. QED
  BY <1>2, <1>3, <1>4, <1>5 DEF ClusterInv

\* The server, its daemon, and what is installed.
LEMMA ServerKeeps ==
  ASSUME ClusterInv,
         \/ ServerEnds \/ ServerWrites
         \/ \E p \in Clients : \/ StopServer(p) \/ KeepServer(p)
                               \/ InstallBinary(p) \/ InstallSudoers(p)
  PROVE  ClusterInv'
<1>1. UNCHANGED <<user, merge, setUp, raced, cut>>
  BY DEF ServerEnds, ServerWrites, StopServer, KeepServer, InstallBinary, InstallSudoers,
     OnlyKube, NoHistory
<1>2. /\ kube' \in Kubes
      /\ kube'.data = kube.data /\ kube'.server \in {0, kube.server}
      /\ \/ kube'.yaml = kube.yaml
         \/ kube.server # 0 /\ kube'.yaml = kube.server /\ kube.yaml # kube.server
  <2>1. kube \in Kubes
    BY DEF ClusterInv, ClusterTypeOK
  <2>2. CASE ServerEnds
    BY <2>1, <2>2 DEF ServerEnds
  <2>3. CASE ServerWrites
    BY <2>1, <2>3 DEF ServerWrites
  <2>4. CASE \E p \in Clients : StopServer(p)
    <3>1. kube' = [kube EXCEPT !.server = 0, !.kept = FALSE]
      BY <2>4 DEF StopServer
    <3>2. QED
      BY <2>1, <3>1
  <2>5. CASE \E p \in Clients : KeepServer(p)
    BY <2>1, <2>5 DEF KeepServer
  <2>6. CASE \E p \in Clients : InstallBinary(p)
    <3>1. PICK done \in BOOLEAN : kube' = [kube EXCEPT !.bin = kube.bin \/ done]
      BY <2>6 DEF InstallBinary
    <3>2. (kube.bin \/ done) \in BOOLEAN
      OBVIOUS
    <3>3. QED
      BY <2>1, <3>1, <3>2
  <2>7. CASE \E p \in Clients : InstallSudoers(p)
    BY <2>1, <2>7 DEF InstallSudoers
  <2>8. QED
    BY <2>2, <2>3, <2>4, <2>5, <2>6, <2>7
<1>3. \A q \in Clients : (Writing(q)' <=> Writing(q)) /\ (Removing(q)' <=> Removing(q))
  BY <1>1 DEF Writing, Removing
<1>4. ClusterTypeOK'
  BY <1>1, <1>2 DEF ClusterInv, ClusterTypeOK
<1>5. ~cut => RestKept'
  BY <1>1, <1>3 DEF ClusterInv, RestKept
<1>6. ~raced => kube'.yaml = kube.yaml \/ kube.yaml = 0
  BY <1>2 DEF ClusterInv, SameCerts
<1>7. ~raced => RemovedAlone' /\ SameCerts'
  BY <1>1, <1>2, <1>3, <1>6 DEF ClusterInv, RemovedAlone, SameCerts
<1>8. ~raced /\ ~cut => MergedStays' /\ SetUpStays'
  BY <1>1, <1>3, <1>6 DEF ClusterInv, MergedStays, SetUpStays
<1>9. QED
  BY <1>1, <1>4, <1>5, <1>7, <1>8 DEF ClusterInv

LEMMA ServerStartsKeeps ==
  ASSUME ClusterInv, ServerStarts
  PROVE  ClusterInv'
<1>1. UNCHANGED <<user, merge, setUp, cut>> /\ kube.server = 0
  BY DEF ServerStarts
<1>2. /\ kube' \in Kubes
      /\ kube'.yaml = kube.yaml /\ kube'.server = kube'.data
      /\ kube.data = 0 \/ kube'.data = kube.data
  <2>1. kube \in Kubes
    BY DEF ClusterInv, ClusterTypeOK
  <2>2. CASE kube' = [kube EXCEPT !.server = kube.data]
    BY <2>1, <2>2
  <2>3. CASE /\ kube.data = 0
             /\ kube' = [kube EXCEPT !.made = kube.made + 1, !.data = kube.made + 1,
                                     !.server = kube.made + 1]
    <3>1. kube.made + 1 \in Nat
      BY <2>1
    <3>2. kube'.yaml = kube.yaml /\ kube'.server = kube.made + 1 /\ kube'.data = kube.made + 1
      BY <2>1, <2>3
    <3>3. QED
      BY <2>1, <2>3, <3>1, <3>2
  <2>4. QED
    BY <2>2, <2>3 DEF ServerStarts
<1>3. raced' \in BOOLEAN /\ (~raced' => ~raced /\ \A p \in Clients : ~Removing(p))
  BY DEF ServerStarts
<1>4. \A q \in Clients : (Writing(q)' <=> Writing(q)) /\ (Removing(q)' <=> Removing(q))
  BY <1>1 DEF Writing, Removing
<1>5. ClusterTypeOK'
  BY <1>1, <1>2, <1>3 DEF ClusterInv, ClusterTypeOK
<1>6. ~cut => RestKept'
  BY <1>1, <1>4 DEF ClusterInv, RestKept
<1>7. ~raced' => RemovedAlone' /\ SameCerts'
  BY <1>1, <1>2, <1>3, <1>4 DEF ClusterInv, RemovedAlone, SameCerts
<1>8. ~raced' /\ ~cut => MergedStays' /\ SetUpStays'
  BY <1>1, <1>2, <1>3, <1>4 DEF ClusterInv, MergedStays, SetUpStays
<1>9. QED
  BY <1>1, <1>5, <1>6, <1>7, <1>8 DEF ClusterInv

\* What is read from k3s.yaml is what the server has, and the rest of the user's
\* kubeconfig is there to be read.
LEMMA ReadConfigsKeeps ==
  ASSUME ClusterInv, NEW p \in Clients, ReadConfigs(p)
  PROVE  ClusterInv'
<1> DEFINE new == [pc |-> IF user.app = kube.yaml THEN "merged" ELSE "to write",
                   cert |-> kube.yaml, rest |-> user.rest]
<1>1. UNCHANGED <<kube, user, setUp>> /\ kube.yaml # 0 /\ merge[p].pc = "no"
  BY DEF ReadConfigs, MergeAt
<1>2. /\ merge' = [merge EXCEPT ![p] = new]
      /\ merge' \in [Clients -> MergeStates]
      /\ merge'[p] = new /\ \A q \in Clients \ {p} : merge'[q] = merge[q]
  BY DEF ReadConfigs, ClusterInv, ClusterTypeOK, Merging
<1>3. /\ new.pc \in {"merged", "to write"} /\ (new.pc = "merged" => user.app = kube.yaml)
      /\ new.cert = kube.yaml /\ new.rest = user.rest
  OBVIOUS
<1> HIDE DEF new
<1>4. /\ cut' \in BOOLEAN /\ raced' \in BOOLEAN
      /\ ~cut' => ~cut /\ \A q \in Clients \ {p} : ~Writing(q)
      /\ ~raced' => ~raced /\ \A q \in Clients : ~Removing(q)
  BY DEF ReadConfigs, Busy
<1>5. \A q \in Clients : /\ Writing(q)' <=> Writing(q)
                         /\ Removing(q)' <=> Removing(q)
  BY <1>1, <1>2, <1>3 DEF Writing, Removing
<1>6. ClusterTypeOK'
  BY <1>1, <1>2, <1>4 DEF ClusterInv, ClusterTypeOK
<1>7. ~cut' => RestKept'
  <2>1. ~Writing(p)
    BY <1>1 DEF Writing
  <2>2. QED
    BY <2>1, <1>1, <1>2, <1>3, <1>4, <1>5 DEF ClusterInv, RestKept
<1>8. ~raced' => RemovedAlone' /\ SameCerts'
  BY <1>1, <1>2, <1>3, <1>4, <1>5 DEF ClusterInv, RemovedAlone, SameCerts
<1>9. ~raced' /\ ~cut' => MergedStays' /\ SetUpStays'
  BY <1>1, <1>2, <1>3, <1>4, <1>5 DEF ClusterInv, MergedStays, SetUpStays
<1>10. QED
  BY <1>6, <1>7, <1>8, <1>9 DEF ClusterInv

LEMMA TruncateKeeps ==
  ASSUME ClusterInv, NEW p \in Clients, TruncateConfig(p)
  PROVE  ClusterInv'
<1>1. /\ UNCHANGED <<kube, setUp, raced, cut>> /\ merge[p].pc = "to write"
      /\ user' = [app |-> 0, rest |-> FALSE]
  BY DEF TruncateConfig, NoHistory, MergeAt
<1>2. /\ merge' \in [Clients -> MergeStates]
      /\ merge'[p].pc = "truncated" /\ merge'[p].cert = merge[p].cert
      /\ merge'[p].rest = merge[p].rest
      /\ \A q \in Clients \ {p} : merge'[q] = merge[q]
  BY DEF TruncateConfig, ClusterInv, ClusterTypeOK, Merging
<1>3. Writing(p)' /\ \A q \in Clients : Removing(q)' <=> Removing(q)
  BY <1>1, <1>2 DEF Writing, Removing
<1>4. ClusterTypeOK'
  BY <1>1, <1>2 DEF ClusterInv, ClusterTypeOK
<1>5. ~cut => RestKept'
  BY <1>1, <1>2, <1>3 DEF ClusterInv, RestKept, Merging
<1>6. ~raced => RemovedAlone' /\ SameCerts'
  BY <1>1, <1>2, <1>3 DEF ClusterInv, RemovedAlone, SameCerts, Merging
<1>7. ~raced /\ ~cut => MergedStays' /\ SetUpStays'
  BY <1>1, <1>2, <1>3 DEF ClusterInv, MergedStays, SetUpStays
<1>8. QED
  BY <1>1, <1>4, <1>5, <1>6, <1>7 DEF ClusterInv

LEMMA WriteConfigKeeps ==
  ASSUME ClusterInv, NEW p \in Clients, WriteConfig(p)
  PROVE  ClusterInv'
<1>1. /\ UNCHANGED <<kube, setUp, raced, cut>> /\ merge[p].pc = "truncated"
      /\ user' = [app |-> merge[p].cert, rest |-> merge[p].rest]
  BY DEF WriteConfig, NoHistory, MergeAt
<1>2. /\ merge' \in [Clients -> MergeStates]
      /\ merge'[p].pc = "merged"
      /\ \A q \in Clients \ {p} : merge'[q] = merge[q]
  BY DEF WriteConfig, ClusterInv, ClusterTypeOK
<1>3. /\ user' \in [app : Nat, rest : BOOLEAN] /\ user'.app = merge[p].cert
      /\ user'.rest = merge[p].rest
  BY <1>1 DEF ClusterInv, ClusterTypeOK
<1>4. \A q \in Clients : Removing(q)' <=> Removing(q)
  BY <1>1, <1>2 DEF Removing
<1>5. ClusterTypeOK'
  BY <1>1, <1>2, <1>3 DEF ClusterInv, ClusterTypeOK
<1>6. ~cut => RestKept'
  BY <1>1, <1>2, <1>3 DEF ClusterInv, RestKept, Merging
<1>7. ~raced => RemovedAlone' /\ SameCerts' /\ user'.app = kube'.yaml /\ kube'.yaml # 0
  BY <1>1, <1>2, <1>3, <1>4 DEF ClusterInv, RemovedAlone, SameCerts, Merging
<1>8. ~raced /\ ~cut => MergedStays' /\ SetUpStays'
  BY <1>1, <1>7 DEF MergedStays, SetUpStays
<1>9. QED
  BY <1>1, <1>5, <1>6, <1>7, <1>8 DEF ClusterInv

LEMMA ReadUserKeeps ==
  ASSUME ClusterInv, NEW p \in Clients, ReadUser(p)
  PROVE  ClusterInv'
<1>1. UNCHANGED <<kube, user, merge, setUp, raced>> /\ cut' \in BOOLEAN /\ (~cut' => ~cut)
  BY DEF ReadUser
<1>2. QED
  BY <1>1 DEF ClusterInv, ClusterTypeOK, RestKept, RemovedAlone, SameCerts, MergedStays,
     SetUpStays, Writing, Removing

\* A merge is over: it has succeeded, or its process ends.
LEMMA MergeOverKeeps ==
  ASSUME ClusterInv, NEW p \in Clients, SetUpDone(p) \/ Merged(p) \/ LeaveCluster(p)
  PROVE  ClusterInv'
<1>1. /\ UNCHANGED <<kube, user>> /\ merge' = [merge EXCEPT ![p] = Idle]
      /\ cut' \in BOOLEAN /\ raced' \in BOOLEAN /\ setUp' \in BOOLEAN
      /\ (~cut' => ~cut /\ ~Writing(p)) /\ (~raced' => ~raced /\ ~Removing(p))
      /\ setUp' = setUp \/ (setUp' /\ merge[p].pc = "merged")
  BY DEF SetUpDone, Merged, LeaveCluster, NoHistory, ClusterInv, ClusterTypeOK, MergeAt, Writing,
     Removing
<1>2. /\ merge' \in [Clients -> MergeStates]
      /\ merge'[p].pc = "no" /\ \A q \in Clients \ {p} : merge'[q] = merge[q]
  BY <1>1 DEF ClusterInv, ClusterTypeOK, Idle
<1>3. \A q \in Clients : /\ Writing(q)' <=> Writing(q) /\ q # p
                         /\ Removing(q)' <=> Removing(q) /\ q # p
  BY <1>2 DEF Writing, Removing
<1>4. ClusterTypeOK'
  BY <1>1, <1>2 DEF ClusterInv, ClusterTypeOK
<1>5. ~cut' => RestKept'
  BY <1>1, <1>2, <1>3 DEF ClusterInv, RestKept, Merging
<1>6. ~raced' => RemovedAlone' /\ SameCerts'
  <2>1. ~raced' /\ merge[p].pc = "merged" => \A q \in Clients : ~Removing(q)
    BY <1>1 DEF ClusterInv, RemovedAlone, Removing
  <2>2. QED
    BY <1>1, <1>2, <1>3, <2>1 DEF ClusterInv, RemovedAlone, SameCerts, Merging
<1>7. ~raced' /\ ~cut' => MergedStays' /\ SetUpStays'
  BY <1>1, <1>2, <1>3 DEF ClusterInv, MergedStays, SetUpStays
<1>8. QED
  BY <1>4, <1>5, <1>6, <1>7 DEF ClusterInv

\* A removal begins when nobody else is at it, or is raced.
LEMMA KillServerKeeps ==
  ASSUME ClusterInv, NEW p \in Clients, KillServer(p)
  PROVE  ClusterInv'
<1>1. /\ UNCHANGED <<user, cut>> /\ setUp' = FALSE /\ merge[p].pc = "no"
      /\ kube' = [kube EXCEPT !.server = 0]
  BY DEF KillServer, MergeAt
<1>2. raced' \in BOOLEAN /\ (~raced' => ~raced /\ \A q \in Clients : merge[q].pc = "no")
  BY DEF KillServer, MergeAt
<1>3. /\ merge' \in [Clients -> MergeStates]
      /\ merge'[p].pc = "killed" /\ \A q \in Clients \ {p} : merge'[q] = merge[q]
  BY DEF KillServer, ClusterInv, ClusterTypeOK, Removings
<1>4. /\ kube' \in Kubes
      /\ kube'.server = 0 /\ kube'.data = kube.data /\ kube'.yaml = kube.yaml
  BY <1>1 DEF ClusterInv, ClusterTypeOK
<1>5. ClusterTypeOK'
  BY <1>1, <1>2, <1>3, <1>4 DEF ClusterInv, ClusterTypeOK
<1>6. ~cut => RestKept'
  BY <1>1, <1>3 DEF ClusterInv, RestKept, Merging, Writing
<1>7. ~raced' => RemovedAlone' /\ SameCerts'
  BY <1>1, <1>2, <1>3, <1>4 DEF ClusterInv, RemovedAlone, SameCerts, Merging, Removing
<1>8. ~raced' => MergedStays' /\ SetUpStays'
  BY <1>1, <1>2, <1>3 DEF MergedStays, SetUpStays
<1>9. QED
  BY <1>1, <1>5, <1>6, <1>7, <1>8 DEF ClusterInv

\* The rest of a removal: k3s.yaml goes before the data.
LEMMA RemoveKeeps ==
  ASSUME ClusterInv, NEW p \in Clients, RemoveYaml(p) \/ RemoveData(p) \/ RemoveBinary(p)
  PROVE  ClusterInv'
<1> DEFINE then == merge'[p].pc
<1>1. /\ UNCHANGED <<user, setUp, cut>> /\ raced' \in BOOLEAN /\ (~raced' => ~raced)
      /\ Removing(p)
  BY DEF RemoveYaml, RemoveData, RemoveBinary, Removed, MergeAt, Removing
<1>2. kube \in Kubes
  BY DEF ClusterInv, ClusterTypeOK
<1>3. /\ kube' \in Kubes /\ kube'.server = kube.server
      /\ kube'.yaml \in {0, kube.yaml} /\ kube'.data \in {0, kube.data}
      /\ ~raced' =>
           \/ merge[p].pc = "killed" /\ kube'.yaml = 0
           \/ merge[p].pc \in {"yaml removed", "data removed"} /\ kube'.yaml = kube.yaml
  <2>1. CASE RemoveYaml(p)
    <3>1. PICK done \in BOOLEAN : /\ kube' = [kube EXCEPT !.yaml = IF done THEN 0 ELSE @]
                                  /\ Removed(done)
      BY <2>1 DEF RemoveYaml
    <3>2. QED
      BY <2>1, <3>1, <1>2 DEF RemoveYaml, MergeAt, Removed
  <2>2. CASE RemoveData(p)
    <3>1. PICK done \in BOOLEAN : /\ kube' = [kube EXCEPT !.data = IF done THEN 0 ELSE @]
                                  /\ Removed(done)
      BY <2>2 DEF RemoveData
    <3>2. QED
      BY <2>2, <3>1, <1>2 DEF RemoveData, MergeAt, Removed
  <2>3. CASE RemoveBinary(p)
    <3>1. PICK done \in BOOLEAN : kube' = [kube EXCEPT !.bin = kube.bin /\ ~done]
      BY <2>3 DEF RemoveBinary
    <3>2. (kube.bin /\ ~done) \in BOOLEAN
      OBVIOUS
    <3>3. QED
      BY <2>3, <3>1, <3>2, <1>2 DEF RemoveBinary, MergeAt
  <2>4. QED
    BY <2>1, <2>2, <2>3
<1>4. /\ merge' \in [Clients -> MergeStates]
      /\ then \in {"yaml removed", "data removed", "no"}
      /\ \A q \in Clients \ {p} : merge'[q] = merge[q]
  <2>1. merge \in [Clients -> MergeStates]
    BY DEF ClusterInv, ClusterTypeOK
  <2>2. CASE RemoveYaml(p)
    BY <2>1, <2>2 DEF RemoveYaml, Removings
  <2>3. CASE RemoveData(p)
    BY <2>1, <2>3 DEF RemoveData, Removings
  <2>4. CASE RemoveBinary(p)
    BY <2>1, <2>4 DEF RemoveBinary, Idle
  <2>5. QED
    BY <2>2, <2>3, <2>4
<1>5. ClusterTypeOK'
  BY <1>1, <1>3, <1>4 DEF ClusterInv, ClusterTypeOK
<1>6. ~cut => RestKept'
  BY <1>1, <1>4 DEF ClusterInv, RestKept, Merging, Writing, Removing
<1>7. ~raced' => /\ kube'.yaml = 0 /\ kube'.server = 0 /\ ~setUp'
                 /\ \A q \in Clients \ {p} : merge'[q].pc = "no"
  <2>1. ~raced => /\ kube.server = 0 /\ ~setUp /\ \A q \in Clients \ {p} : merge[q].pc = "no"
                  /\ merge[p].pc # "killed" => kube.yaml = 0
    BY <1>1 DEF ClusterInv, RemovedAlone
  <2>2. QED
    BY <2>1, <1>1, <1>3, <1>4
<1>8. ~raced' => RemovedAlone' /\ SameCerts' /\ MergedStays' /\ SetUpStays'
  BY <1>4, <1>7 DEF RemovedAlone, SameCerts, MergedStays, SetUpStays, Merging, Removing
<1>9. QED
  BY <1>1, <1>5, <1>6, <1>8 DEF ClusterInv

LEMMA ClusterLosesPowerKeeps ==
  ASSUME ClusterInv, ClusterLosesPower
  PROVE  ClusterInv'
<1>1. /\ UNCHANGED <<user, setUp>> /\ merge' = [p \in Clients |-> Idle]
      /\ cut' \in BOOLEAN /\ (~cut' => ~cut /\ \A p \in Clients : ~Writing(p))
      /\ raced' \in BOOLEAN /\ (~raced' => ~raced /\ \A p \in Clients : ~Removing(p))
  BY DEF ClusterLosesPower
<1>2. /\ kube' \in Kubes
      /\ kube'.server = 0 /\ kube'.data = kube.data /\ kube'.yaml = kube.yaml
  BY DEF ClusterLosesPower, ClusterInv, ClusterTypeOK
<1>3. \A p \in Clients : merge'[p].pc = "no" /\ ~Removing(p)' /\ ~Writing(p)'
  BY <1>1 DEF Idle, Removing, Writing
<1>4. ClusterTypeOK'
  BY <1>1, <1>2 DEF ClusterInv, ClusterTypeOK, Idle
<1>5. ~cut' => RestKept'
  BY <1>1, <1>3 DEF ClusterInv, RestKept, Merging
<1>6. ~raced' => RemovedAlone' /\ SameCerts'
  BY <1>1, <1>2, <1>3 DEF ClusterInv, RemovedAlone, SameCerts, Merging
<1>7. ~raced' /\ ~cut' => MergedStays' /\ SetUpStays'
  BY <1>1, <1>2, <1>3 DEF ClusterInv, MergedStays, SetUpStays
<1>8. QED
  BY <1>4, <1>5, <1>6, <1>7 DEF ClusterInv

LEMMA ClusterInvNext == ClusterInv /\ [ClusterNext]_cluster => ClusterInv'
<1> SUFFICES ASSUME ClusterInv, [ClusterNext]_cluster PROVE ClusterInv'
  OBVIOUS
<1>1. CASE ServerStarts \/ ClusterLosesPower
  BY <1>1, ServerStartsKeeps, ClusterLosesPowerKeeps
<1>2. ASSUME NEW p \in Clients,
             \/ StopServer(p) \/ KeepServer(p) \/ InstallBinary(p) \/ InstallSudoers(p)
             \/ ReadConfigs(p) \/ TruncateConfig(p) \/ WriteConfig(p) \/ ReadUser(p)
             \/ SetUpDone(p) \/ Merged(p) \/ LeaveCluster(p)
             \/ KillServer(p) \/ RemoveYaml(p) \/ RemoveData(p) \/ RemoveBinary(p)
      PROVE  ClusterInv'
  BY <1>2, ServerKeeps, ReadConfigsKeeps, TruncateKeeps, WriteConfigKeeps, ReadUserKeeps,
     MergeOverKeeps, KillServerKeeps, RemoveKeeps
<1>3. CASE ServerWrites \/ ServerEnds
  BY <1>3, ServerKeeps
<1>4. CASE UNCHANGED cluster
  BY <1>4 DEF cluster, ClusterInv, ClusterTypeOK, RestKept, RemovedAlone, SameCerts,
     MergedStays, SetUpStays, Writing, Removing
<1>5. QED
  BY <1>1, <1>2, <1>3, <1>4 DEF ClusterNext

\* What is done with the cluster (addons/k3s) leaves a set-up that has succeeded good for
\* every later start, and the rest of the user's kubeconfig there.
THEOREM ClusterCorrect == ClusterSpec => [](ClusterTypeOK /\ SetUpSuffices)
<1>1. ClusterInv => ClusterTypeOK /\ SetUpSuffices
  BY DEF ClusterInv, SetUpSuffices, SetUpStays, SameCerts, RestKept
<1>2. QED
  BY <1>1, ClusterInvInit, ClusterInvNext, PTL DEF ClusterSpec

-----------------------------------------------------------------------------
(***************************************************************************)
(* The app.                                                                *)
(***************************************************************************)
GivenOK ==
  /\ scenario \in Scenarios
  /\ given \in [Procs -> [command : Commands \cup {NoCommand}, left : Seq(SUBSET Commands)]]

LEMMA StartupStep ==
  ASSUME Startup
  PROVE  UNCHANGED <<scenario, given, run>> /\ UNCHANGED settings /\ UNCHANGED cluster
BY DEF Startup, CheckNotInitialized, RegisterIfNeeded, CallOnce, AddTo, Demand, Initialize,
   InitializeAddon, AddonInitialized, AllInitialized, resolveStrategyOrder, LockCustomizations,
   Machine, settings, cluster

\* What a process does between the beginning and the end of a command.
Within(p) ==
  \/ ModeRefused(p) \/ ModeIs(p) \/ SetMode(p)
  \/ SaveWrites(p) \/ SaveSyncs(p) \/ SaveRenames(p)
  \/ K8sClient(p) \/ NoKubeConfig(p) \/ KubeConfig(p)
  \/ MergeReads(p) \/ MergeTruncates(p) \/ MergeWrites(p)
  \/ StopStack(p) \/ Gather(p) \/ BuildRoot(p) \/ StartInfra(p) \/ StartServices(p)
  \/ BuildServices(p) \/ BuildDirectory(p)
  \/ Install(p) \/ AllowSudo(p) \/ SetUpStarts(p) \/ SetUpWaited(p) \/ SetUpTimesOut(p)
  \/ SetUpEnds(p) \/ Uninstall(p) \/ RemoveCluster(p)

LEMMA WithinFrozen ==
  ASSUME NEW p \in Procs, Within(p)
  PROVE  UNCHANGED <<scenario, startup, given>>
BY DEF Within, ModeRefused, ModeIs, SetMode, SaveWrites, SaveSyncs, SaveRenames, K8sClient,
   NoKubeConfig, KubeConfig, MergeReads, MergeTruncates, MergeWrites, StopStack, Gather, BuildRoot,
   StartInfra, StartServices, BuildServices, BuildDirectory, Install, AllowSudo, SetUpStarts,
   SetUpWaited, SetUpTimesOut, SetUpEnds, Uninstall, RemoveCluster, OnlyRun, OnlySettings,
   OnlyCluster, Frozen

\* A command does to the configuration file what Settings has,
LEMMA WithinSettings ==
  ASSUME GivenOK, NEW p \in Procs, Within(p)
  PROVE  [SettingsNext]_settings
<1>1. CASE SetMode(p)
  <2>1. given[p].command.is = "config mode" /\ given[p].command \in Commands \cup {NoCommand}
    BY <1>1 DEF SetMode, Is, Arg, GivenOK
  <2>2. given[p].command.service \in Services /\ given[p].command.mode \in Modes
    <3>1. given[p].command \in [is : {"config mode"}, service : Services, mode : Modes]
      <4> DEFINE c == given[p].command
      <4>1. c \in [is : {"start"}] => c.is = "start"
        OBVIOUS
      <4>2. c \in [is : {"stop"}, infra : BOOLEAN] => c.is = "stop"
        OBVIOUS
      <4>3. c \in [is : {"build"}, services : SUBSET STRING] => c.is = "build"
        OBVIOUS
      <4>4. c \in [is : {"build"}, services : {{}}, root : STRING, strategy : STRING]
              => c.is = "build"
        OBVIOUS
      <4>5. c \in [is : {"bootstrap k3s"}, does : {"install", "setup", "uninstall"}]
              => c.is = "bootstrap k3s"
        OBVIOUS
      <4>6. c = NoCommand => c.is = "none"
        BY DEF NoCommand
      <4> HIDE DEF c
      <4>7. QED
        BY <2>1, <4>1, <4>2, <4>3, <4>4, <4>5, <4>6 DEF Commands, c
    <3>2. QED
      BY <3>1
  <2>3. QED
    BY <1>1, <2>2 DEF SetMode, Arg, SettingsNext
<1>2. CASE SaveWrites(p) \/ SaveSyncs(p) \/ SaveRenames(p)
  BY <1>2 DEF SaveWrites, SaveSyncs, SaveRenames, SettingsNext
<1>3. CASE ~(SetMode(p) \/ SaveWrites(p) \/ SaveSyncs(p) \/ SaveRenames(p))
  BY <1>3 DEF Within, ModeRefused, ModeIs, K8sClient, NoKubeConfig, KubeConfig, MergeReads,
     MergeTruncates, MergeWrites, StopStack, Gather, BuildRoot, StartInfra, StartServices,
     BuildServices, BuildDirectory, Install, AllowSudo, SetUpStarts, SetUpWaited, SetUpTimesOut,
     SetUpEnds, Uninstall, RemoveCluster, OnlyRun, OnlyCluster
<1>4. QED
  BY <1>1, <1>2, <1>3

\* and to the cluster what K3s has.
LEMMA WithinCluster ==
  ASSUME NEW p \in Procs, Within(p)
  PROVE  [ClusterNext]_cluster
<1>1. p \in Clients
  BY SameProcesses
<1>2. CASE \/ ModeRefused(p) \/ ModeIs(p) \/ SetMode(p)
           \/ SaveWrites(p) \/ SaveSyncs(p) \/ SaveRenames(p)
           \/ NoKubeConfig(p) \/ Gather(p) \/ BuildRoot(p) \/ StartServices(p)
           \/ BuildServices(p) \/ BuildDirectory(p) \/ SetUpWaited(p) \/ SetUpTimesOut(p)
  BY <1>2 DEF ModeRefused, ModeIs, SetMode, SaveWrites, SaveSyncs, SaveRenames, NoKubeConfig,
     Gather, BuildRoot, StartServices, BuildServices, BuildDirectory, SetUpWaited, SetUpTimesOut,
     OnlyRun, OnlySettings
<1>3. CASE \/ K8sClient(p) \/ KubeConfig(p) \/ MergeReads(p) \/ MergeTruncates(p)
           \/ MergeWrites(p) \/ StopStack(p) \/ StartInfra(p)
  BY <1>1, <1>3 DEF K8sClient, KubeConfig, MergeReads, MergeTruncates, MergeWrites, StopStack,
     StartInfra, ClusterNext
<1>4. CASE \/ Install(p) \/ AllowSudo(p) \/ SetUpStarts(p) \/ SetUpEnds(p) \/ Uninstall(p)
           \/ RemoveCluster(p)
  BY <1>1, <1>4 DEF Install, AllowSudo, SetUpStarts, SetUpEnds, Uninstall, RemoveCluster,
     ClusterNext
<1>5. QED
  BY <1>2, <1>3, <1>4 DEF Within

LEMMA AppStep ==
  ASSUME GivenOK, [Next]_vars
  PROVE  GivenOK' /\ [SettingsNext]_settings /\ [ClusterNext]_cluster
<1>1. CASE UNCHANGED vars
  BY <1>1 DEF vars, GivenOK
<1>2. CASE Startup
  BY <1>2, StartupStep DEF GivenOK
<1>3. CASE Server
  BY <1>3 DEF Server, OnlyCluster, Frozen, GivenOK, ClusterNext
<1>4. CASE PowerFails
  <2>1. GivenOK'
    BY <1>4 DEF PowerFails, GivenOK
  <2>2. QED
    BY <1>4, <2>1 DEF PowerFails, SettingsNext, ClusterNext
<1>5. ASSUME NEW p \in Procs, Begin(p)
      PROVE  GivenOK' /\ [SettingsNext]_settings /\ [ClusterNext]_cluster
  <2>1. given[p].left \in Seq(SUBSET Commands) /\ given[p].left # <<>>
    BY <1>5 DEF Begin, GivenOK
  <2>2. Head(given[p].left) \in SUBSET Commands /\ Tail(given[p].left) \in Seq(SUBSET Commands)
    BY <2>1
  <2>3. PICK c \in Head(given[p].left) :
          given' = [given EXCEPT ![p] = [command |-> c, left |-> Tail(given[p].left)]]
    BY <1>5 DEF Begin
  <2>4. GivenOK'
    BY <1>5, <2>2, <2>3 DEF Begin, GivenOK
  <2>5. QED
    BY <1>5, <2>4 DEF Begin, SettingsNext
<1>6. ASSUME NEW p \in Procs, Exit(p)
      PROVE  GivenOK' /\ [SettingsNext]_settings /\ [ClusterNext]_cluster
  <2>1. GivenOK'
    BY <1>6 DEF Exit, GivenOK
  <2>2. QED
    BY <1>6, <2>1, SameProcesses DEF Exit, SettingsNext, ClusterNext
<1>7. ASSUME NEW p \in Procs, Within(p)
      PROVE  GivenOK' /\ [SettingsNext]_settings /\ [ClusterNext]_cluster
  BY <1>7, WithinFrozen, WithinSettings, WithinCluster DEF GivenOK
<1>8. QED
  BY <1>1, <1>2, <1>3, <1>4, <1>5, <1>6, <1>7 DEF Next, Process, Within

\* An app, whatever its program and its commands (addons/stack/cmd.go, addons/k3s/addon.go),
\* does with the configuration file and with the cluster no more than the two
\* specifications allow.
THEOREM AppImplements == Spec => SettingsSpec /\ ClusterSpec
<1>1. Init => GivenOK /\ (\E c \in Contents : SettingsInit(c)) /\ ClusterInit
  <2> SUFFICES ASSUME Init
               PROVE  GivenOK /\ (\E c \in Contents : SettingsInit(c)) /\ ClusterInit
    OBVIOUS
  <2>1. scenario.content \in Contents /\ scenario.asks \in [Procs -> Seq(SUBSET Commands)]
    BY ScenariosAssumption DEF Init
  <2>2. QED
    BY <2>1 DEF Init, GivenOK
<1>2. GivenOK /\ [Next]_vars => GivenOK' /\ [SettingsNext]_settings /\ [ClusterNext]_cluster
  BY AppStep
<1>3. QED
  BY <1>1, <1>2, PTL DEF Spec, SettingsSpec, ClusterSpec

\* However commands of an app are interleaved, killed or cut short by a power failure, its
\* configuration file is whole and has the modes they have set.
THEOREM ModesAsSetCorrect == Spec => []ModesAsSet
BY AppImplements, SettingsCorrect, PTL

\* A set-up of the cluster that has succeeded is good for every later start of an app.
THEOREM SetUpSufficesCorrect == Spec => []SetUpSuffices
BY AppImplements, ClusterCorrect, PTL

-----------------------------------------------------------------------------
(***************************************************************************)
(* Builds.  A start has built, of what is to run from its source, all that *)
(* is not left to be built; and what is built is built by the strategy for *)
(* its repository: the first that says something comes before no other     *)
(* that supersedes it and says something.                                  *)
(***************************************************************************)
Covered(p, s) == \E x \in run[p].built : Covers(x, s)
LeftToBuild(p, s) == s.root \in DOMAIN run[p].dirs /\ s.dir \in run[p].dirs[s.root]

\* Nothing runs before the lock, and a build takes one step.
CommandsInv ==
  /\ \A p \in Procs : run[p].at # "off" => phase = "locked"
  /\ \A p \in Procs : Arg(p).is = "build" => run[p].at \in {"off", "command", "ended", "failed"}

RunOf(at, entries, dirs, built) ==
  [at |-> at, entries |-> entries, dirs |-> dirs, built |-> built]
RunShape ==
  /\ run = [p \in Procs |-> run[p]]
  /\ \A p \in Procs : \E at, entries, dirs, built : run[p] = RunOf(at, entries, dirs, built)

BuiltBy(p) ==
  /\ At(p, "build") /\ Hooked =>
       \A s \in LocalServices(p) : Covered(p, s) \/ LeftToBuild(p, s)
  /\ At(p, "infra") /\ Hooked => \A s \in LocalServices(p) : Covered(p, s)
  /\ At(p, "ended") /\ Arg(p).is = "build" =>
       \A n \in Arg(p).services : \A s \in Named(n) : There(s) => Covered(p, s)

BuiltInv == \A p \in Procs : BuiltBy(p)

\* There is a first of some places.
Less == {ss \in Nat \X Nat : ss[1] < ss[2]}

LEMMA FirstOf ==
  ASSUME NEW places \in SUBSET Nat, places # {}
  PROVE  Min(places) \in places /\ \A j \in places : Min(places) <= j
<1>1. IsWellFoundedOn(Less, Nat)
  BY NatLessThanWellFounded DEF OpToRel, Less
<1>2. PICK i \in places : \A j \in places : ~(<<j, i>> \in Less)
  BY <1>1, WFMin
<1>3. ASSUME NEW j \in places, j < i
      PROVE  FALSE
  <2>1. <<j, i>> \in Nat \X Nat /\ <<j, i>>[1] < <<j, i>>[2]
    BY <1>3
  <2>2. <<j, i>> \in Less
    BY <2>1, Zenon DEF Less
  <2> QED
    BY <1>2, <2>2
<1>4. i \in Nat /\ \A j \in places : j \in Nat /\ ~(j < i)
  BY <1>3
<1>5. \A j \in places : i <= j
  BY <1>4
<1> QED
  BY <1>5, Zenon DEF Min

\* npm and pnpm pass over a directory that is no workspace.
PassedOver(tool, d, repo) == tool \in {"npm", "pnpm"} /\ d \notin Workspaces(tool, repo)

\* What a detector finds is a builder of the repository.
LEMMA Detected ==
  ASSUME NEW n, NEW repo, Buildable(Detector(n, repo))
  PROVE  /\ Detector(n, repo).tool \in {"go", "mage", "npm", "pnpm", "rush"}
         /\ Detector(n, repo).repo = repo
<1>1. Detector(n, repo) \in
        {detectGoBuild(repo), detectMage(repo), detectNPM(repo), detectRush(repo), NoBuilder}
  BY DEF Detector
<1>2. /\ detectGoBuild(repo) \in {NoBuilder, Builder("go", repo)}
      /\ detectMage(repo) \in {NoBuilder, Builder("mage", repo)}
      /\ detectRush(repo) \in {NoBuilder, Error, Builder("rush", repo)}
  BY DEF detectGoBuild, detectMage, detectRush
<1>3. detectNPM(repo) \in {NoBuilder, Error, Builder("npm", repo), Builder("pnpm", repo)}
  BY DEF detectNPM
<1>4. \E tool \in {"go", "mage", "npm", "pnpm", "rush"} : Detector(n, repo) = Builder(tool, repo)
  BY <1>1, <1>2, <1>3 DEF Buildable
<1> QED
  BY <1>4 DEF Builder

\* The first strategy that says something is right, if they are in order.
LEMMA RightFound ==
  ASSUME InOrder(order, Strategies), NEW repo, Buildable(DetectStrategy(order, repo))
  PROVE  /\ Right(DetectStrategy(order, repo).tool, repo)
         /\ \E n : DetectStrategy(order, repo) = Detector(n, repo)
<1> DEFINE found == {i \in DOMAIN order : Detector(order[i], repo) # NoBuilder}
           first == Min(found)
<1>1. /\ DetectStrategy(order, repo) = IF found = {} THEN NoBuilder ELSE Detector(order[first], repo)
      /\ DetectStrategy(order, repo) # NoBuilder
  BY Zenon DEF DetectStrategy, Buildable
<1>2. found # {} /\ DetectStrategy(order, repo) = Detector(order[first], repo)
  BY <1>1, Zenon
<1>3. /\ order \in Seq(Names(Strategies)) /\ Names(Strategies) \subseteq ToSet(order)
      /\ \A i, j \in DOMAIN order : order[i] \in SupersededBy(Strategies, order[j]) => i < j
  BY Zenon DEF InOrder
<1>4. found \subseteq DOMAIN order /\ found \in SUBSET Nat
  BY <1>3
<1>5. first \in found /\ \A j \in found : first <= j
  BY <1>2, <1>4, FirstOf, Zenon
<1>6. order[first] \in Names(Strategies) /\ Detector(order[first], repo) # NoBuilder
  BY <1>3, <1>5
<1>7. ASSUME NEW s \in SupersededBy(Strategies, order[first])
      PROVE  Detector(s, repo) = NoBuilder
  <2>1. s \in Names(Strategies)
    BY Zenon DEF SupersededBy, Names
  <2>2. PICK i \in DOMAIN order : order[i] = s
    BY <1>3, <2>1, Zenon DEF ToSet
  <2>3. i < first /\ i \in Nat /\ first \in Nat
    BY <1>3, <1>4, <1>5, <2>2
  <2>4. i \notin found
    BY <1>5, <2>3
  <2> QED
    BY <2>2, <2>4
<1>8. Right(Detector(order[first], repo).tool, repo)
  BY <1>6, <1>7, Zenon DEF Right
<1> QED
  BY <1>2, <1>8, Zenon

\* Builders that do not refuse build what they are told to.
LEMMA BuildDirsCovers ==
  ASSUME NEW n, NEW repo, NEW b, b = Detector(n, repo), Buildable(b),
         NEW ds, NEW d \in ds, d = "." \/ d \in repo.dirs, BuildDirs(b, ds) # Refused
  PROVE  \/ d \in BuildDirs(b, ds)
         \/ d = "." /\ repo.dirs \subseteq BuildDirs(b, ds)
         \/ PassedOver(b.tool, d, repo)
<1>1. b.tool \in {"go", "mage", "npm", "pnpm", "rush"} /\ b.repo = repo
  BY Detected
<1>2. CASE b.tool = "go"
  BY <1>1, <1>2 DEF BuildDirs, goBuildDirs, BuildAll, All, Below
<1>3. CASE b.tool = "mage"
  BY <1>1, <1>3 DEF BuildDirs, BuildAll, All
<1>4. CASE b.tool \in {"npm", "pnpm"}
  BY <1>1, <1>4 DEF BuildDirs, npmBuildDirs, PassedOver
<1>5. CASE b.tool = "rush"
  BY <1>1, <1>5 DEF BuildDirs, rushBuildDirs
<1> QED
  BY <1>1, <1>2, <1>3, <1>4, <1>5

LEMMA HookCovers ==
  ASSUME NEW n, NEW repo, NEW b, b = Detector(n, repo), Buildable(b),
         NEW ds, NEW d \in ds, d = "." \/ d \in repo.dirs, HookBuild(b, ds) # Refused
  PROVE  \/ d \in HookBuild(b, ds)
         \/ d = "." /\ repo.dirs \subseteq HookBuild(b, ds)
         \/ PassedOver(b.tool, d, repo)
<1>1. b.repo = repo
  BY Detected
<1>2. CASE "" \in ds
  BY <1>1, <1>2 DEF HookBuild, BuildAll, All
<1>3. CASE "" \notin ds
  BY <1>3, BuildDirsCovers DEF HookBuild
<1> QED
  BY <1>2, <1>3

LEMMA ServicesCovers ==
  ASSUME NEW n, NEW repo, NEW b, b = Detector(n, repo), Buildable(b),
         NEW d, d = "." \/ d \in repo.dirs, ServicesBuild(b, {d}) # Refused
  PROVE  \/ d \in ServicesBuild(b, {d})
         \/ d = "." /\ repo.dirs \subseteq ServicesBuild(b, {d})
         \/ PassedOver(b.tool, d, repo)
<1>1. b.repo = repo
  BY Detected
<1>2. CASE d = "."
  BY <1>1, <1>2 DEF ServicesBuild, BuildAll, All
<1>3. CASE d # "."
  BY <1>3, BuildDirsCovers DEF ServicesBuild
<1> QED
  BY <1>2, <1>3

\* What is made of a root covers a service of it.
LEMMA MadeCovers ==
  ASSUME NEW s, There(s), NEW b, NEW ds, Right(b.tool, Repos[s.root]),
         \/ s.dir \in ds
         \/ s.dir = "." /\ Repos[s.root].dirs \subseteq ds
         \/ PassedOver(b.tool, s.dir, Repos[s.root])
  PROVE  Covers(Made(s.root, b, ds), s)
<1>1. /\ Made(s.root, b, ds).root = s.root /\ Made(s.root, b, ds).tool = b.tool
      /\ Made(s.root, b, ds).dirs = ds
  BY DEF Made
<1> QED
  BY <1>1, Zenon DEF Covers, PassedOver

\* What is at hand stays the same as long as nothing is added.
LEMMA SameBuilds ==
  ASSUME UNCHANGED <<scenario, added>>
  PROVE  /\ Hooked' <=> Hooked
         /\ \A n : Named(n)' = Named(n)
         /\ \A s : There(s)' <=> There(s)
         /\ \A x, s : Covers(x, s)' <=> Covers(x, s)
<1>1. Strategies' = Strategies /\ AllServices' = AllServices /\ (Hooked' <=> Hooked)
  BY DEF Strategies, AllServices, Hooked, Registered
<1>2. Repos' = Repos
  BY DEF Repos
<1> QED
  BY <1>1, <1>2 DEF Named, There, Covers, Right

LEMMA SameLocal ==
  ASSUME UNCHANGED <<scenario, added>>, NEW p \in Procs, conf'[p].modes = conf[p].modes
  PROVE  LocalServices(p)' = LocalServices(p)
<1>1. Registered("service")' = Registered("service")
  BY DEF Registered
<1>2. \A s : There(s)' <=> There(s)
  BY SameBuilds
<1> QED
  BY <1>1, <1>2 DEF LocalServices

\* How a step of a command changes where it is.
Becomes(p, at, dirs, built) ==
  /\ RunShape' /\ \A q \in Procs \ {p} : run'[q] = run[q]
  /\ run'[p].at = at /\ run'[p].dirs = dirs /\ run'[p].built = built

LEMMA RunBecomes ==
  ASSUME RunShape, NEW p \in Procs, NEW at, NEW entries, NEW dirs, NEW built,
         run' = [run EXCEPT ![p] = RunOf(at, entries, dirs, built)]
  PROVE  Becomes(p, at, dirs, built)
<1>1. run'[p] = RunOf(at, entries, dirs, built) /\ \A q \in Procs \ {p} : run'[q] = run[q]
  BY DEF RunShape
<1>2. run' = [q \in Procs |-> run'[q]]
  BY DEF RunShape
<1>3. RunShape'
  BY <1>1, <1>2 DEF RunShape
<1> QED
  BY <1>1, <1>3 DEF Becomes, RunOf

\* Its parts, and what comes of it as some are changed.
LEMMA RunIs ==
  ASSUME RunShape, NEW p \in Procs, NEW x, NEW y
  PROVE  /\ p \in DOMAIN run
         /\ [run[p] EXCEPT !.at = x] = RunOf(x, run[p].entries, run[p].dirs, run[p].built)
         /\ [run[p] EXCEPT !.entries = x] = RunOf(run[p].at, x, run[p].dirs, run[p].built)
         /\ [run[p] EXCEPT !.at = x, !.dirs = y] = RunOf(x, run[p].entries, y, run[p].built)
         /\ [run[p] EXCEPT !.at = x, !.entries = y] = RunOf(x, y, run[p].dirs, run[p].built)
<1>1. PICK at, entries, dirs, built : run[p] = RunOf(at, entries, dirs, built)
  BY DEF RunShape
<1>2. run[p].at = at /\ run[p].entries = entries /\ run[p].dirs = dirs /\ run[p].built = built
  BY <1>1 DEF RunOf
<1> DEFINE start == RunOf(at, entries, dirs, built)
<1>3. /\ [start EXCEPT !.at = x] = RunOf(x, entries, dirs, built)
      /\ [start EXCEPT !.entries = x] = RunOf(at, x, dirs, built)
  BY DEF RunOf
<1>4. /\ [RunOf(x, entries, dirs, built) EXCEPT !.dirs = y] = RunOf(x, entries, y, built)
      /\ [RunOf(x, entries, dirs, built) EXCEPT !.entries = y] = RunOf(x, y, dirs, built)
  BY DEF RunOf
<1>5. p \in DOMAIN run
  BY DEF RunShape
<1>6. /\ [run[p] EXCEPT !.at = x] = RunOf(x, entries, dirs, built)
      /\ [run[p] EXCEPT !.entries = x] = RunOf(at, x, dirs, built)
      /\ [run[p] EXCEPT !.at = x, !.dirs = y] = RunOf(x, entries, y, built)
      /\ [run[p] EXCEPT !.at = x, !.entries = y] = RunOf(x, y, dirs, built)
  BY <1>1, <1>3, <1>4
<1> QED
  BY <1>2, <1>5, <1>6, Zenon

LEMMA RunGoes ==
  ASSUME RunShape, NEW p \in Procs, NEW at, Go(p, at)
  PROVE  Becomes(p, at, run[p].dirs, run[p].built)
<1>1. [run[p] EXCEPT !.at = at] = RunOf(at, run[p].entries, run[p].dirs, run[p].built)
  BY RunIs
<1> QED
  BY <1>1, RunBecomes DEF Go

LEMMA RunGets ==
  ASSUME RunShape, NEW p \in Procs, NEW e, Got(p, e)
  PROVE  Becomes(p, run[p].at, run[p].dirs, run[p].built)
<1>1. [run[p] EXCEPT !.entries = run[p].entries \ {e}]
        = RunOf(run[p].at, run[p].entries \ {e}, run[p].dirs, run[p].built)
  BY RunIs
<1> QED
  BY <1>1, RunBecomes DEF Got

LEMMA RunGathers ==
  ASSUME RunShape, NEW p \in Procs, NEW at, NEW dirs,
         run' = [run EXCEPT ![p].at = at, ![p].dirs = dirs]
  PROVE  Becomes(p, at, dirs, run[p].built)
<1>1. [run[p] EXCEPT !.at = at, !.dirs = dirs] = RunOf(at, run[p].entries, dirs, run[p].built)
  BY RunIs
<1>2. run' = [run EXCEPT ![p] = [run[p] EXCEPT !.at = at, !.dirs = dirs]]
  BY RunIs
<1> QED
  BY <1>1, <1>2, RunBecomes

LEMMA RunBuilds ==
  ASSUME RunShape, NEW p \in Procs, NEW at, NEW built,
         run' = [run EXCEPT ![p].at = at, ![p].built = built]
  PROVE  Becomes(p, at, run[p].dirs, built)
<1>1. [run[p] EXCEPT !.at = at, !.built = built] = RunOf(at, run[p].entries, run[p].dirs, built)
  <2>1. [run[p] EXCEPT !.at = at] = RunOf(at, run[p].entries, run[p].dirs, run[p].built)
    BY RunIs
  <2>2. [RunOf(at, run[p].entries, run[p].dirs, run[p].built) EXCEPT !.built = built]
          = RunOf(at, run[p].entries, run[p].dirs, built)
    BY DEF RunOf
  <2> QED
    BY <2>1, <2>2
<1>2. run' = [run EXCEPT ![p] = [run[p] EXCEPT !.at = at, !.built = built]]
  BY RunIs
<1> QED
  BY <1>1, <1>2, RunBecomes

LEMMA RunBuildsRoot ==
  ASSUME RunShape, NEW p \in Procs, NEW r, NEW new,
         run' = [run EXCEPT ![p].built = @ \cup {new},
                            ![p].dirs = [q \in DOMAIN @ \ {r} |-> @[q]]]
  PROVE  Becomes(p, run[p].at, [q \in DOMAIN run[p].dirs \ {r} |-> run[p].dirs[q]],
                 run[p].built \cup {new})
<1> DEFINE dirs == [q \in DOMAIN run[p].dirs \ {r} |-> run[p].dirs[q]]
           built == run[p].built \cup {new}
<1>1. [run[p] EXCEPT !.built = built, !.dirs = dirs]
        = RunOf(run[p].at, run[p].entries, dirs, built)
  <2> HIDE DEF dirs, built
  <2>1. PICK at, entries, dirs0, built0 : run[p] = RunOf(at, entries, dirs0, built0)
    BY DEF RunShape
  <2>2. run[p].at = at /\ run[p].entries = entries
    BY <2>1 DEF RunOf
  <2>3. [RunOf(at, entries, dirs0, built0) EXCEPT !.built = built] = RunOf(at, entries, dirs0, built)
    BY DEF RunOf
  <2>4. [RunOf(at, entries, dirs0, built) EXCEPT !.dirs = dirs] = RunOf(at, entries, dirs, built)
    BY DEF RunOf
  <2> QED
    BY <2>1, <2>2, <2>3, <2>4
<1>2. run' = [run EXCEPT ![p] = [run[p] EXCEPT !.built = built, !.dirs = dirs]]
  BY RunIs, Zenon
<1> QED
  BY <1>1, <1>2, RunBecomes

LEMMA RunBegins ==
  ASSUME RunShape, NEW p \in Procs, NEW at, NEW entries,
         run' = [run EXCEPT ![p].at = at, ![p].entries = entries]
  PROVE  Becomes(p, at, run[p].dirs, run[p].built)
<1>1. [run[p] EXCEPT !.at = at, !.entries = entries] = RunOf(at, entries, run[p].dirs, run[p].built)
  BY RunIs
<1>2. run' = [run EXCEPT ![p] = [run[p] EXCEPT !.at = at, !.entries = entries]]
  BY RunIs
<1> QED
  BY <1>1, <1>2, RunBecomes


\* A step of a command is one of a build or of a start, or is of neither.
LEMMA WithinRun ==
  ASSUME RunShape, NEW p \in Procs, Within(p)
  PROVE  /\ RunShape' /\ \A q \in Procs \ {p} : run'[q] = run[q]
         /\ run[p].at # "off" /\ run'[p].at # "off"
         /\ \/ BuildServices(p) \/ BuildDirectory(p) \/ Gather(p) \/ BuildRoot(p) \/ StartInfra(p)
            \/ run'[p] = run[p]
            \/ run'[p].at \notin {"build", "infra"}
<1>0. \A c \in {"config mode", "start", "stop", "build", "bootstrap k3s"} :
        Begins[c] \notin {"off", "build", "infra"}
  BY DEF Begins
<1>1. ASSUME NEW at, Go(p, at), at \notin {"off", "build", "infra"}
      PROVE  /\ RunShape' /\ \A q \in Procs \ {p} : run'[q] = run[q]
             /\ run'[p].at \notin {"off", "build", "infra"}
  BY <1>1, RunGoes DEF Becomes
<1>2. ASSUME NEW e, Got(p, e), At(p, "context")
      PROVE  /\ RunShape' /\ \A q \in Procs \ {p} : run'[q] = run[q]
             /\ run'[p].at \notin {"off", "build", "infra"}
  BY <1>2, RunGets DEF Becomes, At
<1>3. CASE ModeRefused(p) \/ ModeIs(p) \/ SetMode(p)
  BY <1>0, <1>1, <1>3 DEF ModeRefused, ModeIs, SetMode, Is, At
<1>4. CASE SaveWrites(p) \/ SaveSyncs(p) \/ SaveRenames(p)
  BY <1>1, <1>4 DEF SaveWrites, SaveSyncs, SaveRenames, At, RunShape
<1>5. CASE K8sClient(p) \/ NoKubeConfig(p) \/ KubeConfig(p)
  BY <1>1, <1>2, <1>5 DEF K8sClient, NoKubeConfig, KubeConfig, InContext, At
<1>6. CASE MergeReads(p) \/ MergeTruncates(p) \/ MergeWrites(p)
  BY <1>6 DEF MergeReads, MergeTruncates, MergeWrites, Merges, InContext, At, RunShape
<1>7. CASE StopStack(p) \/ StartServices(p)
  BY <1>0, <1>1, <1>7 DEF StopStack, StartServices, HasContext, Is, At
<1>8. CASE StartInfra(p)
  BY <1>8, RunGoes DEF StartInfra, At, Becomes
<1>9. CASE Gather(p)
  <2>1. run[p].at # "off"
    BY <1>0, <1>9 DEF Gather, HasContext, Is, At
  <2>2. \E dirs : run' = [run EXCEPT ![p].at = "build", ![p].dirs = dirs]
    BY <1>9, Zenon DEF Gather
  <2>3. \E dirs : Becomes(p, "build", dirs, run[p].built)
    BY <2>2, RunGathers
  <2> QED
    BY <1>9, <2>1, <2>3 DEF Becomes
<1>10. CASE BuildRoot(p)
  BY <1>1, <1>10, RunBuildsRoot DEF BuildRoot, At, Becomes
<1>11. CASE BuildServices(p)
  <2>1. run[p].at # "off"
    BY <1>0, <1>11 DEF BuildServices, Is, At
  <2>2. Go(p, "failed") \/ \E built : run' = [run EXCEPT ![p].at = "ended", ![p].built = built]
    BY <1>11, Zenon DEF BuildServices
  <2>3. Go(p, "failed") \/ \E built : Becomes(p, "ended", run[p].dirs, built)
    BY <2>2, RunBuilds
  <2> QED
    BY <1>1, <1>11, <2>1, <2>3 DEF Becomes
<1>12. CASE BuildDirectory(p)
  <2>1. run[p].at # "off"
    BY <1>0, <1>12 DEF BuildDirectory, Is, At
  <2>2. Go(p, "failed") \/ \E built : run' = [run EXCEPT ![p].at = "ended", ![p].built = built]
    BY <1>12, Zenon DEF BuildDirectory
  <2>3. Go(p, "failed") \/ \E built : Becomes(p, "ended", run[p].dirs, built)
    BY <2>2, RunBuilds
  <2> QED
    BY <1>1, <1>12, <2>1, <2>3 DEF Becomes
<1>13. CASE Install(p) \/ AllowSudo(p) \/ SetUpStarts(p) \/ SetUpWaited(p) \/ SetUpTimesOut(p)
  BY <1>0, <1>1, <1>13 DEF Install, AllowSudo, SetUpStarts, SetUpWaited, SetUpTimesOut, OnCluster,
     Is, At
<1>14. CASE SetUpEnds(p) \/ Uninstall(p)
  BY <1>0, <1>1, <1>14 DEF SetUpEnds, Uninstall, OnCluster, Is, At
<1>15. CASE RemoveCluster(p)
  <2>1. run[p].at = "removing" /\ (Go(p, "ended") \/ run' = run)
    BY <1>15 DEF RemoveCluster, At
  <2> QED
    BY <1>1, <2>1 DEF RunShape
<1> QED
  BY <1>3, <1>4, <1>5, <1>6, <1>7, <1>8, <1>9, <1>10, <1>11, <1>12, <1>13, <1>14,
     <1>15 DEF Within

\* The command of a process is no build, but for the steps of a build.
LEMMA NoBuild ==
  ASSUME NEW p \in Procs, Within(p), ~BuildServices(p), ~BuildDirectory(p),
         Arg(p).is = "build" => run[p].at \in {"off", "command", "ended", "failed"}
  PROVE  Arg(p).is # "build"
BY DEF Within, ModeRefused, ModeIs, SetMode, SaveWrites, SaveSyncs, SaveRenames, K8sClient,
   NoKubeConfig, KubeConfig, MergeReads, MergeTruncates, MergeWrites, Merges, InContext, StopStack,
   HasContext, Gather, BuildRoot, StartInfra, StartServices, Install, AllowSudo, SetUpStarts,
   SetUpWaited, SetUpTimesOut, SetUpEnds, Uninstall, RemoveCluster, OnCluster, Is, At

\* A step of a command leaves the modes of others alone, and its own where it builds.
LEMMA WithinConf ==
  ASSUME SettingsTypeOK, RunShape, NEW p \in Procs, Within(p)
  PROVE  /\ \A q \in Procs \ {p} : conf'[q].modes = conf[q].modes
         /\ run'[p].at \in {"build", "infra"} => conf'[p].modes = conf[p].modes
<1>1. CASE SetMode(p)
  <2>1. run'[p].at = "saving"
    BY <1>1, RunGoes DEF SetMode, Becomes
  <2>2. PICK s, m : Create(p, s, m)
    BY <1>1 DEF SetMode
  <2>3. \A q \in Procs \ {p} : conf'[q] = conf[q]
    BY <2>2 DEF Create, SettingsTypeOK
  <2> QED
    BY <2>1, <2>3
<1>2. CASE SaveWrites(p) \/ SaveSyncs(p) \/ SaveRenames(p)
  <2>1. run'[p].at \notin {"build", "infra"}
    BY <1>2, RunGoes DEF SaveWrites, SaveSyncs, SaveRenames, At, Becomes
  <2>2. ASSUME Rename(p), NEW q \in Procs \ {p}
        PROVE  conf'[q].modes = conf[q].modes
    BY <2>2 DEF Rename, SettingsTypeOK, Confs
  <2>3. ASSUME Write(p) \/ Sync(p) \/ RenameFails(p), NEW q \in Procs \ {p}
        PROVE  conf'[q] = conf[q]
    BY <2>3 DEF Write, Sync, RenameFails, SettingsTypeOK
  <2> QED
    BY <1>2, <2>1, <2>2, <2>3 DEF SaveWrites, SaveSyncs, SaveRenames
<1>3. CASE ~(SetMode(p) \/ SaveWrites(p) \/ SaveSyncs(p) \/ SaveRenames(p))
  <2>1. UNCHANGED settings
    BY <1>3 DEF Within, ModeRefused, ModeIs, K8sClient, NoKubeConfig, KubeConfig, MergeReads,
       MergeTruncates, MergeWrites, StopStack, Gather, BuildRoot, StartInfra, StartServices,
       BuildServices, BuildDirectory, Install, AllowSudo, SetUpStarts, SetUpWaited, SetUpTimesOut,
       SetUpEnds, Uninstall, RemoveCluster, OnlyRun, OnlyCluster
  <2> QED
    BY <2>1 DEF settings
<1> QED
  BY <1>1, <1>2, <1>3

\* Where nothing changes, what was built stays built.
LEMMA SameBuilt ==
  ASSUME UNCHANGED <<scenario, added>>, NEW p \in Procs, BuiltBy(p),
         run'[p] = run[p], Arg(p)' = Arg(p),
         At(p, "build") \/ At(p, "infra") => conf'[p].modes = conf[p].modes
  PROVE  BuiltBy(p)'
<1>1. /\ Hooked' <=> Hooked
      /\ \A n : Named(n)' = Named(n)
      /\ \A s : There(s)' <=> There(s)
      /\ \A s : Covered(p, s)' <=> Covered(p, s)
      /\ \A s : LeftToBuild(p, s)' <=> LeftToBuild(p, s)
  BY SameBuilds DEF Covered, LeftToBuild
<1>2. /\ \A at : At(p, at)' <=> At(p, at)
      /\ Arg(p)' = Arg(p)
  BY DEF At, Arg
<1>3. At(p, "build") \/ At(p, "infra") => LocalServices(p)' = LocalServices(p)
  BY SameLocal
<1> QED
  BY <1>1, <1>2, <1>3 DEF BuiltBy

\* The services there are to build, and those of a root.
LEMMA GatherKeeps ==
  ASSUME RunShape, NEW p \in Procs, Gather(p)
  PROVE  BuiltBy(p)'
<1> DEFINE dirs == [r \in {s.root : s \in {t \in LocalServices(p) : Hooked}} |->
                      {s.dir : s \in {t \in LocalServices(p) : t.root = r}}]
<1>1. Becomes(p, "build", dirs, run[p].built) /\ UNCHANGED <<scenario, startup, given, settings>>
  BY RunGathers, Zenon DEF Gather, OnlyRun, Frozen
<1>2. LocalServices(p)' = LocalServices(p) /\ (Hooked' <=> Hooked)
  BY <1>1, SameLocal, SameBuilds DEF startup, settings
<1>3. run'[p].at = "build" /\ run'[p].dirs = dirs
  BY <1>1 DEF Becomes
<1>4. ASSUME Hooked, NEW s \in LocalServices(p)
      PROVE  s.root \in DOMAIN dirs /\ s.dir \in dirs[s.root]
  BY <1>4
<1> HIDE DEF dirs
<1>5. Hooked' => \A s \in LocalServices(p)' : LeftToBuild(p, s)'
  BY <1>2, <1>3, <1>4 DEF LeftToBuild
<1> QED
  BY <1>3, <1>5 DEF BuiltBy, At

\* What a root is built for is covered, and the rest is still to be built.
LEMMA BuildRootKeeps ==
  ASSUME RunShape, InOrder(order, Strategies), NEW p \in Procs, BuiltBy(p), BuildRoot(p)
  PROVE  BuiltBy(p)'
<1>1. UNCHANGED <<scenario, added, given, conf>> /\ At(p, "build")
  BY DEF BuildRoot, OnlyRun, Frozen, startup, settings
<1>2. CASE Go(p, "failed")
  <2>1. run'[p].at = "failed"
    BY <1>2, RunGoes DEF Becomes
  <2> QED
    BY <2>1 DEF BuiltBy, At
<1>3. CASE ~Go(p, "failed")
  <2>1. PICK r \in DOMAIN run[p].dirs :
          LET b  == DetectStrategy(order, Repos[r])
              ds == HookBuild(b, run[p].dirs[r]) IN
          /\ Buildable(b) /\ ds # Refused
          /\ run' = [run EXCEPT ![p].built = @ \cup {Made(r, b, ds)},
                                ![p].dirs = [q \in DOMAIN @ \ {r} |-> @[q]]]
    BY <1>3, Zenon DEF BuildRoot
  <2> DEFINE b  == DetectStrategy(order, Repos[r])
             ds == HookBuild(b, run[p].dirs[r])
             new == Made(r, b, ds)
  <2>2. /\ Right(b.tool, Repos[r]) /\ Buildable(b) /\ ds # Refused
        /\ \E n : b = Detector(n, Repos[r])
    BY <2>1, RightFound
  <2>3. Becomes(p, run[p].at, [q \in DOMAIN run[p].dirs \ {r} |-> run[p].dirs[q]],
                run[p].built \cup {new})
    BY <2>1, RunBuildsRoot
  <2>4. ASSUME NEW s, There(s), LeftToBuild(p, s), s.root = r
        PROVE  Covers(new, s)
    <3>1. s.dir \in run[p].dirs[r] /\ (s.dir = "." \/ s.dir \in Repos[r].dirs)
      BY <2>4 DEF There, LeftToBuild
    <3>2. \/ s.dir \in ds
          \/ s.dir = "." /\ Repos[r].dirs \subseteq ds
          \/ PassedOver(b.tool, s.dir, Repos[r])
      <4> HIDE DEF b
      <4> QED
        BY <2>2, <3>1, HookCovers
    <3> HIDE DEF b, ds
    <3> QED
      BY <2>2, <2>4, <3>2, MadeCovers
  <2> HIDE DEF new, b, ds
  <2>5. /\ run'[p].at = "build" /\ run'[p].built = run[p].built \cup {new}
        /\ DOMAIN run'[p].dirs = DOMAIN run[p].dirs \ {r}
        /\ \A q \in DOMAIN run'[p].dirs : run'[p].dirs[q] = run[p].dirs[q]
    BY <1>1, <2>3 DEF Becomes, At
  <2>6. LocalServices(p)' = LocalServices(p) /\ (Hooked' <=> Hooked)
    BY <1>1, SameLocal, SameBuilds
  <2>7. \A x, s : Covers(x, s)' <=> Covers(x, s)
    BY <1>1, SameBuilds
  <2>8. ASSUME Hooked, NEW s \in LocalServices(p)
        PROVE  Covered(p, s)' \/ LeftToBuild(p, s)'
    <3>1. There(s)
      BY DEF LocalServices
    <3>2. Covered(p, s) \/ LeftToBuild(p, s)
      BY <1>1, <2>8 DEF BuiltBy
    <3>3. CASE Covered(p, s)
      BY <2>5, <2>7, <3>3 DEF Covered
    <3>4. CASE LeftToBuild(p, s) /\ s.root = r
      BY <2>4, <2>5, <2>7, <3>1, <3>4 DEF Covered
    <3>5. CASE LeftToBuild(p, s) /\ s.root # r
      BY <2>5, <3>5 DEF LeftToBuild
    <3> QED
      BY <3>2, <3>3, <3>4, <3>5
  <2> QED
    BY <2>5, <2>6, <2>8 DEF BuiltBy, At
<1> QED
  BY <1>2, <1>3

\* A build of services makes each of them, or fails.
LEMMA BuildServicesKeeps ==
  ASSUME RunShape, InOrder(order, Strategies), NEW p \in Procs, BuildServices(p)
  PROVE  BuiltBy(p)'
<1>1. UNCHANGED <<scenario, added, given>>
  BY DEF BuildServices, OnlyRun, Frozen, startup
<1>2. CASE Go(p, "failed")
  <2>1. run'[p].at = "failed"
    BY <1>2, RunGoes DEF Becomes
  <2> QED
    BY <2>1 DEF BuiltBy, At
<1>3. CASE ~Go(p, "failed")
  <2> DEFINE names == Arg(p).services
             svcs  == UNION {Named(n) : n \in names}
             b(s)  == DetectStrategy(order, RootRepo(s.root))
             ds(s) == ServicesBuild(b(s), {s.dir})
             built == {Made(s.root, b(s), ds(s)) : s \in svcs}
  <2>1. /\ \A s \in svcs : Buildable(b(s)) /\ ds(s) # Refused
        /\ run' = [run EXCEPT ![p].at = "ended", ![p].built = built]
    BY <1>3, Zenon DEF BuildServices
  <2>2. Becomes(p, "ended", run[p].dirs, built)
    BY <2>1, RunBuilds
  <2>3. ASSUME NEW n \in names, NEW s \in Named(n), There(s)
        PROVE  \E x \in built : Covers(x, s)
    <3>1. s \in svcs /\ Made(s.root, b(s), ds(s)) \in built
      BY <2>3
    <3>2. RootRepo(s.root) = Repos[s.root] /\ (s.dir = "." \/ s.dir \in Repos[s.root].dirs)
      BY <2>3 DEF RootRepo, There
    <3>3. /\ Right(b(s).tool, Repos[s.root]) /\ Buildable(b(s)) /\ ds(s) # Refused
          /\ \E m : b(s) = Detector(m, Repos[s.root])
      BY <2>1, <3>1, <3>2, RightFound
    <3> HIDE DEF b, built
    <3>4. \/ s.dir \in ds(s)
          \/ s.dir = "." /\ Repos[s.root].dirs \subseteq ds(s)
          \/ PassedOver(b(s).tool, s.dir, Repos[s.root])
      BY <3>2, <3>3, ServicesCovers
    <3> HIDE DEF ds
    <3>5. Covers(Made(s.root, b(s), ds(s)), s)
      BY <2>3, <3>3, <3>4, MadeCovers
    <3> QED
      BY <3>1, <3>5
  <2> HIDE DEF built
  <2>4. run'[p].at = "ended" /\ run'[p].built = built
    BY <2>2 DEF Becomes
  <2>5. /\ Arg(p)' = Arg(p) /\ \A n : Named(n)' = Named(n)
        /\ \A s : There(s)' <=> There(s)
        /\ \A x, s : Covers(x, s)' <=> Covers(x, s)
    BY <1>1, SameBuilds DEF Arg
  <2>6. \A n \in Arg(p)'.services : \A s \in Named(n)' : There(s)' => Covered(p, s)'
    BY <2>3, <2>4, <2>5 DEF Covered
  <2> QED
    BY <2>4, <2>6 DEF BuiltBy, At
<1> QED
  BY <1>2, <1>3

LEMMA WithinBuilt ==
  ASSUME SettingsTypeOK, RunShape, CommandsInv, InOrder(order, Strategies), BuiltInv,
         NEW p \in Procs, Within(p)
  PROVE  BuiltInv'
<1>1. UNCHANGED <<scenario, added, given>> /\ RunShape'
  BY WithinFrozen, WithinRun DEF startup
<1>2. ASSUME NEW q \in Procs \ {p}
      PROVE  BuiltBy(q)'
  <2>1. /\ run'[q] = run[q] /\ conf'[q].modes = conf[q].modes
        /\ Arg(q)' = Arg(q) /\ BuiltBy(q)
    BY <1>1, <1>2, WithinRun, WithinConf DEF BuiltInv, Arg
  <2> QED
    BY <1>1, <2>1, SameBuilt
<1>3. BuiltBy(p)'
  <2>1. CASE BuildServices(p)
    BY <2>1, BuildServicesKeeps
  <2>2. CASE BuildDirectory(p)
    <3>1. /\ Arg(p)' = Arg(p) /\ Arg(p).services = {}
          /\ \E built : Go(p, "failed") \/ run' = [run EXCEPT ![p].at = "ended", ![p].built = built]
      BY <1>1, <2>2, Zenon DEF BuildDirectory, Arg
    <3>2. run'[p].at \in {"failed", "ended"}
      BY <3>1, RunGoes, RunBuilds DEF Becomes
    <3> QED
      BY <3>1, <3>2 DEF BuiltBy, At
  <2>3. CASE Gather(p)
    BY <2>3, GatherKeeps
  <2>4. CASE BuildRoot(p)
    BY <2>4, BuildRootKeeps DEF BuiltInv
  <2>5. CASE ~BuildServices(p) /\ ~BuildDirectory(p) /\ ~Gather(p) /\ ~BuildRoot(p)
    <3>1. Arg(p).is # "build" /\ Arg(p)' = Arg(p)
      BY <1>1, <2>5, NoBuild DEF CommandsInv, Arg
    <3>2. CASE StartInfra(p)
      <4>1. /\ run'[p].at = "infra" /\ run'[p].built = run[p].built
            /\ At(p, "build") /\ run[p].dirs = <<>> /\ conf' = conf
        BY <3>2, RunGoes DEF StartInfra, Becomes, OnlyCluster, settings
      <4>2. \A s : ~LeftToBuild(p, s)
        BY <4>1 DEF LeftToBuild
      <4>3. LocalServices(p)' = LocalServices(p) /\ (Hooked' <=> Hooked)
            /\ \A s : Covered(p, s)' <=> Covered(p, s)
        BY <1>1, <4>1, SameLocal, SameBuilds DEF Covered
      <4> QED
        BY <4>1, <4>2, <4>3 DEF BuiltBy, BuiltInv, At
    <3>3. CASE run'[p] = run[p]
      <4>1. BuiltBy(p) /\ (At(p, "build") \/ At(p, "infra") => conf'[p].modes = conf[p].modes)
        BY <3>3, WithinConf DEF BuiltInv, At
      <4> QED
        BY <1>1, <3>1, <3>3, <4>1, SameBuilt
    <3>4. CASE run'[p].at \notin {"build", "infra"}
      BY <3>1, <3>4 DEF BuiltBy, At
    <3> QED
      BY <2>5, <3>2, <3>3, <3>4, WithinRun
  <2> QED
    BY <2>1, <2>2, <2>3, <2>4, <2>5
<1> QED
  BY <1>2, <1>3 DEF BuiltInv

AppInv ==
  /\ RunShape /\ CommandsInv
  /\ StrategiesInOrder => BuiltInv

LEMMA AppInvNext ==
  ASSUME GivenOK, SettingsTypeOK, AppInv, [Next]_vars
  PROVE  AppInv'
<1>1. CASE UNCHANGED vars
  <2>1. BuiltInv => BuiltInv'
    BY <1>1, SameBuilt DEF vars, startup, settings, BuiltInv, Arg
  <2> QED
    BY <1>1, <2>1 DEF vars, startup, AppInv, RunShape, CommandsInv, StrategiesInOrder, InOrder,
       Strategies, Registered, Arg
<1>2. CASE Startup
  <2>1. phase = "starting" /\ UNCHANGED <<given, run>>
    BY <1>2, StartupStep DEF Startup, CheckNotInitialized, RegisterIfNeeded, CallOnce, AddTo, Demand,
       Initialize, InitializeAddon, AddonInitialized, AllInitialized, resolveStrategyOrder,
       LockCustomizations, Next1
  <2>2. \A p \in Procs : run[p].at = "off"
    BY <2>1 DEF AppInv, CommandsInv
  <2> QED
    BY <2>1, <2>2 DEF AppInv, RunShape, CommandsInv, BuiltInv, BuiltBy, At, Arg
<1>3. CASE Server
  <2>1. UNCHANGED <<scenario, startup, given, run, settings>>
    BY <1>3 DEF Server, OnlyCluster, Frozen
  <2>2. BuiltInv => BuiltInv'
    BY <2>1, SameBuilt DEF startup, settings, BuiltInv, Arg
  <2> QED
    BY <2>1, <2>2 DEF startup, AppInv, RunShape, CommandsInv, StrategiesInOrder, InOrder,
       Strategies, Registered, Arg
<1>4. CASE PowerFails
  <2>1. run' = [p \in Procs |-> NotRunning]
    BY <1>4 DEF PowerFails
  <2>2. RunShape' /\ \A p \in Procs : run'[p].at = "off"
    BY <2>1 DEF RunShape, NotRunning, RunOf
  <2> QED
    BY <2>2 DEF AppInv, CommandsInv, BuiltInv, BuiltBy, At
<1>5. ASSUME NEW p \in Procs, Begin(p)
      PROVE  AppInv'
  <2>1. PICK c \in Head(given[p].left) :
          /\ given' = [given EXCEPT ![p] = [command |-> c, left |-> Tail(given[p].left)]]
          /\ run' = [run EXCEPT ![p].at = Begins[c.is], ![p].entries = Entries]
    BY <1>5 DEF Begin
  <2>2. phase = "locked" /\ given[p].left # <<>> /\ UNCHANGED <<scenario, startup>> /\ Load(p)
    BY <1>5 DEF Begin
  <2>3. c \in Commands
    <3>1. Head(given[p].left) \in SUBSET Commands
      BY <2>2 DEF GivenOK
    <3> QED
      BY <3>1
  <2>4. c.is \in {"config mode", "start", "stop", "build", "bootstrap k3s"}
    BY <2>3 DEF Commands
  <2>5. /\ Begins[c.is] \notin {"build", "infra", "ended", "off"}
        /\ c.is = "build" => Begins[c.is] = "command"
    BY <2>4 DEF Begins
  <2>6. RunShape' /\ run'[p].at = Begins[c.is] /\ \A q \in Procs \ {p} : run'[q] = run[q]
    BY <2>1, RunBegins DEF AppInv, Becomes
  <2>7. Arg(p)' = c /\ \A q \in Procs \ {p} : Arg(q)' = Arg(q)
    BY <2>1 DEF GivenOK, Arg
  <2>8. CommandsInv'
    BY <2>2, <2>5, <2>6, <2>7 DEF AppInv, CommandsInv, startup
  <2>9. BuiltInv => BuiltInv'
    <3> SUFFICES ASSUME BuiltInv, NEW q \in Procs PROVE BuiltBy(q)'
      BY DEF BuiltInv
    <3>1. CASE q = p
      BY <2>5, <2>6, <3>1 DEF BuiltBy, At
    <3>2. CASE q # p
      <4>1. conf'[q] = conf[q]
        BY <2>2, <3>2 DEF Load, SettingsTypeOK
      <4>2. /\ run'[q] = run[q] /\ Arg(q)' = Arg(q) /\ UNCHANGED <<scenario, added>>
        BY <2>2, <2>6, <2>7, <3>2 DEF startup
      <4> QED
        BY <4>1, <4>2, SameBuilt DEF BuiltInv
    <3> QED
      BY <3>1, <3>2
  <2>10. StrategiesInOrder' <=> StrategiesInOrder
    BY <2>2 DEF startup, StrategiesInOrder, InOrder, Strategies, Registered
  <2> QED
    BY <2>6, <2>8, <2>9, <2>10 DEF AppInv
<1>6. ASSUME NEW p \in Procs, Exit(p)
      PROVE  AppInv'
  <2>1. /\ given' = [given EXCEPT ![p].command = NoCommand]
        /\ run' = [run EXCEPT ![p] = NotRunning]
        /\ conf' = [conf EXCEPT ![p] = Off] /\ UNCHANGED <<scenario, startup>>
    BY <1>6 DEF Exit, Abandon
  <2>2. Becomes(p, "off", <<>>, {})
    <3>1. NotRunning = RunOf("off", {}, <<>>, {})
      BY DEF NotRunning, RunOf
    <3> QED
      BY <2>1, <3>1, RunBecomes DEF AppInv
  <2>3. RunShape' /\ run'[p].at = "off" /\ \A q \in Procs \ {p} : run'[q] = run[q]
    BY <2>2 DEF Becomes
  <2>4. \A q \in Procs \ {p} : Arg(q)' = Arg(q) /\ conf'[q] = conf[q]
    BY <2>1 DEF GivenOK, Arg, SettingsTypeOK
  <2>5. CommandsInv'
    BY <2>1, <2>3, <2>4 DEF AppInv, CommandsInv, startup
  <2>6. BuiltInv => BuiltInv'
    <3> SUFFICES ASSUME BuiltInv, NEW q \in Procs PROVE BuiltBy(q)'
      BY DEF BuiltInv
    <3>1. CASE q = p
      BY <2>3, <3>1 DEF BuiltBy, At
    <3>2. CASE q # p
      BY <2>1, <2>3, <2>4, <3>2, SameBuilt DEF BuiltInv, startup
    <3> QED
      BY <3>1, <3>2
  <2>7. StrategiesInOrder' <=> StrategiesInOrder
    BY <2>1 DEF startup, StrategiesInOrder, InOrder, Strategies, Registered
  <2> QED
    BY <2>3, <2>5, <2>6, <2>7 DEF AppInv
<1>7. ASSUME NEW p \in Procs, Within(p)
      PROVE  AppInv'
  <2>1. UNCHANGED <<scenario, startup, given>>
    BY <1>7, WithinFrozen
  <2>2. /\ RunShape' /\ \A q \in Procs \ {p} : run'[q] = run[q]
        /\ run[p].at # "off" /\ run'[p].at # "off"
    BY <1>7, WithinRun DEF AppInv
  <2>3. phase = "locked"
    BY <2>2 DEF AppInv, CommandsInv
  <2>4. Arg(p).is = "build" => run'[p].at \in {"ended", "failed"}
    <3>1. Arg(p).is = "build" => BuildServices(p) \/ BuildDirectory(p)
      BY <1>7, NoBuild DEF AppInv, CommandsInv
    <3>2. BuildServices(p) \/ BuildDirectory(p) =>
            Go(p, "failed") \/ \E built : run' = [run EXCEPT ![p].at = "ended", ![p].built = built]
      BY Zenon DEF BuildServices, BuildDirectory
    <3>3. BuildServices(p) \/ BuildDirectory(p) => run'[p].at \in {"ended", "failed"}
      BY <3>2, RunGoes, RunBuilds DEF Becomes, AppInv
    <3> QED
      BY <3>1, <3>3
  <2>5. CommandsInv'
    BY <2>1, <2>2, <2>3, <2>4 DEF AppInv, CommandsInv, startup, Arg
  <2>6. StrategiesInOrder' <=> StrategiesInOrder
    BY <2>1 DEF startup, StrategiesInOrder, InOrder, Strategies, Registered
  <2>7. StrategiesInOrder => BuiltInv'
    BY <1>7, <2>3, WithinBuilt DEF AppInv, StrategiesInOrder
  <2> QED
    BY <2>2, <2>5, <2>6, <2>7 DEF AppInv
<1> QED
  BY <1>1, <1>2, <1>3, <1>4, <1>5, <1>6, <1>7 DEF Next, Process, Within

\* When a stack is brought up, all that is to run from its source there has been built
\* from it by this start, with the strategy for it (addons/build/hook.go), and a build of
\* services that succeeds has built them (addons/build/cmd.go): for any services and
\* repositories, and whatever strategies there are, once these are in an order in which
\* each comes after those that supersede it.
THEOREM BuiltBeforeStartCorrect == Spec => [](StrategiesInOrder => BuiltBeforeStart)
<1>1. Init => AppInv
  <2> SUFFICES ASSUME Init PROVE AppInv
    OBVIOUS
  <2>1. run = [p \in Procs |-> NotRunning] /\ phase = "starting"
    BY DEF Init
  <2>2. RunShape /\ \A p \in Procs : run[p].at = "off"
    BY <2>1 DEF RunShape, NotRunning, RunOf
  <2> QED
    BY <2>2 DEF AppInv, CommandsInv, BuiltInv, BuiltBy, At
<1>2. Init => GivenOK
  BY ScenariosAssumption DEF Init, GivenOK
<1>3. GivenOK /\ [Next]_vars => GivenOK'
  BY AppStep
<1>4. GivenOK /\ SettingsTypeOK /\ AppInv /\ [Next]_vars => AppInv'
  BY AppInvNext
<1>5. AppInv => (StrategiesInOrder => BuiltBeforeStart)
  BY DEF AppInv, BuiltInv, BuiltBy, BuiltBeforeStart, Covered
<1>6. Spec => []SettingsTypeOK
  BY AppImplements, SettingsCorrect, PTL
<1> QED
  BY <1>1, <1>2, <1>3, <1>4, <1>5, <1>6, PTL DEF Spec
=============================================================================
