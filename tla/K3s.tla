-------------------------------- MODULE K3s ---------------------------------
(***************************************************************************)
(* The local cluster (addons/k3s): its installation, first start, the      *)
(* merge of its credentials into the user's kubeconfig, and its removal,   *)
(* by several processes, with a daemon that restarts the server (PMChild   *)
(* has it in detail) and a server that may end at any time.                *)
(*                                                                         *)
(* The server is external.  It keeps its certificates among its data,      *)
(* makes new ones when there are none, and writes them to k3s.yaml some    *)
(* time after it has started.  Certificates are numbered; 0 is none.       *)
(***************************************************************************)
EXTENDS Naturals, FiniteSets

CONSTANTS
  Clients,   \* the processes that may run at once
  MaxCerts   \* a bound: how often the server may be set up anew

VARIABLES
  kube,      \* the machine: what is installed, the data, k3s.yaml, the server
  user,      \* the user's kubeconfig: the app's certificate, and whether the rest is there
  merge,     \* for each process, where it is in merging
  setUp,     \* history: a set-up has succeeded, and no removal has begun since
  raced,     \* history: a removal met a server that came back, or another command
  cut        \* history: a kubeconfig being written was left so, or read

cluster == <<kube, user, merge, setUp, raced, cut>>

Certs == 0 .. MaxCerts
Idle  == [pc |-> "no", cert |-> 0, rest |-> FALSE]

ClusterInit ==
  /\ kube = [bin |-> FALSE, sudoers |-> FALSE, data |-> 0, yaml |-> 0, server |-> 0,
             made |-> 0, kept |-> FALSE]
  /\ user = [app |-> 0, rest |-> TRUE]
  /\ merge = [p \in Clients |-> Idle]
  /\ setUp = FALSE /\ raced = FALSE /\ cut = FALSE

NoHistory == UNCHANGED <<setUp, raced, cut>>
OnlyKube  == UNCHANGED <<user, merge>> /\ NoHistory

(***************************************************************************)
(* The server, and the daemon that keeps it while it is to.                *)
(***************************************************************************)
Removing(p) == merge[p].pc \in {"killed", "yaml removed", "data removed"}

\* Its init exec kills any other; sudo has to let the user start it.
ServerStarts ==
  /\ kube.kept /\ kube.server = 0 /\ kube.bin /\ kube.sudoers
  /\ \/ kube.data # 0 /\ kube' = [kube EXCEPT !.server = kube.data]
     \/ /\ kube.data = 0 /\ kube.made < MaxCerts
        /\ kube' = [kube EXCEPT !.made = @ + 1, !.data = kube.made + 1, !.server = kube.made + 1]
  /\ raced' = (raced \/ \E p \in Clients : Removing(p))
  /\ UNCHANGED <<user, merge, setUp, cut>>

ServerWrites ==
  /\ kube.server # 0 /\ kube.yaml # kube.server
  /\ kube' = [kube EXCEPT !.yaml = kube.server]
  /\ OnlyKube

ServerEnds ==
  /\ kube.server # 0
  /\ kube' = [kube EXCEPT !.server = 0]
  /\ OnlyKube

\* The stack's infrastructure is stopped: the daemon no longer keeps it.
StopServer(p) ==
  /\ kube' = [kube EXCEPT !.server = 0, !.kept = FALSE]
  /\ OnlyKube

\* Start of the service: the daemon is to keep it from now on.
KeepServer(p) ==
  /\ kube' = [kube EXCEPT !.kept = TRUE]
  /\ OnlyKube

(***************************************************************************)
(* mergeKubeConfig.  The kubeconfig is read, changed and written in place. *)
(***************************************************************************)
Writing(p) == merge[p].pc = "truncated"
MergeAt(p, pc) == merge[p].pc = pc
Busy(p) == \E q \in Clients \ {p} : Writing(q)

\* Without a k3s.yaml there is nothing to merge (the caller tries again, or fails).
NoYaml(p) == MergeAt(p, "no") /\ kube.yaml = 0

\* Mutant of ReadConfigs: a context of the app's name is taken for the right one.
ReadConfigsOnce(p) ==
  /\ MergeAt(p, "no") /\ kube.yaml # 0
  /\ merge' = [merge EXCEPT ![p] =
                 [pc |-> IF user.app # 0 THEN "merged" ELSE "to write",
                  cert |-> kube.yaml, rest |-> user.rest]]
  /\ cut' = (cut \/ Busy(p))
  /\ raced' = (raced \/ \E q \in Clients : Removing(q))
  /\ UNCHANGED <<kube, user, setUp>>

\* Both files are read: a kubeconfig that another has emptied to write it is empty.
ReadConfigs(p) ==
  /\ MergeAt(p, "no") /\ kube.yaml # 0
  /\ merge' = [merge EXCEPT ![p] =
                 [pc |-> IF user.app = kube.yaml THEN "merged" ELSE "to write",
                  cert |-> kube.yaml, rest |-> user.rest]]
  /\ cut' = (cut \/ Busy(p))
  /\ raced' = (raced \/ \E q \in Clients : Removing(q))
  /\ UNCHANGED <<kube, user, setUp>>

\* clientcmd.WriteToFile empties the file, and writes it.
TruncateConfig(p) ==
  /\ MergeAt(p, "to write")
  /\ user' = [app |-> 0, rest |-> FALSE]
  /\ merge' = [merge EXCEPT ![p].pc = "truncated"]
  /\ UNCHANGED kube /\ NoHistory

WriteConfig(p) ==
  /\ MergeAt(p, "truncated")
  /\ user' = [app |-> merge[p].cert, rest |-> merge[p].rest]
  /\ merge' = [merge EXCEPT ![p].pc = "merged"]
  /\ UNCHANGED kube /\ NoHistory

\* The user's kubeconfig is read for the client of the cluster (k8s.NewClient).
ReadUser(p) ==
  /\ cut' = (cut \/ Busy(p))
  /\ UNCHANGED <<kube, user, merge, setUp, raced>>

\* The process ends, or is killed, in the middle of it or not.
LeaveCluster(p) ==
  /\ merge' = [merge EXCEPT ![p] = Idle]
  /\ cut' = (cut \/ Writing(p))
  /\ raced' = (raced \/ Removing(p))
  /\ UNCHANGED <<kube, user, setUp>>

(***************************************************************************)
(* The commands "bootstrap k3s ...".                                       *)
(***************************************************************************)
\* InstallStable: what "install" says of itself is not looked at.
InstallBinary(p) ==
  /\ \E done \in BOOLEAN : kube' = [kube EXCEPT !.bin = @ \/ done]
  /\ OnlyKube

InstallSudoers(p) ==
  /\ kube' = [kube EXCEPT !.sudoers = TRUE]
  /\ OnlyKube

\* The set-up has merged what it waited for.
SetUpDone(p) ==
  /\ MergeAt(p, "merged")
  /\ merge' = [merge EXCEPT ![p] = Idle]
  /\ setUp' = TRUE
  /\ UNCHANGED <<kube, user, raced, cut>>

\* A start has merged, and goes on.
Merged(p) ==
  /\ MergeAt(p, "merged")
  /\ merge' = [merge EXCEPT ![p] = Idle]
  /\ UNCHANGED <<kube, user>> /\ NoHistory

\* Uninstall: the server is killed, then its links and mounts, /etc/rancher/k3s, its
\* data and the binary go, one after the other, whatever each rm says.  The daemon is
\* not told, and the user's kubeconfig keeps what it has.
KillServer(p) ==
  /\ MergeAt(p, "no")
  /\ kube' = [kube EXCEPT !.server = 0]
  /\ merge' = [merge EXCEPT ![p].pc = "killed"]
  /\ setUp' = FALSE
  /\ raced' = (raced \/ \E q \in Clients : ~MergeAt(q, "no"))
  /\ UNCHANGED <<user, cut>>

Removed(done) == raced' = (raced \/ ~done) /\ UNCHANGED <<user, setUp, cut>>

RemoveYaml(p) ==
  /\ MergeAt(p, "killed")
  /\ \E done \in BOOLEAN :
       kube' = [kube EXCEPT !.yaml = IF done THEN 0 ELSE @] /\ Removed(done)
  /\ merge' = [merge EXCEPT ![p].pc = "yaml removed"]

RemoveData(p) ==
  /\ MergeAt(p, "yaml removed")
  /\ \E done \in BOOLEAN :
       kube' = [kube EXCEPT !.data = IF done THEN 0 ELSE @] /\ Removed(done)
  /\ merge' = [merge EXCEPT ![p].pc = "data removed"]

RemoveBinary(p) ==
  /\ MergeAt(p, "data removed")
  /\ \E done \in BOOLEAN :
       kube' = [kube EXCEPT !.bin = @ /\ ~done] /\ Removed(done)
  /\ merge' = [merge EXCEPT ![p] = Idle]

\* The machine loses power, and with it the daemon what it kept.
ClusterLosesPower ==
  /\ kube' = [kube EXCEPT !.server = 0, !.kept = FALSE]
  /\ merge' = [p \in Clients |-> Idle]
  /\ cut' = (cut \/ \E p \in Clients : Writing(p))
  /\ raced' = (raced \/ \E p \in Clients : Removing(p))
  /\ UNCHANGED <<user, setUp>>

ClusterNext ==
  \/ ServerStarts \/ ServerWrites \/ ServerEnds \/ ClusterLosesPower
  \/ \E p \in Clients :
       \/ StopServer(p) \/ KeepServer(p) \/ InstallBinary(p) \/ InstallSudoers(p)
       \/ ReadConfigs(p) \/ TruncateConfig(p) \/ WriteConfig(p) \/ ReadUser(p)
       \/ SetUpDone(p) \/ Merged(p) \/ LeaveCluster(p)
       \/ KillServer(p) \/ RemoveYaml(p) \/ RemoveData(p) \/ RemoveBinary(p)

ClusterSpec == ClusterInit /\ [][ClusterNext]_cluster

-----------------------------------------------------------------------------
\* A set-up that has succeeded is good for every later start, through ends and restarts
\* of the server: the app's context has the certificates of the server there is, which
\* k3s.yaml has too.  And what else the user has in the kubeconfig stays there.  The
\* exceptions: a removal during which the daemon brought the server back or that did
\* not end, and a kubeconfig that was cut off or read while it was written.
SetUpSuffices ==
  /\ setUp /\ ~raced /\ ~cut =>
       (user.app = kube.data /\ user.app = kube.yaml) \/ \E p \in Clients : Writing(p)
  /\ ~cut => user.rest \/ \E p \in Clients : Writing(p)
=============================================================================
