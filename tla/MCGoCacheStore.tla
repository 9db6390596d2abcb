--------------------------- MODULE MCGoCacheStore ---------------------------
(* The setups the runs of GoCacheStore are checked for. *)
EXTENDS GoCacheStore, TLC

CONSTANTS t1, t2, o1

\* Callers are interchangeable.
Symmetric == Permutations({t1, t2})

Setup(mode, remote, failing, callers, puts) ==
  [mode |-> mode, remote |-> remote, failing |-> failing, callers |-> callers, puts |-> puts]

\* Two callers with one local directory, and a remote one to read from or none; and
\* one caller that writes to both, whatever the remote one is.
SomeSetups ==
  {Setup("disk", "sftp", {Local}, {t1, t2}, {o1, Empty}),
   Setup("read-through", "sftp", {Remote}, {t1, t2}, {o1})}
  \cup {Setup("write-through", r, {Local, Remote}, {t1}, {o1, Empty}) : r \in Remotes}

\* One caller that writes to a bucket of s3 that has RenameObject; nothing fails.
Moving == {Setup("write-through", "s3 moves", {}, {t1}, {o1})}
=============================================================================
