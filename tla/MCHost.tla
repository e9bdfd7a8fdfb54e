------------------------------- MODULE MCHost -------------------------------
(***************************************************************************)
(* What collect_once compares with a snapshot and what it reads from the   *)
(* audit log, by the service loop and one collect_once next to it.  A      *)
(* behaviour is about one collector; the others rest.                      *)
(***************************************************************************)
EXTENDS Snapshots, AuditTail, TLC

CONSTANTS
  i1, i2, v1, v2, w1, w2, n1, pid,
  MaxOver, MaxCrowd   \* bounds: what happens at most where workers overlap

collectVars == <<snapshotVars, auditVars>>

\* One value of a listener is on the allowlist; both keys of a process are one pid's.
MCQuiet == {<<i2, v2>>}

MCPidOf == [i \in Items |-> pid]

\* The loop is in the process that listens on i1, the other worker is not.
MCOwn == (w1 :> {i1}) @@ (w2 :> {})

\* The host has all of the kind or nothing of it at the start; of audit logs it
\* does not matter which inode is the first.
HostInit ==
  /\ SnapshotInit /\ AuditInit
  /\ Host \in IF kind = "audit" THEN {Nothing}
              ELSE {Nothing, [i \in Items |-> IF kind = "process" /\ i # i1 THEN Absent ELSE v1]}
  /\ inode = n1

HostNext ==
  \/ SnapshotNext /\ UNCHANGED auditVars
  \/ AuditNext /\ UNCHANGED snapshotVars

HostSpec ==
  HostInit /\ [][HostNext]_collectVars /\ SnapshotFairness /\ AuditFairness

MCLines == {[id |-> "a1", type |-> "SYSCALL"], [id |-> "a1", type |-> "EXECVE"]}

\* The bounds hold for what surrounds the code and for the second worker, which
\* comes in only when the first is busy.  When there are as many events as there
\* can be, they are changes of one file, or one change, sudo records and a fault;
\* one sudo and one change come with workers that overlap, too.
OneFile ==
  kind = "file" /\ \A n \in DOMAIN moments : \A i \in Items \ {i1} : moments[n][i] = moments[1][i]

SudoAndChange ==
  OneFile /\ moments[1] # Nothing /\ privilege > 0 /\ Len(moments) = 2 /\ missed = 0

SnapshotCut ==
  /\ Busy(w2) => overlapped
  /\ overlapped => \/ Len(moments) - 1 + privilege + missed + faults <= MaxOver
                   \/ SudoAndChange /\ privilege = 1 /\ faults = 0
  /\ ~MoreEvents => OneFile /\ (Len(moments) = MaxEvents + 1 \/ SudoAndChange)

\* A log that was truncated is followed a little further, by one worker: the
\* properties promise nothing of it.
AuditCut ==
  /\ at[w2] # "idle" => crowded
  /\ crowded =>
       /\ Len(written) < MaxCrowd /\ Len(written) + moves + 2 * drops <= MaxCrowd
       /\ ~reset /\ \A n \in Lines : Telling(n)
  /\ reset => Len(written) + moves + drops <= 2

Cut == IF kind = "audit" THEN AuditCut ELSE SnapshotCut

=============================================================================
