----------------------------- MODULE AuditTail -----------------------------
(***************************************************************************)
(* MonitoringService._collect_audit and collect_audit: the audit log is    *)
(* read from the inode and the offset that collector_state keeps, while    *)
(* auditd appends to it, logrotate puts a new file in its place and        *)
(* copytruncate empties it.  os.stat and open are two system calls, every  *)
(* store call is a step of its own, and the new offset is stored before    *)
(* the first record is.  Offsets count lines.                              *)
(***************************************************************************)
EXTENDS Passes, Naturals, Sequences

CONSTANTS
  AuditLines,   \* what may be logged: the event a line belongs to, and its type
  Inodes,
  NoState,      \* the row audit_state is missing
  MaxLog        \* bound: lines, rotations, truncations and faults together

\* The record types that make an event of the lines of one id.
TellingTypes == {"EXECVE", "AVC", "USER_AUTH", "USER_ACCT", "USER_CMD"}

ASSUME AuditTailAssumption ==
  /\ \A l \in AuditLines : DOMAIN l = {"id", "type"}
  /\ NoState \notin [inode : Inodes, offset : Nat]
  /\ MaxLog \in Nat

VARIABLES
  written,      \* every line auditd ever wrote; a line is its position in it
  start,        \* where the present file begins
  inode,        \* the present file
  audit_state,  \* collector_state: audit_state
  records,      \* the rows of the events table: an id and the lines in "raw"
  at,           \* where each worker is in _collect_audit
  state, stat, new_state,   \* its locals
  batch,        \* its lines, and once they are grouped its events
  moves, drops, \* rotations and truncations, passes left through an exception
  passed,       \* history: the lines that were there when the first offset was stored
  dropped,      \* history: the lines whose events a fault dropped
  reset,        \* history: the file was truncated, or its inode is that of an older one
  torn,         \* history: a rotation fell between stat and open
  crowded       \* history: two workers were busy at a time

logVars   == <<kind, written, start, inode, moves, reset>>
pollVars  == <<state, stat, new_state, batch>>
auditVars == <<logVars, audit_state, records, at, pollVars, drops, passed, dropped, torn,
               crowded>>

Lines == 1 .. Len(written)

Size == Len(written) - start

Position == [inode : Inodes, offset : Nat]

MoreLog == Len(written) + moves + drops < MaxLog

Min2(m, n) == IF m <= n THEN m ELSE n

AuditInit ==
  /\ kind \in Kinds
  /\ written = <<>> /\ start = 0 /\ inode \in Inodes
  /\ audit_state = NoState /\ records = {}
  /\ at = [w \in Workers |-> "idle"]
  /\ state = [w \in Workers |-> NoState]
  /\ stat = [w \in Workers |-> NoState]
  /\ new_state = [w \in Workers |-> NoState]
  /\ batch = [w \in Workers |-> {}]
  /\ moves = 0 /\ drops = 0
  /\ passed = {} /\ dropped = {}
  /\ reset = FALSE /\ torn = FALSE /\ crowded = FALSE

-----------------------------------------------------------------------------
\* auditd, logrotate and the file system.
AuditWrite(l) ==
  /\ kind = "audit" /\ MoreLog
  /\ written' = Append(written, l)
  /\ UNCHANGED <<kind, start, inode, moves, reset, audit_state, records, at, pollVars, drops,
                 passed, dropped, torn, crowded>>

\* Inodes that the store or a worker still goes by.
Remembered ==
  {p.inode : p \in ({audit_state} \cup {state[w] : w \in Workers}
                      \cup {stat[w] : w \in Workers}
                      \cup {new_state[w] : w \in Workers}) \ {NoState}}

\* The log is renamed and a new one created, perhaps with the inode of one that
\* has been deleted.
Rotate(i) ==
  /\ kind = "audit" /\ MoreLog /\ i # inode
  /\ moves' = moves + 1
  /\ inode' = i
  /\ start' = Len(written)
  /\ reset' = (reset \/ i \in Remembered)
  /\ UNCHANGED <<kind, written, audit_state, records, at, pollVars, drops, passed,
                 dropped, torn, crowded>>

Truncate ==
  /\ MoreLog /\ Size > 0
  /\ moves' = moves + 1
  /\ start' = Len(written)
  /\ reset' = TRUE
  /\ UNCHANGED <<kind, written, inode, audit_state, records, at, pollVars, drops, passed,
                 dropped, torn, crowded>>

-----------------------------------------------------------------------------
\* _collect_audit.
BeginTail(w) ==
  /\ kind = "audit" /\ at[w] = "idle"
  /\ at' = [at EXCEPT ![w] = "stat"]
  /\ state' = [state EXCEPT ![w] = audit_state]
  /\ crowded' = (crowded \/ \E v \in Workers : at[v] # "idle")
  /\ UNCHANGED <<logVars, audit_state, records, stat, new_state, batch, drops, passed,
                 dropped, torn>>

\* The frame of worker w is gone.
LeaveTail(w) ==
  /\ at' = [at EXCEPT ![w] = "idle"]
  /\ state' = [state EXCEPT ![w] = NoState]
  /\ stat' = [stat EXCEPT ![w] = NoState]
  /\ new_state' = [new_state EXCEPT ![w] = NoState]
  /\ batch' = [batch EXCEPT ![w] = {}]

\* Mutant: without a stored offset the state stays as it is.
Stat_unstarted(w) ==
  /\ at[w] = "stat"
  /\ at' = [at EXCEPT ![w] = IF state[w] = NoState THEN "save" ELSE "open"]
  /\ stat' = [stat EXCEPT ![w] = IF state[w] = NoState THEN NoState
                                ELSE [inode |-> inode, offset |-> Size]]
  /\ UNCHANGED <<logVars, audit_state, records, state, new_state, batch, drops, passed,
                 dropped, torn, crowded>>

\* Without a stored offset there is nothing to open: the end of the log is it.
Stat(w) ==
  LET here == [inode |-> inode, offset |-> Size]
  IN  /\ at[w] = "stat"
      /\ IF state[w] = NoState
           THEN /\ at' = [at EXCEPT ![w] = "save"]
                /\ new_state' = [new_state EXCEPT ![w] = here]
                /\ passed' = passed \cup {n \in Lines : n > start}
                /\ UNCHANGED stat
           ELSE /\ at' = [at EXCEPT ![w] = "open"]
                /\ stat' = [stat EXCEPT ![w] = here]
                /\ UNCHANGED <<new_state, passed>>
      /\ UNCHANGED <<logVars, audit_state, records, state, batch, drops, dropped, torn,
                     crowded>>

\* Mutant: the offset is taken for good in whatever file there is.
SeekTo_blind(w) == Min2(state[w].offset, stat[w].offset)

\* Mutant: a new file is read from its end.
SeekTo_end(w) ==
  IF state[w].inode = stat[w].inode THEN Min2(state[w].offset, stat[w].offset)
  ELSE stat[w].offset

\* Where the file is read from: the stored offset, unless the inode is another,
\* and never beyond the size that stat found.
SeekTo(w) ==
  IF state[w].inode = stat[w].inode THEN Min2(state[w].offset, stat[w].offset) ELSE 0

\* Mutant: handle.tell() is taken for the size that stat found.
Open_sized(w) ==
  /\ at[w] = "open"
  /\ at' = [at EXCEPT ![w] = "save"]
  /\ batch' = [batch EXCEPT ![w] = {n \in Lines : n > start + SeekTo(w)}]
  /\ new_state' = [new_state EXCEPT ![w] = stat[w]]
  /\ torn' = (torn \/ stat[w].inode # inode)
  /\ state' = [state EXCEPT ![w] = NoState]
  /\ stat' = [stat EXCEPT ![w] = NoState]
  /\ UNCHANGED <<logVars, audit_state, records, drops, passed, dropped, crowded>>

\* open, seek, readlines and tell, on the file that is there now.
Open(w) ==
  /\ at[w] = "open"
  /\ at' = [at EXCEPT ![w] = "save"]
  /\ batch' = [batch EXCEPT ![w] = {n \in Lines : n > start + SeekTo(w)}]
  /\ new_state' = [new_state EXCEPT ![w] =
                     [inode |-> stat[w].inode,
                      offset |-> IF SeekTo(w) > Size THEN SeekTo(w) ELSE Size]]
  /\ torn' = (torn \/ stat[w].inode # inode)
  /\ state' = [state EXCEPT ![w] = NoState]
  /\ stat' = [stat EXCEPT ![w] = NoState]
  /\ UNCHANGED <<logVars, audit_state, records, drops, passed, dropped, crowded>>

\* The log cannot be read, or stat or open fails: nothing is stored.
Unreadable(w) ==
  /\ at[w] \in {"stat", "open"}
  /\ LeaveTail(w)
  /\ UNCHANGED <<logVars, audit_state, records, drops, passed, dropped, torn, crowded>>

SaveState(w) ==
  /\ at[w] = "save"
  /\ at' = [at EXCEPT ![w] = "ingest"]
  /\ audit_state' = new_state[w]
  /\ new_state' = [new_state EXCEPT ![w] = NoState]
  /\ UNCHANGED <<logVars, records, state, stat, batch, drops, passed, dropped, torn,
                 crowded>>

\* The lines of one id, as far as this poll has read them.
Group(w, id) == {n \in batch[w] : written[n].id = id}

Telling(n) == written[n].type \in TellingTypes

\* One group: its event, if it makes one, is stored unless the fingerprint, here
\* the id and the lines, is known.
IngestGroup(w) ==
  /\ at[w] = "ingest"
  /\ \E n \in batch[w] :
       LET group == Group(w, written[n].id)
       IN  /\ records' = IF \E m \in group : Telling(m)
                           THEN records \cup {[id |-> written[n].id, lines |-> group]}
                           ELSE records
           /\ batch' = [batch EXCEPT ![w] = @ \ group]
  /\ UNCHANGED <<logVars, audit_state, at, state, stat, new_state, drops, passed, dropped,
                 torn, crowded>>

FinishTail(w) ==
  /\ at[w] = "ingest" /\ batch[w] = {}
  /\ LeaveTail(w)
  /\ UNCHANGED <<logVars, audit_state, records, drops, passed, dropped, torn, crowded>>

\* An exception leaves collect_once, or the process ends.
AbortTail(w) ==
  /\ at[w] # "idle" /\ MoreLog
  /\ drops' = drops + 1
  /\ dropped' = IF at[w] = "ingest" THEN dropped \cup batch[w] ELSE dropped
  /\ LeaveTail(w)
  /\ UNCHANGED <<logVars, audit_state, records, passed, torn, crowded>>

Tail1(w) ==
  \/ Stat(w) \/ Open(w) \/ Unreadable(w) \/ SaveState(w) \/ IngestGroup(w) \/ FinishTail(w)

AuditNext ==
  \/ \E l \in AuditLines : AuditWrite(l)
  \/ \E i \in Inodes : Rotate(i)
  \/ Truncate
  \/ \E w \in Workers : BeginTail(w) \/ Tail1(w) \/ AbortTail(w)

AuditSpec == AuditInit /\ [][AuditNext]_auditVars

\* run() polls again and again, what has begun goes on, and the log can be read
\* time and again.
AuditFairness ==
  /\ WF_auditVars(BeginTail(Loop))
  /\ \A w \in Workers : WF_auditVars(Tail1(w))
  /\ SF_auditVars(Stat(Loop)) /\ SF_auditVars(Open(Loop))

-----------------------------------------------------------------------------
\* What every variable holds.
AuditTypeOK ==
  /\ written \in Seq(AuditLines) /\ Len(written) + moves + drops <= MaxLog
  /\ start \in 0 .. Len(written)
  /\ inode \in Inodes
  /\ audit_state \in Position \cup {NoState}
  /\ records \subseteq [id : {l.id : l \in AuditLines}, lines : SUBSET Lines]
  /\ at \in [Workers -> {"idle", "stat", "open", "save", "ingest"}]
  /\ state \in [Workers -> Position \cup {NoState}]
  /\ stat \in [Workers -> Position \cup {NoState}]
  /\ new_state \in [Workers -> Position \cup {NoState}]
  /\ batch \in [Workers -> SUBSET Lines]
  /\ moves \in 0 .. MaxLog /\ drops \in 0 .. MaxLog
  /\ passed \subseteq Lines /\ dropped \subseteq Lines
  /\ reset \in BOOLEAN /\ torn \in BOOLEAN /\ crowded \in BOOLEAN
  /\ \A w \in Workers :
       /\ at[w] = "open" => state[w] # NoState /\ stat[w] # NoState
       /\ at[w] = "save" => new_state[w] # NoState

Covered(n) ==
  \/ n \in passed \cup dropped
  \/ \E r \in records : n \in r.lines
  \/ \E w \in Workers : at[w] = "ingest" /\ n \in batch[w]

\* The stored offset never gets ahead of what was read: every line of the present
\* file up to it that makes an event is in a row, in a worker's batch, dropped by
\* a fault or older than the first poll; whatever workers overtake each other, and
\* although a file may be put in place between stat and open.  Truncation and an
\* inode used again take the ground away from it.
OffsetAccounted ==
  (~reset /\ audit_state # NoState /\ audit_state.inode = inode) =>
    \A n \in Lines :
      (Telling(n) /\ start < n /\ n <= start + audit_state.offset) => Covered(n)

\* A line is in one row only: rotations, failing polls and restarts never make
\* JevGuard report a record twice, in other company, unless two workers poll at
\* the same time or a rotation falls between stat and open.
ReportedOnce ==
  (~crowded /\ ~torn /\ ~reset) =>
    \A r, s \in records : r.lines \cap s.lines # {} => r = s

\* A line that makes an event and that the offset has not passed is read in the
\* end, unless the file goes before that.
LinesRead ==
  \A n \in 1 .. MaxLog :
    (audit_state # NoState /\ n \in Lines /\ Telling(n) /\ n > start
       /\ (audit_state.inode = inode => n > start + audit_state.offset))
      ~> (Covered(n) \/ n <= start \/ reset)

=============================================================================
