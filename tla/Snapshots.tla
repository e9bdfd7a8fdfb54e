----------------------------- MODULE Snapshots -----------------------------
(***************************************************************************)
(* The snapshot half of MonitoringService.collect_once.  What listens, the *)
(* watched files, the accounts and the processes of the host are compared  *)
(* with the snapshot collector_state keeps of each kind, and what changed  *)
(* is ingested; so are the sudo and su records of the journal, which a     *)
(* change of persistence is correlated with.  Every store call is a step   *)
(* of its own, and a snapshot, like the cursor of the journal, is stored   *)
(* before the first of its events is.                                      *)
(***************************************************************************)
EXTENDS Passes, Naturals, Sequences

CONSTANTS
  Items,            \* paths, accounts, pid:start, or keys of listeners
  Values, Absent,   \* what a snapshot holds of an item; it does not hold it
  Suspicious,       \* process records with a reason: an executable in /tmp, deleted, ...
  Quiet,            \* <<item, value>>: listeners on the allowlist, unremarkable UDP ports
  Persistent,       \* files under PERSISTENCE_DIRS or the user's units and autostart
  PidOf,            \* the pid in a key pid:start
  Own,              \* each worker's: the sockets of its own process, and what talks to them
  NoChange,
  MaxEvents         \* bound: changes, sudo records, failed reads and faults together

States == Values \cup {Absent}

Change == [item : Items, before : States, after : States]

ASSUME SnapshotsAssumption ==
  /\ Absent \notin Values /\ NoChange \notin Change
  /\ Suspicious \subseteq Values /\ Quiet \subseteq Items \X Values
  /\ Persistent \subseteq Items /\ Own \in [Workers -> SUBSET Items]
  /\ MaxEvents \in Nat

VARIABLES
  moments,      \* every state the host was in, the present one last
  privilege,    \* how many sudo and su records the journal holds
  cursor,       \* collector_state: journal_cursor, the last record read; 0 is none
  privileged,   \* the records that are in the events table
  snapshot,     \* the row of collector_state
  stored,       \* whether there is one
  rows,         \* the rows of the events table that report a change, by id
  alarms,       \* the privilege_then_persistence rows
  step,         \* where each worker is in collect_once
  previous, current, blind,  \* its locals previous, current, and not previous
  todo, event,  \* its events to ingest, and the one that is to be correlated
  looked,       \* history: the moment it looked at
  mark, fetched, \* its locals cursor, then new_cursor, and the records in events
  known,        \* history: the records its pass is to know of
  missed, faults,            \* reads that failed, passes left through an exception
  lost, gone,   \* history: the changes, the records they dropped or --since passed over
  hidden,       \* history: what was left out of a snapshot, and of which moment
  silent,       \* history: what was stored without a baseline, and when it was seen
  overlapped    \* history: two workers were busy at a time

hostVars     == <<kind, moments, privilege>>
storeVars    == <<cursor, privileged, snapshot, stored, rows, alarms>>
frameVars    == <<previous, current, blind, todo, event, looked>>
journalVars  == <<mark, fetched, known>>
failureVars  == <<missed, faults, lost, gone, hidden>>
snapshotVars == <<hostVars, storeVars, step, frameVars, journalVars, failureVars, silent,
                  overlapped>>

Host == moments[Len(moments)]

Nothing == [i \in Items |-> Absent]

\* Two processes with one pid are not there at a time.
OnePerPid(h) ==
  \A i, k \in Items : h[i] # Absent /\ h[k] # Absent /\ PidOf[i] = PidOf[k] => i = k

MoreEvents == Len(moments) - 1 + privilege + missed + faults < MaxEvents

SnapshotInit ==
  /\ kind \in Kinds
  /\ \E h \in [Items -> States] : moments = <<h>> /\ (kind = "process" => OnePerPid(h))
  /\ privilege = 0 /\ privileged = {} /\ cursor = 0
  /\ snapshot = Nothing /\ stored = FALSE
  /\ rows = <<>> /\ alarms = {}
  /\ step = [w \in Workers |-> "idle"]
  /\ previous = [w \in Workers |-> Nothing]
  /\ current = [w \in Workers |-> Nothing]
  /\ blind = {}
  /\ todo = [w \in Workers |-> {}]
  /\ event = [w \in Workers |-> NoChange]
  /\ looked = [w \in Workers |-> 1]
  /\ mark = [w \in Workers |-> 0]
  /\ fetched = [w \in Workers |-> {}]
  /\ known = [w \in Workers |-> {}]
  /\ missed = 0 /\ faults = 0 /\ lost = {} /\ gone = {} /\ hidden = {}
  /\ silent = {} /\ overlapped = FALSE

-----------------------------------------------------------------------------
\* The host.  An item appears, changes or disappears; a process that executes
\* another program, and a socket bound again, keep their key.
HostChanges(i, x) ==
  /\ kind # "audit" /\ MoreEvents
  /\ Host[i] # x
  /\ kind = "process" => OnePerPid([Host EXCEPT ![i] = x])
  /\ moments' = Append(moments, [Host EXCEPT ![i] = x])
  /\ UNCHANGED <<kind, privilege, storeVars, step, frameVars, journalVars, failureVars,
                 silent, overlapped>>

\* sudo or su leaves its record in the journal; only changes of files are
\* correlated with it.
LogPrivilege ==
  /\ kind = "file" /\ MoreEvents
  /\ privilege' = privilege + 1
  /\ UNCHANGED <<kind, moments, storeVars, step, frameVars, journalVars, failureVars,
                 silent, overlapped>>

-----------------------------------------------------------------------------
\* collect_once: listeners, journals, then files, accounts and processes.
Busy(w) == step[w] # "idle"

\* Mutant: the stored snapshot is read last for every kind.
LookFirst_always == kind \in Kinds

LookFirst == kind = "listener"

Compare == IF LookFirst THEN "look" ELSE "read"

\* Mutant: the journals are read last.
StepAfter_reordered(s) ==
  CASE s = "begin"   -> Compare
    [] s = "journal" -> "idle"
    [] OTHER         -> IF kind = "file" THEN "cursor" ELSE "idle"

\* What comes after the start, the journal, and the changes of this kind; what
\* the journal holds is correlated with files only.
StepAfter(s) ==
  CASE s = "begin"   -> IF kind = "file" THEN "cursor" ELSE Compare
    [] s = "journal" -> Compare
    [] OTHER         -> "idle"

\* Worker w goes to s; what it compares is gone.
GoTo(w, s) ==
  /\ step' = [step EXCEPT ![w] = s]
  /\ previous' = [previous EXCEPT ![w] = Nothing]
  /\ current' = [current EXCEPT ![w] = Nothing]
  /\ blind' = blind \ {w}
  /\ todo' = [todo EXCEPT ![w] = {}]
  /\ event' = [event EXCEPT ![w] = NoChange]
  /\ looked' = [looked EXCEPT ![w] = 1]

\* The records of privilege a pass can find: those in the table, and those that
\* no fault dropped and that are not in the hands of a worker which has stored
\* its cursor.
Findable ==
  privileged \cup
    {p \in (1 .. privilege) \ gone :
       \A v \in Workers : step[v] = "ingest" => p \notin fetched[v]}

BeginPass(w) ==
  /\ kind # "audit" /\ ~Busy(w)
  /\ GoTo(w, StepAfter("begin"))
  /\ known' = [known EXCEPT ![w] = Findable]
  /\ overlapped' = (overlapped \/ \E v \in Workers : Busy(v))
  /\ UNCHANGED <<hostVars, storeVars, mark, fetched, failureVars, silent>>

-----------------------------------------------------------------------------
\* The journal of collect_once; the module Ingest has all of it.
ReadCursor(w) ==
  /\ step[w] = "cursor"
  /\ GoTo(w, "fetch")
  /\ mark' = [mark EXCEPT ![w] = cursor]
  /\ known' = [known EXCEPT ![w] = Findable]
  /\ UNCHANGED <<hostVars, storeVars, fetched, failureVars, silent, overlapped>>

\* collect_auth: what follows the cursor.  While there is none, --since passes
\* over what is older than the last check, whenever that was.
FetchJournal(w) ==
  /\ step[w] = "fetch"
  /\ GoTo(w, "checkpoint")
  /\ \E passed \in IF mark[w] > 0 THEN {mark[w]} ELSE 0 .. privilege :
       LET older == IF mark[w] > 0 THEN {} ELSE 1 .. passed
       IN  /\ fetched' = [fetched EXCEPT ![w] = passed + 1 .. privilege]
           /\ mark' = [mark EXCEPT ![w] = IF passed < privilege THEN privilege ELSE @]
           /\ gone' = gone \cup older
           /\ known' = [known EXCEPT ![w] = @ \ (older \ privileged)]
  /\ UNCHANGED <<hostVars, storeVars, missed, faults, lost, hidden, silent, overlapped>>

\* journalctl fails: this pass knows of no more than the table holds.
JournalFails(w) ==
  /\ step[w] = "fetch"
  /\ GoTo(w, "ingest")
  /\ known' = [known EXCEPT ![w] = @ \cap privileged]
  /\ UNCHANGED <<hostVars, storeVars, mark, fetched, failureVars, silent, overlapped>>

\* set_state, before the first record is ingested.
StoreCursor(w) ==
  /\ step[w] = "checkpoint"
  /\ GoTo(w, "ingest")
  /\ cursor' = IF mark[w] > 0 THEN mark[w] ELSE cursor
  /\ UNCHANGED <<hostVars, privileged, snapshot, stored, rows, alarms, journalVars,
                 failureVars, silent, overlapped>>

\* The records in their order.
IngestRecord(w) ==
  /\ step[w] = "ingest"
  /\ GoTo(w, "ingest")
  /\ \E p \in fetched[w] :
       /\ \A q \in fetched[w] : p <= q
       /\ privileged' = privileged \cup {p}
       /\ fetched' = [fetched EXCEPT ![w] = @ \ {p}]
  /\ UNCHANGED <<hostVars, cursor, snapshot, stored, rows, alarms, mark, known,
                 failureVars, silent, overlapped>>

EndJournal(w) ==
  /\ step[w] = "ingest" /\ fetched[w] = {}
  /\ GoTo(w, StepAfter("journal"))
  /\ mark' = [mark EXCEPT ![w] = 0]
  /\ UNCHANGED <<hostVars, storeVars, fetched, known, failureVars, silent, overlapped>>

CollectJournal(w) ==
  \/ ReadCursor(w) \/ FetchJournal(w) \/ JournalFails(w)
  \/ StoreCursor(w) \/ IngestRecord(w) \/ EndJournal(w)

-----------------------------------------------------------------------------
\* Mutant: what the stored snapshot holds is not read from the host again.
Look_cached(w) ==
  /\ step[w] = "look"
  /\ current' = [current EXCEPT ![w] =
                   [i \in Items |-> IF snapshot[i] = Absent THEN Host[i] ELSE snapshot[i]]]
  /\ looked' = [looked EXCEPT ![w] = Len(moments)]
  /\ step' = [step EXCEPT ![w] = IF LookFirst THEN "read" ELSE "save"]
  /\ UNCHANGED <<hostVars, storeVars, previous, blind, todo, event, journalVars,
                 failureVars, silent, overlapped>>

\* collect_network, file_snapshot, account_snapshot, process_snapshot: what
\* cannot be read is left out, and of the sockets the process's own are.
LeftOut(w, unread) == unread \cup (IF kind = "listener" THEN Own[w] ELSE {})

Snapshot(out) == [i \in Items |-> IF i \in out THEN Absent ELSE Host[i]]

Look(w) ==
  /\ step[w] = "look"
  /\ \E unread \in SUBSET Items :
       LET out == LeftOut(w, unread)
       IN  /\ unread # {} => MoreEvents
           /\ missed' = IF unread = {} THEN missed ELSE missed + 1
           /\ current' = [current EXCEPT ![w] = Snapshot(out)]
           /\ hidden' = hidden \cup {[item |-> i, at |-> Len(moments)] :
                                       i \in {k \in out : Host[k] # Absent}}
  /\ looked' = [looked EXCEPT ![w] = Len(moments)]
  /\ step' = [step EXCEPT ![w] = IF LookFirst THEN "read" ELSE "save"]
  /\ UNCHANGED <<hostVars, storeVars, previous, blind, todo, event, journalVars, faults,
                 lost, gone, silent, overlapped>>

\* Mutant: a snapshot that misses one item is no baseline.
NoBaseline_partial == \E i \in Items : snapshot[i] = Absent

\* "not previous": a snapshot of accounts is never empty, for it has its keys
\* users and groups; any other is when it holds nothing.
NoBaseline == IF kind = "account" THEN ~stored ELSE snapshot = Nothing

Read(w) ==
  /\ step[w] = "read"
  /\ previous' = [previous EXCEPT ![w] = snapshot]
  /\ blind' = IF NoBaseline THEN blind \cup {w} ELSE blind
  /\ step' = [step EXCEPT ![w] = IF LookFirst THEN "save" ELSE "look"]
  /\ UNCHANGED <<hostVars, storeVars, current, todo, event, looked, journalVars,
                 failureVars, silent, overlapped>>

NewListener(i, before, after) == before = Absent /\ after # Absent /\ <<i, after>> \notin Quiet

SuspiciousProcess(before, after) == before = Absent /\ after \in Suspicious

Changed(before, after) == before # after

\* Mutant: of every kind only new keys are told.
Reportable_new(i, before, after) ==
  CASE kind = "listener" -> NewListener(i, before, after)
    [] kind = "process"  -> SuspiciousProcess(before, after)
    [] OTHER             -> before = Absent /\ after # Absent

\* Of listeners and processes some new keys; of files and accounts any difference.
Reportable(i, before, after) ==
  CASE kind = "listener" -> NewListener(i, before, after)
    [] kind = "process"  -> SuspiciousProcess(before, after)
    [] OTHER             -> Changed(before, after)

\* file_change_events, account_change_events, suspicious_process_events and the
\* loop of _correlate_new_listeners.
Changes(w) ==
  LET told == {i \in Items : w \notin blind /\ Reportable(i, previous[w][i], current[w][i])}
  IN  {[item |-> i, before |-> previous[w][i], after |-> current[w][i]] : i \in told}

\* The snapshot replaces the stored one, whatever that has become.
Save(w) ==
  /\ step[w] = "save"
  /\ snapshot' = current[w]
  /\ stored' = TRUE
  /\ todo' = [todo EXCEPT ![w] = Changes(w)]
  /\ silent' = IF w \in blind
                 THEN silent \cup {[item |-> i, state |-> current[w][i], at |-> looked[w]] :
                                     i \in Items}
                 ELSE silent
  /\ step' = [step EXCEPT ![w] = "add"]
  /\ previous' = [previous EXCEPT ![w] = Nothing]
  /\ current' = [current EXCEPT ![w] = Nothing]
  /\ blind' = blind \ {w}
  /\ looked' = [looked EXCEPT ![w] = 1]
  /\ UNCHANGED <<hostVars, cursor, privileged, rows, alarms, event, journalVars,
                 failureVars, overlapped>>

-----------------------------------------------------------------------------
\* ingest.
\* Mutant: the state before the change is no part of the fingerprint.
HasRow_after(c) ==
  \E n \in DOMAIN rows : rows[n].change.item = c.item /\ rows[n].change.after = c.after

\* The evidence of a file, an account or a listener is its change; that of a
\* process has the pid and what runs, and not when it was started.
fingerprint(c) == IF kind = "process" THEN [c EXCEPT !.item = PidOf[@]] ELSE c

HasRow(c) == \E n \in DOMAIN rows : fingerprint(rows[n].change) = fingerprint(c)

\* Mutant: which event is to be correlated is forgotten.
Add_forgetful(w) ==
  /\ step[w] = "add"
  /\ \E c \in todo[w] :
       /\ todo' = [todo EXCEPT ![w] = @ \ {c}]
       /\ rows' = IF HasRow(c) THEN rows
                  ELSE Append(rows, [change |-> c, known |-> known[w]])
       /\ step' = IF ~HasRow(c) /\ kind = "file" /\ c.item \in Persistent
                    THEN [step EXCEPT ![w] = "correlate"] ELSE step
  /\ UNCHANGED <<hostVars, cursor, privileged, snapshot, stored, alarms, previous,
                 current, blind, event, looked, journalVars, failureVars, silent,
                 overlapped>>

\* add_event and the decision.  The fingerprint has no time: a change that has a
\* row already is dropped.  Of the changes only those of persistent files are
\* correlated.
Add(w) ==
  /\ step[w] = "add"
  /\ \E c \in todo[w] :
       /\ todo' = [todo EXCEPT ![w] = @ \ {c}]
       /\ rows' = IF HasRow(c) THEN rows
                  ELSE Append(rows, [change |-> c, known |-> known[w]])
       /\ IF ~HasRow(c) /\ kind = "file" /\ c.item \in Persistent
            THEN /\ step' = [step EXCEPT ![w] = "correlate"]
                 /\ event' = [event EXCEPT ![w] = c]
            ELSE UNCHANGED <<step, event>>
  /\ UNCHANGED <<hostVars, cursor, privileged, snapshot, stored, alarms, previous,
                 current, blind, looked, journalVars, failureVars, silent, overlapped>>

\* _correlate_persistence: the records of the last ten minutes, which everything
\* here fits into; the evidence names the last ten of those the alarm rests on.
CorrelatePersistence(w) ==
  /\ step[w] = "correlate"
  /\ alarms' = IF privileged = {} THEN alarms
               ELSE alarms \cup {[path |-> event[w].item, privilege |-> privileged]}
  /\ step' = [step EXCEPT ![w] = "add"]
  /\ event' = [event EXCEPT ![w] = NoChange]
  /\ UNCHANGED <<hostVars, cursor, privileged, snapshot, stored, rows, previous, current,
                 blind, todo, looked, journalVars, failureVars, silent, overlapped>>

\* What comes after the last change; a pass forgets what it knew.
Leave(w, s) ==
  /\ GoTo(w, s)
  /\ mark' = [mark EXCEPT ![w] = 0]
  /\ fetched' = [fetched EXCEPT ![w] = {}]
  /\ known' = [known EXCEPT ![w] = {}]
  /\ UNCHANGED <<hostVars, storeVars, missed, hidden, silent, overlapped>>

Finish(w) ==
  /\ step[w] = "add" /\ todo[w] = {}
  /\ Leave(w, StepAfter("add"))
  /\ UNCHANGED <<faults, lost, gone>>

Pending(w) == todo[w] \cup ({event[w]} \ {NoChange})

\* An exception: OSError and ValueError leave the kind, any other collect_once,
\* and the end of a process leaves everything.  Records whose cursor is not yet
\* stored are fetched again.
Fail(w) ==
  /\ Busy(w) /\ MoreEvents
  /\ faults' = faults + 1
  /\ lost' = lost \cup Pending(w)
  /\ gone' = IF step[w] = "ingest" THEN gone \cup fetched[w] ELSE gone
  /\ Leave(w, "idle")

Continue(w) ==
  \/ CollectJournal(w)
  \/ Look(w) \/ Read(w) \/ Save(w)
  \/ Add(w) \/ CorrelatePersistence(w) \/ Finish(w)

SnapshotNext ==
  \/ \E i \in Items, x \in States : HostChanges(i, x)
  \/ LogPrivilege
  \/ \E w \in Workers : BeginPass(w) \/ Continue(w) \/ Fail(w)

SnapshotSpec == SnapshotInit /\ [][SnapshotNext]_snapshotVars

\* run() begins a pass again and again; a pass that has begun goes on, as every
\* read and store call returns.
SnapshotFairness ==
  /\ WF_snapshotVars(BeginPass(Loop))
  /\ \A w \in Workers : WF_snapshotVars(Continue(w))

-----------------------------------------------------------------------------
HostOK ==
  /\ kind \in Kinds
  /\ moments \in Seq([Items -> States]) /\ moments # <<>>
  /\ privilege \in Nat /\ missed \in Nat /\ faults \in Nat
  /\ Len(moments) - 1 + privilege + missed + faults <= MaxEvents

Privileges == 1 .. privilege

StoreOK ==
  /\ cursor \in 0 .. privilege /\ privileged \subseteq Privileges
  /\ snapshot \in [Items -> States] /\ stored \in BOOLEAN
  /\ rows \in Seq([change : Change, known : SUBSET Privileges])
  /\ alarms \subseteq [path : Persistent, privilege : SUBSET Privileges]
  /\ lost \subseteq Change /\ gone \subseteq Privileges
  /\ hidden \subseteq [item : Items, at : DOMAIN moments]
  /\ silent \subseteq [item : Items, state : States, at : DOMAIN moments]

Steps == {"idle", "cursor", "fetch", "checkpoint", "ingest", "look", "read", "save",
          "add", "correlate"}

PassOK ==
  /\ step \in [Workers -> Steps]
  /\ previous \in [Workers -> [Items -> States]]
  /\ current \in [Workers -> [Items -> States]]
  /\ blind \subseteq Workers
  /\ todo \in [Workers -> SUBSET Change]
  /\ event \in [Workers -> Change \cup {NoChange}]
  /\ looked \in [Workers -> DOMAIN moments]
  /\ mark \in [Workers -> 0 .. privilege]
  /\ fetched \in [Workers -> SUBSET Privileges] /\ known \in [Workers -> SUBSET Privileges]
  /\ overlapped \in BOOLEAN
  /\ \A w \in Workers :
       /\ step[w] \notin {"add", "correlate"} => todo[w] = {}
       /\ step[w] = "correlate" => event[w] # NoChange /\ event[w].item \in Persistent
       /\ step[w] # "correlate" => event[w] = NoChange

\* What every variable holds; only a worker that compared has changes to ingest.
SnapshotTypeOK == HostOK /\ StoreOK /\ PassOK

\* The change was reported, is about to be, or went with a fault.
Accounted(c) == HasRow(c) \/ c \in lost \/ \E w \in Workers : c \in Pending(w)

\* Whatever the stored snapshot has come to say, by whichever worker, was
\* reported: the state of an item, its absence included, is that of a change with
\* a row, in some worker's batch or dropped by a fault, unless a pass without a
\* baseline stored it.  Of listeners and processes only a new key is told, and only
\* of some: one whose key was there in another state before goes unnoticed.
StoredExplained ==
  stored => \A i \in Items :
    \/ \E c \in Change : c.item = i /\ c.after = snapshot[i] /\ Accounted(c)
    \/ \E s \in silent : s.item = i /\ s.state = snapshot[i]
    \/ /\ kind \in {"listener", "process"}
       /\ \/ ~Reportable(i, Absent, snapshot[i])
          \/ \E n \in DOMAIN moments : moments[n][i] \notin {Absent, snapshot[i]}

\* The item was in that state at that moment, or was left out of a snapshot then.
Shown(n, i, x) ==
  moments[n][i] = x \/ (x = Absent /\ [item |-> i, at |-> n] \in hidden)

\* A row about a file, an account or a process tells of two moments of the host
\* in their order, however workers overtake each other: the stored snapshot is
\* read before the new one is taken.  Listeners are looked at first; their rows
\* are right as long as one worker runs at a time.
RowsInOrder ==
  \A r \in DOMAIN rows : kind # "listener" \/ ~overlapped =>
    LET c == rows[r].change
    IN  \E n, m \in DOMAIN moments :
          n <= m /\ Shown(n, c.item, c.before) /\ Shown(m, c.item, c.after)

\* With one worker at a time, two baselines mean that at some moment between them
\* there was nothing of the kind that a snapshot could show: failed passes and
\* restarts never make JevGuard take what it finds for granted again.
BaselineOnce ==
  ~overlapped =>
    \A s, t \in silent : s.at < t.at =>
      kind # "account" /\ \E n \in s.at .. t.at : \A i \in Items : Shown(n, i, Absent)

OneBaseline == \A s, t \in silent : s.at = t.at

Settled == \A w \in Workers : Pending(w) = {}

\* With one worker at a time, no failure and one baseline, the newest row about a file or
\* an account ends in the state that is stored, or else every change since then
\* repeats one that has a row: only a repeated change leaves no row behind.
NewestRowCurrent ==
  /\ kind \in {"file", "account"} /\ Settled /\ OneBaseline
  /\ faults = 0 /\ missed = 0 /\ ~overlapped
  =>
    \A i \in Items : \A r \in DOMAIN rows :
      LET about == {n \in DOMAIN rows : rows[n].change.item = i}
          Edge(x, y) == \E n \in about : rows[n].change.before = x /\ rows[n].change.after = y
      IN  (r \in about /\ \A n \in about : n <= r) =>
            \E path \in UNION {[1 .. n -> States] : n \in 1 .. MaxEvents} :
              /\ path[1] = rows[r].change.after
              /\ path[Len(path)] = snapshot[i]
              /\ \A n \in 1 .. Len(path) - 1 : Edge(path[n], path[n + 1])

\* README.md: privilege followed by persistence.  A change of persistence that a
\* pass reports has an alarm on its path that rests on every sudo logged before
\* the pass began, which reads and ingests the journal before it compares the
\* files.  Not so for a record that journalctl failed to give it, that a fault
\* dropped or --since passed over, or that another worker, with its cursor
\* stored, has still in its hands.
PersistenceAlarmed ==
  \A n \in DOMAIN rows :
    LET c == rows[n].change
    IN  (kind = "file" /\ c.item \in Persistent /\ rows[n].known # {}) =>
          \/ \E a \in alarms : a.path = c.item /\ rows[n].known \subseteq a.privilege
          \/ c \in lost \/ \E w \in Workers : event[w] = c

Reported(i, x) ==
  \/ \E n \in DOMAIN rows : rows[n].change.item = i /\ rows[n].change.after = x
  \/ \E s \in silent : s.item = i /\ s.state = x
  \/ \E c \in lost : c.item = i /\ c.after = x

\* A file or account that changes no more is reported in its state in the end,
\* unless a pass without a baseline found it so or a fault dropped it.
ChangesReported ==
  \A i \in Items :
    <>[][FALSE]_(Host[i]) =>
      <>[](kind \in {"file", "account"} /\ Host[i] # Absent => Reported(i, Host[i]))

=============================================================================
