-------------------------- MODULE SnapshotsProofs --------------------------
(***************************************************************************)
(* Proofs about Snapshots: types, that whatever is stored was reported or  *)
(* is excused, that rows tell of moments in their order, that a baseline   *)
(* is taken once, that privilege before persistence raises the alarm, and  *)
(* that the newest row leads to what is stored.                            *)
(***************************************************************************)
EXTENDS Snapshots, TLAPS

-----------------------------------------------------------------------------
\* A sequence over a set is one over any set that holds it.
LEMMA SeqWiden == ASSUME NEW S, NEW T, S \subseteq T, NEW q \in Seq(S) PROVE q \in Seq(T)
  OBVIOUS

\* So is one with another element.
LEMMA SeqAppend == ASSUME NEW S, NEW q \in Seq(S), NEW x \in S PROVE Append(q, x) \in Seq(S)
  OBVIOUS

\* Its elements stay where they were.
LEMMA AppendKeeps ==
  ASSUME NEW S, NEW q \in Seq(S), NEW x
  PROVE  /\ DOMAIN q \subseteq DOMAIN Append(q, x)
         /\ \A n \in DOMAIN q : Append(q, x)[n] = q[n]
  OBVIOUS

\* And they are in the set.
LEMMA SeqElement == ASSUME NEW S, NEW q \in Seq(S), NEW n \in DOMAIN q PROVE q[n] \in S
  OBVIOUS

\* Where GoTo leads.
Stops == {"idle", "cursor", "fetch", "checkpoint", "ingest", "look", "read"}

\* GoTo leaves a worker with nothing to compare.
LEMMA GoToTypes ==
  ASSUME HostOK, PassOK, NEW w \in Workers, NEW s \in Stops,
         GoTo(w, s), moments' = moments, privilege' = privilege,
         mark' \in [Workers -> 0 .. privilege], fetched' \in [Workers -> SUBSET Privileges],
         known' \in [Workers -> SUBSET Privileges], overlapped' \in BOOLEAN
  PROVE  PassOK'
<1>1. 1 \in DOMAIN moments
  BY DEF HostOK
<1>2. Nothing \in [Items -> States]
  BY DEF Nothing, States
<1>3. /\ step' = [step EXCEPT ![w] = s]
      /\ previous' = [previous EXCEPT ![w] = Nothing]
      /\ current' = [current EXCEPT ![w] = Nothing]
      /\ blind' = blind \ {w} /\ todo' = [todo EXCEPT ![w] = {}]
      /\ event' = [event EXCEPT ![w] = NoChange] /\ looked' = [looked EXCEPT ![w] = 1]
  BY DEF GoTo
<1>4. /\ previous' \in [Workers -> [Items -> States]]
      /\ current' \in [Workers -> [Items -> States]]
      /\ looked' \in [Workers -> DOMAIN moments']
  BY <1>1, <1>2, <1>3 DEF PassOK
<1>5. /\ step' \in [Workers -> Steps]
      /\ blind' \subseteq Workers
      /\ todo' \in [Workers -> SUBSET Change]
      /\ event' \in [Workers -> Change \cup {NoChange}]
      /\ \A v \in Workers :
           /\ step'[v] \notin {"add", "correlate"} => todo'[v] = {}
           /\ step'[v] = "correlate" => event'[v] # NoChange /\ event'[v].item \in Persistent
           /\ step'[v] # "correlate" => event'[v] = NoChange
  BY <1>3 DEF PassOK, Stops, Steps
<1>6. Privileges' = Privileges
  BY DEF Privileges
<1> QED BY <1>4, <1>5, <1>6 DEF PassOK

\* Where GoTo is used for.
LEMMA StepsAfter ==
  /\ StepAfter("begin") \in Stops /\ StepAfter("journal") \in Stops
  /\ StepAfter("add") = "idle"
  BY Zenon DEF StepAfter, Compare, LookFirst, Stops

\* Where GoTo leads, never to what comes after the stored snapshot was read.
LEMMA StepsLook ==
  /\ StepAfter("begin") = "look" => LookFirst
  /\ StepAfter("journal") = "look" => LookFirst
  /\ StepAfter("begin") = "read" => ~LookFirst
  /\ StepAfter("journal") = "read" => ~LookFirst
<1>1. StepAfter("journal") = Compare
  BY Zenon DEF StepAfter
<1>2. StepAfter("begin") \in {Compare, "cursor"}
  BY Zenon DEF StepAfter
<1>3. (Compare = "look" => LookFirst) /\ (Compare = "read" => ~LookFirst)
  BY DEF Compare
<1> QED BY <1>1, <1>2, <1>3

\* The steps of the journal move a worker on and touch none of what is compared.
LEMMA JournalFrame ==
  ASSUME NEW w, CollectJournal(w)
  PROVE  /\ step[w] \in {"cursor", "fetch", "checkpoint", "ingest"}
         /\ \E s \in Stops : GoTo(w, s) /\ (s = "look" => LookFirst) /\ (s = "read" => ~LookFirst)
         /\ UNCHANGED <<kind, moments, privilege, snapshot, stored, rows, alarms, missed,
                        faults, lost, hidden, silent, overlapped>>
<1>1. CASE ReadCursor(w)
  BY <1>1 DEF ReadCursor, Stops, hostVars, storeVars, failureVars
<1>2. CASE FetchJournal(w)
  BY <1>2 DEF FetchJournal, Stops, hostVars, storeVars
<1>3. CASE JournalFails(w)
  BY <1>3 DEF JournalFails, Stops, hostVars, storeVars, failureVars
<1>4. CASE StoreCursor(w)
  BY <1>4 DEF StoreCursor, Stops, hostVars, failureVars
<1>5. CASE IngestRecord(w)
  BY <1>5 DEF IngestRecord, Stops, hostVars, failureVars
<1>6. CASE EndJournal(w)
  BY <1>6, StepsAfter, StepsLook DEF EndJournal, hostVars, storeVars, failureVars
<1> QED BY <1>1, <1>2, <1>3, <1>4, <1>5, <1>6 DEF CollectJournal

\* What a fetch leaves: what follows the mark is fetched, unless --since passes over it.
LEMMA FetchPasses ==
  ASSUME PassOK, HostOK, NEW w \in Workers, FetchJournal(w)
  PROVE  \E passed \in 0 .. privilege, older \in SUBSET Privileges :
           /\ fetched' = [fetched EXCEPT ![w] = passed + 1 .. privilege]
           /\ mark' = [mark EXCEPT ![w] = IF passed < privilege THEN privilege ELSE @]
           /\ gone' = gone \cup older
           /\ known' = [known EXCEPT ![w] = @ \ (older \ privileged)]
           /\ mark[w] > 0 => passed = mark[w] /\ older = {}
           /\ mark[w] = 0 => older = 1 .. passed
<1>1. PICK passed \in IF mark[w] > 0 THEN {mark[w]} ELSE 0 .. privilege :
        LET older == IF mark[w] > 0 THEN {} ELSE 1 .. passed
        IN  /\ fetched' = [fetched EXCEPT ![w] = passed + 1 .. privilege]
            /\ mark' = [mark EXCEPT ![w] = IF passed < privilege THEN privilege ELSE @]
            /\ gone' = gone \cup older
            /\ known' = [known EXCEPT ![w] = @ \ (older \ privileged)]
  BY DEF FetchJournal
<1>2. PICK older : older = IF mark[w] > 0 THEN {} ELSE 1 .. passed
  OBVIOUS
<1>3. mark[w] \in 0 .. privilege /\ privilege \in Nat
  BY DEF PassOK, HostOK
<1>4. passed \in 0 .. privilege /\ older \in SUBSET Privileges
  BY <1>1, <1>2, <1>3 DEF Privileges
<1>5. /\ mark[w] > 0 => passed = mark[w] /\ older = {}
      /\ mark[w] = 0 => older = 1 .. passed
  BY <1>1, <1>2
<1> QED BY <1>1, <1>2, <1>4, <1>5

\* What the steps of the journal change is well typed.
LEMMA JournalTypes ==
  ASSUME HostOK, StoreOK, PassOK, NEW w \in Workers, CollectJournal(w)
  PROVE  /\ cursor' \in 0 .. privilege
         /\ privileged' \subseteq Privileges /\ gone' \subseteq Privileges
         /\ mark' \in [Workers -> 0 .. privilege]
         /\ fetched' \in [Workers -> SUBSET Privileges]
         /\ known' \in [Workers -> SUBSET Privileges]
<1> DEFINE Goal == /\ cursor' \in 0 .. privilege
                   /\ privileged' \subseteq Privileges /\ gone' \subseteq Privileges
                   /\ mark' \in [Workers -> 0 .. privilege]
                   /\ fetched' \in [Workers -> SUBSET Privileges]
                   /\ known' \in [Workers -> SUBSET Privileges]
<1>0. /\ cursor \in 0 .. privilege /\ privilege \in Nat
      /\ privileged \subseteq Privileges /\ gone \subseteq Privileges
      /\ mark \in [Workers -> 0 .. privilege]
      /\ fetched \in [Workers -> SUBSET Privileges]
      /\ known \in [Workers -> SUBSET Privileges]
  BY DEF HostOK, StoreOK, PassOK
<1>1. CASE ReadCursor(w)
  <2>1. Findable \subseteq Privileges
    BY <1>0 DEF Findable, Privileges
  <2>2. /\ mark' = [mark EXCEPT ![w] = cursor] /\ known' = [known EXCEPT ![w] = Findable]
        /\ UNCHANGED <<cursor, privileged, gone, fetched>>
    BY <1>1 DEF ReadCursor, storeVars, failureVars
  <2> QED BY <1>0, <2>1, <2>2
<1>2. CASE FetchJournal(w)
  <2>1. PICK passed \in 0 .. privilege, older \in SUBSET Privileges :
          /\ fetched' = [fetched EXCEPT ![w] = passed + 1 .. privilege]
          /\ mark' = [mark EXCEPT ![w] = IF passed < privilege THEN privilege ELSE @]
          /\ gone' = gone \cup older
          /\ known' = [known EXCEPT ![w] = @ \ (older \ privileged)]
          /\ mark[w] > 0 => passed = mark[w] /\ older = {}
          /\ mark[w] = 0 => older = 1 .. passed
    BY <1>2, FetchPasses, Zenon
  <2>2. passed + 1 .. privilege \in SUBSET Privileges /\ privilege \in 0 .. privilege
    BY <1>0 DEF Privileges
  <2>3. fetched' \in [Workers -> SUBSET Privileges]
    BY <1>0, <2>1, <2>2
  <2>4. mark' \in [Workers -> 0 .. privilege]
    BY <1>0, <2>1, <2>2
  <2>5. known' \in [Workers -> SUBSET Privileges]
    BY <1>0, <2>1
  <2>6. UNCHANGED <<cursor, privileged>>
    BY <1>2 DEF FetchJournal, storeVars
  <2> QED BY <1>0, <2>1, <2>3, <2>4, <2>5, <2>6
<1>3. CASE JournalFails(w)
  BY <1>0, <1>3 DEF JournalFails, storeVars, failureVars
<1>4. CASE StoreCursor(w)
  BY <1>0, <1>4 DEF StoreCursor, journalVars, failureVars
<1>5. CASE IngestRecord(w)
  BY <1>0, <1>5 DEF IngestRecord, failureVars
<1>6. CASE EndJournal(w)
  BY <1>0, <1>6 DEF EndJournal, storeVars, failureVars
<1> QED BY <1>1, <1>2, <1>3, <1>4, <1>5, <1>6 DEF CollectJournal

\* The host as it is.
LEMMA HostTypes ==
  ASSUME HostOK
  PROVE  /\ Len(moments) \in Nat \ {0} /\ Len(moments) \in DOMAIN moments
         /\ Host \in [Items -> States] /\ Host = moments[Len(moments)]
  BY DEF HostOK, Host

\* What overlapped and stored become.
LEMMA FlagTypes ==
  ASSUME SnapshotTypeOK, [SnapshotNext]_snapshotVars
  PROVE  overlapped' \in BOOLEAN /\ stored' \in BOOLEAN
<1>1. overlapped' \in BOOLEAN
  BY JournalFrame DEF SnapshotTypeOK, PassOK, SnapshotNext, HostChanges, LogPrivilege,
         BeginPass, Continue, Look, Read, Save, Add, CorrelatePersistence, Finish, Fail, Leave,
         snapshotVars
<1>2. stored' \in BOOLEAN
  BY JournalFrame DEF SnapshotTypeOK, StoreOK, SnapshotNext, HostChanges, LogPrivilege,
         BeginPass, Continue, Look, Read, Save, Add, CorrelatePersistence, Finish, Fail, Leave,
         snapshotVars, storeVars
<1> QED BY <1>1, <1>2

\* What a comparison finds.
LEMMA ChangeTypes ==
  ASSUME PassOK, NEW w \in Workers
  PROVE  /\ Changes(w) \subseteq Change
         /\ \A c \in Changes(w) : /\ w \notin blind
                                  /\ c.before = previous[w][c.item]
                                  /\ c.after = current[w][c.item]
  BY DEF Changes, Change, PassOK

\* What a worker takes from the host: what is there, less what is left out; and what
\* that hides.  Where no read fails nothing but the sockets of its process is left out.
LEMMA LookTaken ==
  ASSUME HostOK, NEW w \in Workers, Look(w)
  PROVE  \E c \in [Items -> States] :
           /\ current' = [current EXCEPT ![w] = c]
           /\ hidden \subseteq hidden'
           /\ hidden' \subseteq hidden \cup [item : Items, at : {Len(moments)}]
           /\ \A i \in Items : \/ c[i] = Host[i]
                               \/ c[i] = Absent /\ [item |-> i, at |-> Len(moments)] \in hidden'
           /\ missed' \in Nat /\ missed' >= missed
           /\ missed' = 0 /\ kind # "listener" => c = Host /\ hidden' = hidden
<1>1. PICK unread \in SUBSET Items :
        LET out == LeftOut(w, unread)
        IN  /\ missed' = IF unread = {} THEN missed ELSE missed + 1
            /\ current' = [current EXCEPT ![w] = Snapshot(out)]
            /\ hidden' = hidden \cup {[item |-> i, at |-> Len(moments)] :
                                        i \in {k \in out : Host[k] # Absent}}
  BY DEF Look
<1>2. PICK out : out = LeftOut(w, unread)
  OBVIOUS
<1>3. out \subseteq Items /\ (kind # "listener" => out = unread)
  BY <1>2, SnapshotsAssumption DEF LeftOut
<1>4. PICK c : c = Snapshot(out)
  OBVIOUS
<1>5. /\ current' = [current EXCEPT ![w] = c]
      /\ hidden' = hidden \cup {[item |-> i, at |-> Len(moments)] :
                                  i \in {k \in out : Host[k] # Absent}}
  BY <1>1, <1>2, <1>4
<1>6. missed \in Nat /\ Host \in [Items -> States] /\ Absent \in States
  BY HostTypes DEF HostOK, States
<1>7. c \in [Items -> States] /\ \A i \in Items : c[i] = IF i \in out THEN Absent ELSE Host[i]
  BY <1>4, <1>6 DEF Snapshot
<1>8. hidden \subseteq hidden' /\ hidden' \subseteq hidden \cup [item : Items, at : {Len(moments)}]
  BY <1>3, <1>5
<1>9. ASSUME NEW i \in Items
      PROVE  c[i] = Host[i] \/ (c[i] = Absent /\ [item |-> i, at |-> Len(moments)] \in hidden')
  <2>1. CASE i \in {k \in out : Host[k] # Absent}
    BY <1>5, <1>7, <2>1
  <2>2. CASE i \notin {k \in out : Host[k] # Absent}
    BY <1>7, <2>2
  <2> QED BY <2>1, <2>2
<1>10. missed' \in Nat /\ missed' >= missed /\ (missed' = 0 => unread = {})
  BY <1>1, <1>6
<1>11. ASSUME missed' = 0, kind # "listener" PROVE c = Host /\ hidden' = hidden
  <2>1. out = {}
    BY <1>3, <1>10, <1>11
  <2> QED BY <1>5, <1>6, <1>7, <2>1
<1> QED BY <1>5, <1>7, <1>8, <1>9, <1>10, <1>11

\* Type correctness is kept by every step.
LEMMA NextTypes == SnapshotTypeOK /\ [SnapshotNext]_snapshotVars => SnapshotTypeOK'
<1> SUFFICES ASSUME SnapshotTypeOK, HostOK, StoreOK, PassOK, [SnapshotNext]_snapshotVars
             PROVE  HostOK' /\ StoreOK' /\ PassOK'
  BY DEF SnapshotTypeOK
<1> DEFINE Goal == HostOK' /\ StoreOK' /\ PassOK'
<1>0. overlapped' \in BOOLEAN /\ stored' \in BOOLEAN
  BY FlagTypes
<1>1. Len(moments) \in Nat \ {0} /\ Len(moments) \in DOMAIN moments /\ MaxEvents \in Nat
  BY HostTypes, SnapshotsAssumption
<1>2. ASSUME NEW i \in Items, NEW x \in States, HostChanges(i, x) PROVE Goal
  <2>1. [Host EXCEPT ![i] = x] \in [Items -> States]
    BY HostTypes
  <2>2. /\ moments' \in Seq([Items -> States]) /\ Len(moments') = Len(moments) + 1
        /\ DOMAIN moments \subseteq DOMAIN moments'
    BY <1>1, <1>2, <2>1 DEF HostChanges, HostOK
  <2>3. HostOK'
    BY <1>1, <1>2, <2>2 DEF HostChanges, HostOK, MoreEvents, failureVars
  <2>4. StoreOK'
    BY <1>0, <1>2, <2>2 DEF HostChanges, StoreOK, Privileges, storeVars, failureVars
  <2>5. PassOK'
    BY <1>2, <2>2 DEF HostChanges, PassOK, Privileges, Steps, frameVars, journalVars
  <2> QED BY <2>3, <2>4, <2>5
<1>3. CASE LogPrivilege
  <2>1. HostOK' /\ privilege \in Nat /\ privilege' = privilege + 1
    BY <1>1, <1>3 DEF LogPrivilege, HostOK, MoreEvents, failureVars
  <2>2. 0 .. privilege \subseteq 0 .. privilege' /\ Privileges \subseteq Privileges'
    BY <2>1 DEF Privileges
  <2>3. rows \in Seq([change : Change, known : SUBSET Privileges'])
    <3>1. [change : Change, known : SUBSET Privileges]
            \subseteq [change : Change, known : SUBSET Privileges']
      BY <2>2
    <3> QED BY <3>1, SeqWiden DEF StoreOK
  <2>4. alarms \subseteq [path : Persistent, privilege : SUBSET Privileges']
    BY <2>2 DEF StoreOK
  <2>5. StoreOK'
    BY <1>0, <1>3, <2>2, <2>3, <2>4 DEF LogPrivilege, StoreOK, storeVars, failureVars
  <2>6. PassOK'
    BY <1>3, <2>2 DEF LogPrivilege, PassOK, frameVars, journalVars
  <2> QED BY <2>1, <2>5, <2>6
<1>4. ASSUME NEW w \in Workers, BeginPass(w) PROVE Goal
  <2>1. HostOK' /\ StoreOK'
    BY <1>0, <1>4 DEF BeginPass, HostOK, StoreOK, Privileges, hostVars, storeVars, failureVars
  <2>2. Findable \subseteq Privileges
    BY DEF Findable, Privileges, StoreOK
  <2>3. /\ known' \in [Workers -> SUBSET Privileges]
        /\ mark' \in [Workers -> 0 .. privilege] /\ fetched' \in [Workers -> SUBSET Privileges]
    BY <1>4, <2>2 DEF BeginPass, PassOK
  <2> QED BY <1>0, <1>4, <2>1, <2>3, GoToTypes, StepsAfter DEF BeginPass, hostVars
<1>5. ASSUME NEW w \in Workers, CollectJournal(w) PROVE Goal
  <2>1. HostOK'
    BY <1>5, JournalFrame DEF HostOK
  <2>2. /\ cursor' \in 0 .. privilege /\ privileged' \subseteq Privileges
        /\ gone' \subseteq Privileges
        /\ mark' \in [Workers -> 0 .. privilege]
        /\ fetched' \in [Workers -> SUBSET Privileges]
        /\ known' \in [Workers -> SUBSET Privileges]
    BY <1>5, JournalTypes
  <2>3. UNCHANGED <<moments, privilege, snapshot, rows, alarms, lost, hidden, silent>>
    BY <1>5, JournalFrame
  <2>4. StoreOK'
    BY <1>0, <2>2, <2>3 DEF StoreOK, Privileges
  <2>5. PICK s \in Stops : GoTo(w, s)
    BY <1>5, JournalFrame
  <2> QED BY <1>0, <2>1, <2>2, <2>3, <2>4, <2>5, GoToTypes
<1>6. ASSUME NEW w \in Workers, Look(w) PROVE Goal
  <2>1. HostOK' /\ StoreOK'
    <3>1. /\ missed' \in {missed, missed + 1} /\ (missed' # missed => MoreEvents)
          /\ UNCHANGED <<hostVars, storeVars, faults, lost, gone, silent>>
      BY <1>6 DEF Look
    <3>2. hidden' \subseteq hidden \cup [item : Items, at : {Len(moments)}]
      BY <1>6, LookTaken
    <3>3. hidden' \subseteq [item : Items, at : DOMAIN moments]
      BY <1>1, <3>2 DEF StoreOK
    <3> QED BY <1>0, <1>1, <3>1, <3>3
            DEF HostOK, StoreOK, MoreEvents, Privileges, hostVars, storeVars
  <2>2. PICK c \in [Items -> States] : current' = [current EXCEPT ![w] = c]
    BY <1>6, LookTaken
  <2>3. current' \in [Workers -> [Items -> States]]
    BY <2>2 DEF PassOK
  <2>4. /\ looked' = [looked EXCEPT ![w] = Len(moments)]
        /\ step' = [step EXCEPT ![w] = IF LookFirst THEN "read" ELSE "save"]
        /\ step[w] = "look"
        /\ UNCHANGED <<moments, privilege, previous, blind, todo, event, journalVars, overlapped>>
    BY <1>6 DEF Look, hostVars
  <2>5. PassOK'
    BY <1>1, <2>3, <2>4 DEF PassOK, Privileges, Steps, journalVars
  <2> QED BY <2>1, <2>5
<1>7. ASSUME NEW w \in Workers, Read(w) PROVE Goal
  <2>1. HostOK' /\ StoreOK'
    BY <1>0, <1>7 DEF Read, HostOK, StoreOK, Privileges, hostVars, storeVars, failureVars
  <2>2. /\ previous' = [previous EXCEPT ![w] = snapshot] /\ step[w] = "read"
        /\ step' = [step EXCEPT ![w] = IF LookFirst THEN "save" ELSE "look"]
        /\ blind' \subseteq Workers
        /\ UNCHANGED <<moments, privilege, current, todo, event, looked, journalVars, overlapped>>
    BY <1>7 DEF Read, hostVars, PassOK
  <2>3. previous' \in [Workers -> [Items -> States]]
    BY <2>2 DEF PassOK, StoreOK
  <2>4. PassOK'
    BY <2>2, <2>3 DEF PassOK, Privileges, Steps, journalVars
  <2> QED BY <2>1, <2>4
<1>8. ASSUME NEW w \in Workers, Save(w) PROVE Goal
  <2>1. HostOK'
    BY <1>8 DEF Save, HostOK, hostVars, failureVars
  <2>2. silent' \subseteq [item : Items, state : States, at : DOMAIN moments]
    <3>1. CASE w \in blind
      <4>1. ASSUME NEW i \in Items
            PROVE  [item |-> i, state |-> current[w][i], at |-> looked[w]]
                     \in [item : Items, state : States, at : DOMAIN moments]
        BY DEF PassOK
      <4> QED BY <1>8, <3>1, <4>1 DEF Save, StoreOK
    <3>2. CASE w \notin blind
      BY <1>8, <3>2 DEF Save, StoreOK
    <3> QED BY <3>1, <3>2
  <2>3. snapshot' \in [Items -> States]
    BY <1>8 DEF Save, PassOK
  <2>4. StoreOK'
    BY <1>0, <1>8, <2>2, <2>3 DEF Save, StoreOK, Privileges, hostVars, failureVars
  <2>5. /\ todo' = [todo EXCEPT ![w] = Changes(w)] /\ step' = [step EXCEPT ![w] = "add"]
        /\ previous' = [previous EXCEPT ![w] = Nothing]
        /\ current' = [current EXCEPT ![w] = Nothing]
        /\ blind' = blind \ {w} /\ looked' = [looked EXCEPT ![w] = 1] /\ step[w] = "save"
        /\ UNCHANGED <<moments, privilege, event, journalVars, overlapped>>
    BY <1>8 DEF Save, hostVars
  <2>6. Changes(w) \in SUBSET Change /\ Nothing \in [Items -> States] /\ 1 \in DOMAIN moments
    BY ChangeTypes DEF Nothing, States, HostOK
  <2>7. /\ previous' \in [Workers -> [Items -> States]]
        /\ current' \in [Workers -> [Items -> States]]
        /\ todo' \in [Workers -> SUBSET Change]
        /\ looked' \in [Workers -> DOMAIN moments]
    BY <2>5, <2>6 DEF PassOK
  <2>8. PassOK'
    BY <2>5, <2>7 DEF PassOK, Privileges, Steps, journalVars
  <2> QED BY <2>1, <2>4, <2>8
<1>9. ASSUME NEW w \in Workers, Add(w) PROVE Goal
  <2>1. HostOK'
    BY <1>9 DEF Add, HostOK, hostVars, failureVars
  <2>2. PICK c \in todo[w] :
          /\ todo' = [todo EXCEPT ![w] = @ \ {c}]
          /\ rows' = IF HasRow(c) THEN rows
                     ELSE Append(rows, [change |-> c, known |-> known[w]])
          /\ IF ~HasRow(c) /\ kind = "file" /\ c.item \in Persistent
               THEN /\ step' = [step EXCEPT ![w] = "correlate"]
                    /\ event' = [event EXCEPT ![w] = c]
               ELSE UNCHANGED <<step, event>>
    BY <1>9 DEF Add
  <2>3. c \in Change /\ c # NoChange
    BY SnapshotsAssumption DEF PassOK
  <2>4. rows' \in Seq([change : Change, known : SUBSET Privileges])
    <3>1. [change |-> c, known |-> known[w]] \in [change : Change, known : SUBSET Privileges]
      BY <2>3 DEF PassOK
    <3>2. rows \in Seq([change : Change, known : SUBSET Privileges])
      BY DEF StoreOK
    <3>3. Append(rows, [change |-> c, known |-> known[w]])
            \in Seq([change : Change, known : SUBSET Privileges])
      BY <3>1, <3>2, SeqAppend
    <3> QED BY <2>2, <3>2, <3>3
  <2>5. StoreOK'
    BY <1>0, <1>9, <2>4 DEF Add, StoreOK, Privileges, hostVars, failureVars
  <2>6. /\ step[w] = "add"
        /\ UNCHANGED <<moments, privilege, previous, current, blind, looked, journalVars,
                       overlapped>>
    BY <1>9 DEF Add, hostVars
  <2>7. PassOK'
    <3>1. CASE ~HasRow(c) /\ kind = "file" /\ c.item \in Persistent
      <4>1. /\ step' = [step EXCEPT ![w] = "correlate"] /\ event' = [event EXCEPT ![w] = c]
            /\ todo' = [todo EXCEPT ![w] = @ \ {c}] /\ c.item \in Persistent
        BY <2>2, <3>1
      <4> QED BY <2>3, <2>6, <4>1 DEF PassOK, Privileges, Steps, journalVars
    <3>2. CASE ~(~HasRow(c) /\ kind = "file" /\ c.item \in Persistent)
      <4>1. UNCHANGED <<step, event>> /\ todo' = [todo EXCEPT ![w] = @ \ {c}]
        BY <2>2, <3>2
      <4> QED BY <2>6, <4>1 DEF PassOK, Privileges, Steps, journalVars
    <3> QED BY <3>1, <3>2
  <2> QED BY <2>1, <2>5, <2>7
<1>10. ASSUME NEW w \in Workers, CorrelatePersistence(w) PROVE Goal
  <2>1. HostOK'
    BY <1>10 DEF CorrelatePersistence, HostOK, hostVars, failureVars
  <2>2. alarms' \subseteq [path : Persistent, privilege : SUBSET Privileges]
    <3>1. event[w].item \in Persistent
      BY <1>10 DEF CorrelatePersistence, PassOK
    <3> QED BY <1>10, <3>1 DEF CorrelatePersistence, StoreOK
  <2>3. StoreOK'
    BY <1>0, <1>10, <2>2 DEF CorrelatePersistence, StoreOK, Privileges, hostVars, failureVars
  <2>4. PassOK'
    BY <1>10 DEF CorrelatePersistence, PassOK, Privileges, Steps, hostVars, journalVars
  <2> QED BY <2>1, <2>3, <2>4
<1>11. ASSUME NEW w \in Workers, Leave(w, "idle") PROVE PassOK'
  <2>1. /\ known' \in [Workers -> SUBSET Privileges]
        /\ mark' \in [Workers -> 0 .. privilege] /\ fetched' \in [Workers -> SUBSET Privileges]
    BY <1>11 DEF Leave, PassOK, HostOK
  <2>2. GoTo(w, "idle") /\ "idle" \in Stops /\ UNCHANGED <<moments, privilege>>
    BY <1>11 DEF Leave, Stops, hostVars
  <2> QED BY <1>0, <2>1, <2>2, GoToTypes
<1>12. ASSUME NEW w \in Workers, Finish(w) PROVE Goal
  <2>1. HostOK' /\ StoreOK'
    BY <1>0, <1>12 DEF Finish, Leave, HostOK, StoreOK, Privileges, hostVars, storeVars
  <2>2. Leave(w, "idle")
    BY <1>12, StepsAfter DEF Finish
  <2> QED BY <1>11, <2>1, <2>2
<1>13. ASSUME NEW w \in Workers, Fail(w) PROVE Goal
  <2>1. HostOK'
    BY <1>1, <1>13 DEF Fail, Leave, HostOK, MoreEvents, hostVars
  <2>2. Pending(w) \subseteq Change /\ fetched[w] \subseteq Privileges
    BY DEF Pending, PassOK
  <2>3. StoreOK'
    BY <1>0, <1>13, <2>2 DEF Fail, Leave, StoreOK, Privileges, hostVars, storeVars
  <2>4. Leave(w, "idle")
    BY <1>13 DEF Fail
  <2> QED BY <1>11, <2>1, <2>3, <2>4
<1>14. CASE UNCHANGED snapshotVars
  <2>1. HostOK' /\ StoreOK'
    BY <1>0, <1>14 DEF snapshotVars, HostOK, StoreOK, Privileges, hostVars, storeVars, failureVars
  <2>2. PassOK'
    BY <1>14 DEF snapshotVars, PassOK, Privileges, Steps, hostVars, frameVars, journalVars
  <2> QED BY <2>1, <2>2
<1> QED
  BY <1>2, <1>3, <1>4, <1>5, <1>6, <1>7, <1>8, <1>9, <1>10, <1>12, <1>13, <1>14
     DEF SnapshotNext, Continue

\* What the host, the store and the workers hold is well typed, however many
\* workers there are; one that holds changes has compared.
THEOREM SnapshotTypes == SnapshotSpec => []SnapshotTypeOK
<1>1. SnapshotInit => SnapshotTypeOK
  <2> SUFFICES ASSUME SnapshotInit PROVE SnapshotTypeOK
    OBVIOUS
  <2>1. Nothing \in [Items -> States]
    BY DEF Nothing, States
  <2>2. PICK h \in [Items -> States] : moments = <<h>>
    BY DEF SnapshotInit
  <2>3. HostOK
    BY <2>2, SnapshotsAssumption DEF SnapshotInit, HostOK
  <2>4. StoreOK
    <3>1. /\ cursor \in 0 .. privilege /\ privileged = {} /\ snapshot \in [Items -> States]
          /\ alarms = {} /\ lost = {} /\ gone = {} /\ hidden = {} /\ silent = {}
      BY <2>1 DEF SnapshotInit
    <3>2. rows \in Seq([change : Change, known : SUBSET Privileges])
      BY DEF SnapshotInit
    <3>3. stored \in BOOLEAN
      BY DEF SnapshotInit
    <3> QED BY <3>1, <3>2, <3>3 DEF StoreOK
  <2>5. 1 \in DOMAIN moments /\ 0 \in 0 .. privilege
    BY <2>2 DEF SnapshotInit
  <2>6. PassOK
    <3>1. /\ step = [w \in Workers |-> "idle"] /\ blind = {}
          /\ todo = [w \in Workers |-> {}] /\ event = [w \in Workers |-> NoChange]
      BY DEF SnapshotInit
    <3>2. previous \in [Workers -> [Items -> States]]
      BY <2>1 DEF SnapshotInit
    <3>3. current \in [Workers -> [Items -> States]]
      BY <2>1 DEF SnapshotInit
    <3>4. /\ looked \in [Workers -> DOMAIN moments] /\ mark \in [Workers -> 0 .. privilege]
          /\ fetched \in [Workers -> SUBSET Privileges]
          /\ known \in [Workers -> SUBSET Privileges]
      BY <2>5 DEF SnapshotInit
    <3>5. overlapped \in BOOLEAN
      BY DEF SnapshotInit
    <3> QED BY <3>1, <3>2, <3>3, <3>4, <3>5 DEF PassOK, Steps
  <2> QED BY <2>3, <2>4, <2>6 DEF SnapshotTypeOK
<1> QED BY <1>1, NextTypes, PTL DEF SnapshotSpec

-----------------------------------------------------------------------------
\* An item in state x, and why it may be stored: it was reported, or is excused.
Explained(i, x) ==
  \/ \E c \in Change : c.item = i /\ c.after = x /\ Accounted(c)
  \/ \E s \in silent : s.item = i /\ s.state = x
  \/ /\ kind \in {"listener", "process"}
     /\ \/ ~Reportable(i, Absent, x)
        \/ \E n \in DOMAIN moments : moments[n][i] \notin {Absent, x}

\* What is not absent was there at some moment.
Witnessed(snap) ==
  \A i \in Items : snap[i] = Absent \/ \E n \in DOMAIN moments : moments[n][i] = snap[i]

\* A worker that has read the stored snapshot.
HasRead(w) == step[w] = "save" \/ (step[w] = "look" /\ ~LookFirst)

\* What StoredExplained rests on: a baseline is missing only where nothing is stored,
\* and what a worker has read is as explained as what is stored.
Warranted ==
  /\ ~stored => snapshot = Nothing
  /\ stored => \A i \in Items : Explained(i, snapshot[i])
  /\ Witnessed(snapshot)
  /\ \A w \in Workers :
       /\ Witnessed(previous[w]) /\ Witnessed(current[w])
       /\ HasRead(w) /\ w \notin blind => \A i \in Items : Explained(i, previous[w][i])

\* The past stays.
LEMMA PastKept ==
  ASSUME SnapshotTypeOK, [SnapshotNext]_snapshotVars
  PROVE  /\ kind' = kind
         /\ DOMAIN moments \subseteq DOMAIN moments'
         /\ \A n \in DOMAIN moments : moments'[n] = moments[n]
         /\ DOMAIN rows \subseteq DOMAIN rows'
         /\ \A n \in DOMAIN rows : rows'[n] = rows[n]
         /\ silent \subseteq silent' /\ lost \subseteq lost' /\ hidden \subseteq hidden'
<1>1. kind' = kind
  BY JournalFrame DEF SnapshotNext, HostChanges, LogPrivilege, BeginPass, Continue, Look, Read,
         Save, Add, CorrelatePersistence, Finish, Fail, Leave, snapshotVars, hostVars
<1>2. moments' = moments \/ \E h \in [Items -> States] : moments' = Append(moments, h)
  <2>1. CASE \E i \in Items, x \in States : HostChanges(i, x)
    BY <2>1, HostTypes DEF HostChanges, SnapshotTypeOK
  <2>2. CASE ~\E i \in Items, x \in States : HostChanges(i, x)
    BY <2>2, JournalFrame DEF SnapshotNext, LogPrivilege, BeginPass, Continue, Look, Read,
           Save, Add, CorrelatePersistence, Finish, Fail, Leave, snapshotVars, hostVars
  <2> QED BY <2>1, <2>2
<1>3. rows' = rows \/ \E r : rows' = Append(rows, r)
  BY JournalFrame DEF SnapshotNext, HostChanges, LogPrivilege, BeginPass, Continue, Look, Read,
         Save, Add, CorrelatePersistence, Finish, Fail, Leave, snapshotVars, storeVars
<1>4. silent \subseteq silent' /\ lost \subseteq lost' /\ hidden \subseteq hidden'
  <2>1. hidden \subseteq hidden'
    <3>1. ASSUME NEW w \in Workers, Look(w) PROVE hidden \subseteq hidden'
      BY <3>1, LookTaken DEF SnapshotTypeOK
    <3>2. CASE ~\E w \in Workers : Look(w)
      BY <3>2, JournalFrame DEF SnapshotNext, HostChanges, LogPrivilege, BeginPass, Continue,
             Read, Save, Add, CorrelatePersistence, Finish, Fail, Leave, snapshotVars,
             failureVars
    <3> QED BY <3>1, <3>2
  <2>2. silent \subseteq silent' /\ lost \subseteq lost'
    BY JournalFrame DEF SnapshotNext, HostChanges, LogPrivilege, BeginPass, Continue, Look, Read,
           Save, Add, CorrelatePersistence, Finish, Fail, Leave, snapshotVars, failureVars
  <2> QED BY <2>1, <2>2
<1>5. /\ DOMAIN moments \subseteq DOMAIN moments'
      /\ \A n \in DOMAIN moments : moments'[n] = moments[n]
  BY <1>2, AppendKeeps DEF SnapshotTypeOK, HostOK
<1>6. /\ DOMAIN rows \subseteq DOMAIN rows'
      /\ \A n \in DOMAIN rows : rows'[n] = rows[n]
  BY <1>3, AppendKeeps DEF SnapshotTypeOK, StoreOK
<1> QED BY <1>1, <1>4, <1>5, <1>6

\* A row stays.
LEMMA HasRowKept ==
  ASSUME SnapshotTypeOK, [SnapshotNext]_snapshotVars, NEW c, HasRow(c)
  PROVE  HasRow(c)'
  BY PastKept DEF HasRow, fingerprint

\* The row that Add leaves.
LEMMA AddedRow ==
  ASSUME SnapshotTypeOK, kind' = kind, NEW w \in Workers, NEW c,
         rows' = IF HasRow(c) THEN rows ELSE Append(rows, [change |-> c, known |-> known[w]])
  PROVE  HasRow(c)'
<1>1. CASE HasRow(c)
  BY <1>1 DEF HasRow, fingerprint
<1>2. CASE ~HasRow(c)
  <2>1. rows' = Append(rows, [change |-> c, known |-> known[w]]) /\ Len(rows) \in Nat
    BY <1>2 DEF SnapshotTypeOK, StoreOK
  <2>2. Len(rows) + 1 \in DOMAIN rows' /\ rows'[Len(rows) + 1].change = c
    BY <2>1 DEF SnapshotTypeOK, StoreOK
  <2> QED BY <2>2 DEF HasRow, fingerprint
<1> QED BY <1>1, <1>2

\* What is correlated has its row.
Correlated == \A w \in Workers : event[w] # NoChange => HasRow(event[w])

\* Rows stay, and no event changes while it waits for its correlation.
LEMMA CorrelatedKept ==
  SnapshotTypeOK /\ Correlated /\ [SnapshotNext]_snapshotVars => Correlated'
<1> SUFFICES ASSUME SnapshotTypeOK, Correlated, [SnapshotNext]_snapshotVars,
                    NEW v \in Workers, event'[v] # NoChange
             PROVE  HasRow(event[v])'
  BY DEF Correlated
<1>1. PICK c : c = event'[v]
  OBVIOUS
<1>2. CASE c = event[v]
  <2>1. HasRow(c)'
    BY <1>1, <1>2, HasRowKept DEF Correlated
  <2> QED BY <1>1, <2>1 DEF HasRow, fingerprint
<1>3. CASE c # event[v]
  <2>1. PICK w \in Workers : Add(w)
    <3>1. ASSUME NEW w \in Workers,
                 \/ BeginPass(w) \/ CollectJournal(w)
                 \/ Finish(w) \/ Fail(w)
          PROVE  event'[v] \in {event[v], NoChange}
      BY <3>1, JournalFrame DEF BeginPass, Finish, Fail, Leave, GoTo, SnapshotTypeOK, PassOK
    <3>2. ASSUME NEW w \in Workers, Look(w) \/ Read(w) \/ Save(w) \/ CorrelatePersistence(w)
          PROVE  event'[v] \in {event[v], NoChange}
      BY <3>2 DEF Look, Read, Save, CorrelatePersistence, SnapshotTypeOK, PassOK
    <3>3. \/ event' = event
          \/ \E w \in Workers : BeginPass(w) \/ Continue(w) \/ Fail(w)
      BY DEF SnapshotNext, HostChanges, LogPrivilege, snapshotVars, frameVars
    <3> QED BY <1>1, <1>3, <3>1, <3>2, <3>3 DEF Continue
  <2>2. PICK d : /\ rows' = IF HasRow(d) THEN rows
                             ELSE Append(rows, [change |-> d, known |-> known[w]])
                 /\ event' = [event EXCEPT ![w] = d] \/ event' = event
    BY <2>1 DEF Add
  <2>3. c = d
    BY <1>1, <1>3, <2>2 DEF SnapshotTypeOK, PassOK
  <2>4. HasRow(c)'
    BY <2>2, <2>3, PastKept, AddedRow
  <2> QED BY <1>1, <2>4 DEF HasRow, fingerprint
<1> QED BY <1>2, <1>3

\* A change that was accounted for stays so.
LEMMA AccountedKept ==
  ASSUME SnapshotTypeOK, Correlated, [SnapshotNext]_snapshotVars, NEW c \in Change,
         Accounted(c)
  PROVE  Accounted(c)'
<1>1. CASE HasRow(c) \/ c \in lost
  BY <1>1, PastKept, HasRowKept DEF Accounted
<1>2. ASSUME NEW v \in Workers, c \in Pending(v) PROVE Accounted(c)'
  <2> USE DEF SnapshotTypeOK, PassOK, Pending, Accounted
  <2>1. c # NoChange
    BY SnapshotsAssumption
  <2>2. ASSUME NEW w \in Workers, BeginPass(w) PROVE c \in Pending(v)'
    BY <1>2, <2>1, <2>2 DEF BeginPass, Busy, GoTo
  <2>3. ASSUME NEW w \in Workers, CollectJournal(w) PROVE c \in Pending(v)'
    BY <1>2, <2>1, <2>3, JournalFrame DEF GoTo
  <2>4. ASSUME NEW w \in Workers, Look(w) \/ Read(w) PROVE c \in Pending(v)'
    BY <1>2, <2>4 DEF Look, Read
  <2>5. ASSUME NEW w \in Workers, Save(w) PROVE c \in Pending(v)'
    BY <1>2, <2>1, <2>5 DEF Save
  <2>6. ASSUME NEW w \in Workers, Add(w) PROVE c \in Pending(v)' \/ HasRow(c)'
    <3>1. PICK d \in todo[w] :
            /\ todo' = [todo EXCEPT ![w] = @ \ {d}]
            /\ rows' = IF HasRow(d) THEN rows
                       ELSE Append(rows, [change |-> d, known |-> known[w]])
            /\ \/ event' = [event EXCEPT ![w] = d]
               \/ event' = event
      BY <2>6 DEF Add
    <3>2. CASE c = d
      BY <3>1, <3>2, PastKept, AddedRow
    <3>3. CASE c # d
      <4>1. CASE c \in todo[v]
        BY <3>1, <3>3, <4>1
      <4>2. CASE c = event[v]
        BY <2>1, <2>6, <3>1, <4>2 DEF Add
      <4> QED BY <1>2, <4>1, <4>2
    <3> QED BY <3>2, <3>3
  <2>7. ASSUME NEW w \in Workers, CorrelatePersistence(w)
        PROVE  c \in Pending(v)' \/ HasRow(c)'
    <3>1. CASE c \in todo[v]
      BY <2>7, <3>1 DEF CorrelatePersistence
    <3>2. CASE c = event[v]
      BY <2>1, <3>2, HasRowKept DEF Correlated
    <3> QED BY <1>2, <3>1, <3>2
  <2>8. ASSUME NEW w \in Workers, Finish(w) PROVE c \in Pending(v)'
    BY <1>2, <2>1, <2>8 DEF Finish, Leave, GoTo
  <2>9. ASSUME NEW w \in Workers, Fail(w) PROVE c \in Pending(v)' \/ c \in lost'
    BY <1>2, <2>9 DEF Fail, Leave, GoTo
  <2>10. CASE UNCHANGED <<todo, event>>
    BY <1>2, <2>10
  <2>11. \/ UNCHANGED <<todo, event>>
         \/ \E w \in Workers : BeginPass(w) \/ Continue(w) \/ Fail(w)
    BY DEF SnapshotNext, HostChanges, LogPrivilege, snapshotVars, frameVars
  <2> QED
    BY <2>2, <2>3, <2>4, <2>5, <2>6, <2>7, <2>8, <2>9, <2>10, <2>11 DEF Continue
<1> QED BY <1>1, <1>2 DEF Accounted

\* What was explained stays so.
LEMMA ExplainedKept ==
  ASSUME SnapshotTypeOK, Correlated, [SnapshotNext]_snapshotVars, NEW i \in Items,
         NEW x \in States, Explained(i, x)
  PROVE  Explained(i, x)'
<1>1. CASE \E c \in Change : c.item = i /\ c.after = x /\ Accounted(c)
  BY <1>1, AccountedKept DEF Explained
<1>2. CASE \E s \in silent : s.item = i /\ s.state = x
  BY <1>2, PastKept DEF Explained
<1>3. CASE /\ kind \in {"listener", "process"}
           /\ \/ ~Reportable(i, Absent, x)
              \/ \E n \in DOMAIN moments : moments[n][i] \notin {Absent, x}
  <2>1. Reportable(i, Absent, x)' = Reportable(i, Absent, x)
    BY PastKept DEF Reportable
  <2> QED BY <1>3, <2>1, PastKept DEF Explained
<1> QED BY <1>1, <1>2, <1>3 DEF Explained

\* What was there stays so.
LEMMA WitnessedKept ==
  ASSUME SnapshotTypeOK, [SnapshotNext]_snapshotVars, NEW snap, Witnessed(snap)
  PROVE  Witnessed(snap)'
  BY PastKept DEF Witnessed

\* Of what a comparison does not tell nothing is left to explain.
LEMMA Untold ==
  ASSUME kind \in Kinds, NEW i \in Items, NEW before, NEW after,
         ~Reportable(i, before, after)
  PROVE  \/ before = after
         \/ kind \in {"listener", "process"} /\ ~Reportable(i, Absent, after)
         \/ kind \in {"listener", "process"} /\ before # Absent
<1>1. CASE kind = "listener"
  BY <1>1 DEF Reportable, NewListener
<1>2. CASE kind = "process"
  BY <1>2 DEF Reportable, SuspiciousProcess
<1>3. CASE kind \notin {"listener", "process"}
  BY <1>3 DEF Reportable, Changed
<1> QED BY <1>1, <1>2, <1>3

\* What a worker saves is explained.
LEMMA SaveExplained ==
  ASSUME SnapshotTypeOK, Warranted, Correlated, [SnapshotNext]_snapshotVars,
         NEW w \in Workers, Save(w), NEW i \in Items, NEW y, y = current[w][i]
  PROVE  Explained(i, y)'
<1>1. /\ kind' = kind /\ kind \in Kinds /\ y \in States /\ previous[w][i] \in States
      /\ todo'[w] = Changes(w) /\ step[w] = "save"
  BY DEF Save, SnapshotTypeOK, HostOK, PassOK, hostVars
<1>2. CASE w \in blind
  <2>1. [item |-> i, state |-> y, at |-> looked[w]] \in silent'
    BY <1>2 DEF Save
  <2> QED BY <2>1 DEF Explained
<1>3. CASE w \notin blind /\ Reportable(i, previous[w][i], y)
  <2>1. PICK c \in Change : c \in Changes(w) /\ c.item = i /\ c.after = y
    <3> DEFINE c == [item |-> i, before |-> previous[w][i], after |-> y]
    <3>1. c \in Change /\ c \in Changes(w)
      BY <1>1, <1>3 DEF Change, Changes
    <3>2. c.item = i /\ c.after = y
      OBVIOUS
    <3> HIDE DEF c
    <3> QED BY <3>1, <3>2
  <2>2. c \in Pending(w)'
    BY <1>1, <2>1 DEF Pending
  <2>3. Accounted(c)'
    BY <2>2 DEF Accounted
  <2> QED BY <2>1, <2>3 DEF Explained
<1>4. CASE w \notin blind /\ ~Reportable(i, previous[w][i], y)
  <2>1. CASE previous[w][i] = y
    <3>1. Explained(i, y)
      BY <1>1, <1>4, <2>1 DEF Warranted, HasRead
    <3> QED BY <1>1, <3>1, ExplainedKept
  <2>2. CASE kind \in {"listener", "process"} /\ ~Reportable(i, Absent, y)
    <3>1. Explained(i, y)
      BY <2>2 DEF Explained
    <3> QED BY <1>1, <3>1, ExplainedKept
  <2>3. CASE kind \in {"listener", "process"} /\ previous[w][i] \notin {Absent, y}
    <3>1. \E n \in DOMAIN moments : moments[n][i] = previous[w][i]
      BY <2>3 DEF Warranted, Witnessed
    <3>2. Explained(i, y)
      BY <2>3, <3>1 DEF Explained
    <3> QED BY <1>1, <3>2, ExplainedKept
  <2> QED BY <1>1, <1>4, <2>1, <2>2, <2>3, Untold
<1> QED BY <1>2, <1>3, <1>4

\* Only Save stores.
LEMMA StoreRests ==
  ASSUME [SnapshotNext]_snapshotVars, ~\E w \in Workers : Save(w)
  PROVE  UNCHANGED <<snapshot, stored, silent>>
  BY JournalFrame DEF SnapshotNext, HostChanges, LogPrivilege, BeginPass, Continue, Look, Read,
         Add, CorrelatePersistence, Finish, Fail, Leave, snapshotVars, storeVars

\* A worker that goes elsewhere has read nothing.
LEMMA GoToFrame ==
  ASSUME SnapshotTypeOK, kind' = kind, NEW w \in Workers,
         NEW s \in Stops, s = "look" => LookFirst, GoTo(w, s),
         NEW v \in Workers
  PROVE  /\ previous'[v] \in {previous[v], Nothing} /\ current'[v] \in {current[v], Nothing}
         /\ HasRead(v)' => /\ HasRead(v) /\ previous'[v] = previous[v]
                           /\ v \in blind => v \in blind'
<1>1. CASE v = w
  <2>1. step'[v] = s /\ previous'[v] = Nothing /\ current'[v] = Nothing
    BY <1>1 DEF GoTo, SnapshotTypeOK, PassOK
  <2> QED BY <2>1 DEF HasRead, LookFirst, Stops
<1>2. CASE v # w
  <2>1. /\ step'[v] = step[v] /\ previous'[v] = previous[v] /\ current'[v] = current[v]
        /\ blind' = blind \ {w}
    BY <1>2 DEF GoTo, SnapshotTypeOK, PassOK
  <2> QED BY <1>2, <2>1 DEF HasRead, LookFirst
<1> QED BY <1>1, <1>2

\* What a worker's locals become.
LEMMA FrameKept ==
  ASSUME SnapshotTypeOK, Warranted, [SnapshotNext]_snapshotVars, NEW v \in Workers
  PROVE  /\ previous'[v] \in {previous[v], snapshot, Nothing}
         /\ \/ current'[v] \in {current[v], Nothing}
            \/ \A i \in Items : current'[v][i] \in {Absent, Host[i]}
         /\ HasRead(v)' /\ v \notin blind' =>
              \/ HasRead(v) /\ v \notin blind /\ previous'[v] = previous[v]
              \/ stored /\ previous'[v] = snapshot
<1> DEFINE Kept == /\ previous'[v] \in {previous[v], Nothing}
                   /\ current'[v] \in {current[v], Nothing}
                   /\ HasRead(v)' /\ v \notin blind' =>
                        HasRead(v) /\ v \notin blind /\ previous'[v] = previous[v]
<1>0. kind' = kind
  BY PastKept
<1>1. ASSUME NEW w \in Workers, BeginPass(w) \/ CollectJournal(w) PROVE Kept
  <2>1. PICK s \in Stops : GoTo(w, s) /\ (s = "look" => LookFirst)
    BY <1>1, StepsAfter, StepsLook, JournalFrame DEF BeginPass
  <2> QED BY <1>0, <2>1, GoToFrame
<1>2. ASSUME NEW w \in Workers, Finish(w) \/ Fail(w) PROVE Kept
  <2>1. GoTo(w, "idle") /\ "idle" \in Stops
    BY <1>2, StepsAfter DEF Finish, Fail, Leave, Stops
  <2> QED BY <1>0, <2>1, GoToFrame
<1>3. ASSUME NEW w \in Workers, Look(w)
      PROVE  /\ previous'[v] = previous[v]
             /\ \/ current'[v] = current[v]
                \/ \A i \in Items : current'[v][i] \in {Absent, Host[i]}
             /\ HasRead(v)' /\ v \notin blind' => HasRead(v) /\ v \notin blind
  <2>1. PICK c : /\ current' = [current EXCEPT ![w] = c]
                 /\ \A i \in Items : c[i] \in {Absent, Host[i]}
    BY <1>3, LookTaken DEF SnapshotTypeOK
  <2>2. /\ step[w] = "look" /\ UNCHANGED <<previous, blind>>
        /\ step' = [step EXCEPT ![w] = IF LookFirst THEN "read" ELSE "save"]
    BY <1>3 DEF Look
  <2>3. LookFirst' = LookFirst
    BY <1>0 DEF LookFirst
  <2> QED BY <2>1, <2>2, <2>3 DEF HasRead, SnapshotTypeOK, PassOK
<1>4. ASSUME NEW w \in Workers, Read(w)
      PROVE  /\ previous'[v] \in {previous[v], snapshot} /\ current' = current
             /\ HasRead(v)' /\ v \notin blind' =>
                  \/ HasRead(v) /\ v \notin blind /\ previous'[v] = previous[v]
                  \/ stored /\ previous'[v] = snapshot
  <2>1. /\ previous' = [previous EXCEPT ![w] = snapshot] /\ UNCHANGED current
        /\ step' = [step EXCEPT ![w] = IF LookFirst THEN "save" ELSE "look"]
        /\ blind' = IF NoBaseline THEN blind \cup {w} ELSE blind
    BY <1>4 DEF Read
  <2>2. LookFirst' = LookFirst
    BY <1>0 DEF LookFirst
  <2>3. ~NoBaseline => stored
    BY DEF NoBaseline, Warranted
  <2>4. CASE v = w
    BY <2>1, <2>3, <2>4 DEF SnapshotTypeOK, PassOK
  <2>5. CASE v # w
    BY <2>1, <2>2, <2>5 DEF HasRead, SnapshotTypeOK, PassOK
  <2> QED BY <2>4, <2>5
<1>5. ASSUME NEW w \in Workers, Save(w) PROVE Kept
  <2>1. /\ step' = [step EXCEPT ![w] = "add"] /\ previous' = [previous EXCEPT ![w] = Nothing]
        /\ current' = [current EXCEPT ![w] = Nothing] /\ blind' = blind \ {w}
    BY <1>5 DEF Save
  <2>2. LookFirst' = LookFirst
    BY <1>0 DEF LookFirst
  <2> QED BY <2>1, <2>2 DEF HasRead, SnapshotTypeOK, PassOK
<1>6. ASSUME NEW w \in Workers, Add(w) \/ CorrelatePersistence(w) PROVE Kept
  <2>1. /\ UNCHANGED <<previous, current, blind>>
        /\ \/ step' = step \/ step' = [step EXCEPT ![w] = "correlate"]
           \/ step' = [step EXCEPT ![w] = "add"]
    BY <1>6 DEF Add, CorrelatePersistence
  <2>2. LookFirst' = LookFirst
    BY <1>0 DEF LookFirst
  <2> QED BY <2>1, <2>2 DEF HasRead, SnapshotTypeOK, PassOK
<1>7. CASE UNCHANGED <<step, previous, current, blind>>
  BY <1>0, <1>7 DEF HasRead, LookFirst
<1>8. \/ UNCHANGED <<step, previous, current, blind>>
      \/ \E w \in Workers : BeginPass(w) \/ Continue(w) \/ Fail(w)
  BY DEF SnapshotNext, HostChanges, LogPrivilege, snapshotVars, frameVars
<1> QED BY <1>1, <1>2, <1>3, <1>4, <1>5, <1>6, <1>7, <1>8 DEF Continue

\* Warranted is kept by every step.
LEMMA WarrantedKept ==
  SnapshotTypeOK /\ Correlated /\ Warranted /\ [SnapshotNext]_snapshotVars => Warranted'
<1> SUFFICES ASSUME SnapshotTypeOK, Correlated, Warranted, [SnapshotNext]_snapshotVars
             PROVE  Warranted'
  OBVIOUS
<1>0. /\ snapshot \in [Items -> States]
      /\ \A w \in Workers : previous[w] \in [Items -> States]
      /\ \A i \in Items : Nothing[i] = Absent
  BY DEF SnapshotTypeOK, StoreOK, PassOK, Nothing
<1>1. /\ (~stored => snapshot = Nothing)'
      /\ (stored => \A i \in Items : Explained(i, snapshot[i]))'
      /\ Witnessed(snapshot)'
  <2>1. ASSUME NEW w \in Workers, Save(w)
        PROVE  /\ stored' = TRUE
               /\ \A i \in Items : Explained(i, snapshot[i])'
               /\ Witnessed(snapshot)'
    <3>1. snapshot' = current[w] /\ stored' = TRUE
      BY <2>1 DEF Save
    <3>2. PICK snap : snap = current[w]
      OBVIOUS
    <3>3. Witnessed(snap)'
      BY <3>2, WitnessedKept DEF Warranted
    <3>4. ASSUME NEW i \in Items PROVE Explained(i, snapshot[i])'
      <4>1. PICK y : y = current[w][i]
        OBVIOUS
      <4>2. Explained(i, y)'
        BY <2>1, <4>1, SaveExplained
      <4> QED BY <3>1, <4>1, <4>2 DEF Explained
    <3> QED BY <3>1, <3>2, <3>3, <3>4 DEF Witnessed
  <2>2. CASE ~\E w \in Workers : Save(w)
    <3>1. snapshot' = snapshot /\ stored' = stored
      BY <2>2, StoreRests
    <3>2. PICK snap : snap = snapshot
      OBVIOUS
    <3>3. Witnessed(snap)'
      BY <3>2, WitnessedKept DEF Warranted
    <3>4. ASSUME stored, NEW i \in Items PROVE Explained(i, snapshot[i])'
      <4>1. PICK y : y = snapshot[i]
        OBVIOUS
      <4>2. Explained(i, y)'
        BY <1>0, <3>4, <4>1, ExplainedKept DEF Warranted
      <4> QED BY <3>1, <4>1, <4>2 DEF Explained
    <3> QED BY <3>1, <3>2, <3>3, <3>4 DEF Witnessed, Warranted, Nothing
  <2> QED BY <2>1, <2>2
<1>2. ASSUME NEW v \in Workers
      PROVE  /\ Witnessed(previous[v])' /\ Witnessed(current[v])'
             /\ (HasRead(v) /\ v \notin blind)' =>
                  \A i \in Items : Explained(i, previous[v][i])'
  <2>1. PICK snap : snap = previous'[v]
    OBVIOUS
  <2>2. Witnessed(snap)
    BY <1>0, <2>1, FrameKept DEF Warranted, Witnessed
  <2>3. Witnessed(snap)'
    BY <2>2, WitnessedKept
  <2>4. PICK seen : seen = current'[v]
    OBVIOUS
  <2>5. Witnessed(seen)
    BY <1>0, <2>4, FrameKept, HostTypes DEF Warranted, Witnessed, SnapshotTypeOK
  <2>6. Witnessed(seen)'
    BY <2>5, WitnessedKept
  <2>7. ASSUME HasRead(v)', v \notin blind', NEW i \in Items
        PROVE  Explained(i, previous[v][i])'
    <3>1. PICK y : y = previous'[v][i]
      OBVIOUS
    <3>2. y \in States /\ Explained(i, y)
      BY <1>0, <2>7, <3>1, FrameKept DEF Warranted
    <3>3. Explained(i, y)'
      BY <3>2, ExplainedKept
    <3> QED BY <3>1, <3>3 DEF Explained
  <2> QED BY <2>1, <2>3, <2>4, <2>6, <2>7 DEF Witnessed
<1> QED BY <1>1, <1>2 DEF Warranted

\* At the start nothing is stored.
LEMMA InitWarranted == SnapshotInit => Correlated /\ Warranted
<1> SUFFICES ASSUME SnapshotInit PROVE Correlated /\ Warranted
  OBVIOUS
<1>1. Correlated
  BY DEF SnapshotInit, Correlated
<1>2. \A w \in Workers : /\ previous[w] = Nothing /\ current[w] = Nothing
                         /\ step[w] = "idle"
  BY DEF SnapshotInit
<1>3. snapshot = Nothing /\ ~stored /\ \A i \in Items : Nothing[i] = Absent
  BY DEF SnapshotInit, Nothing
<1> QED BY <1>1, <1>2, <1>3 DEF Warranted, Witnessed, HasRead

\* Whatever is stored was reported, is about to be, or is excused: of any number of
\* workers none makes the stored snapshot say what no row, batch, fault or baseline
\* accounts for.
THEOREM StoredIsExplained == SnapshotSpec => []StoredExplained
<1>1. Warranted => StoredExplained
  BY DEF Warranted, Explained, StoredExplained
<1> QED
  BY <1>1, InitWarranted, CorrelatedKept, WarrantedKept, SnapshotTypes, PTL DEF SnapshotSpec

-----------------------------------------------------------------------------
\* While workers did not overlap, one at most is busy.
OneAtATime == ~overlapped => \A v, w \in Workers : Busy(v) /\ Busy(w) => v = w

\* A pass that begins beside another is an overlap, and nothing else makes a second busy.
LEMMA OneAtATimeKept ==
  SnapshotTypeOK /\ OneAtATime /\ [SnapshotNext]_snapshotVars => OneAtATime'
<1> SUFFICES ASSUME SnapshotTypeOK, OneAtATime, [SnapshotNext]_snapshotVars, ~overlapped'
             PROVE  \A v, w \in Workers : Busy(v)' /\ Busy(w)' => v = w
  BY DEF OneAtATime
<1>1. ASSUME NEW w \in Workers, BeginPass(w) PROVE \A v \in Workers : Busy(v)' => v = w
  BY <1>1 DEF BeginPass, Busy, GoTo, SnapshotTypeOK, PassOK
<1>2. ASSUME NEW w \in Workers, CollectJournal(w) \/ Finish(w) \/ Fail(w)
      PROVE  ~overlapped /\ \A v \in Workers : Busy(v)' => Busy(v)
  BY <1>2, JournalFrame DEF Finish, Fail, Leave, GoTo, Busy, SnapshotTypeOK, PassOK
<1>3. ASSUME NEW w \in Workers,
             Look(w) \/ Read(w) \/ Save(w) \/ Add(w) \/ CorrelatePersistence(w)
      PROVE  ~overlapped /\ \A v \in Workers : Busy(v)' => Busy(v)
  BY <1>3 DEF Look, Read, Save, Add, CorrelatePersistence, Busy, SnapshotTypeOK, PassOK
<1>4. \/ UNCHANGED <<step, overlapped>>
      \/ \E w \in Workers : BeginPass(w) \/ Continue(w) \/ Fail(w)
  BY DEF SnapshotNext, HostChanges, LogPrivilege, snapshotVars
<1> QED BY <1>1, <1>2, <1>3, <1>4 DEF Continue, OneAtATime, Busy

-----------------------------------------------------------------------------
Once(i, x) == \E n \in DOMAIN moments : Shown(n, i, x)

InOrder(i, x, y) == \E n, m \in DOMAIN moments : n <= m /\ Shown(n, i, x) /\ Shown(m, i, y)

\* What a worker compares, or has compared, it saw in that order.
Grounded(w) ==
  /\ \A c \in todo[w] : InOrder(c.item, c.before, c.after)
  /\ step[w] = "look" /\ ~LookFirst /\ w \notin blind =>
       \A i \in Items : Once(i, previous[w][i])
  /\ step[w] = "save" => \A i \in Items : Once(i, current[w][i])
  /\ step[w] = "save" /\ w \notin blind =>
       \A i \in Items : InOrder(i, previous[w][i], current[w][i])
  /\ step[w] = "read" /\ LookFirst =>
       \A i \in Items : /\ Once(i, current[w][i])
                        /\ stored => InOrder(i, snapshot[i], current[w][i])

\* What RowsInOrder rests on.
Chronicled ==
  (kind # "listener" \/ ~overlapped) =>
    /\ \A r \in DOMAIN rows :
         InOrder(rows[r].change.item, rows[r].change.before, rows[r].change.after)
    /\ stored => \A i \in Items : Once(i, snapshot[i])
    /\ \A w \in Workers : Grounded(w)

\* A read that failed stays failed.
LEMMA MissedKept ==
  ASSUME SnapshotTypeOK, [SnapshotNext]_snapshotVars
  PROVE  missed \in Nat /\ missed' \in Nat /\ missed' >= missed
<1>1. missed \in Nat
  BY DEF SnapshotTypeOK, HostOK
<1>2. CASE \E w \in Workers : Look(w)
  BY <1>1, <1>2, LookTaken DEF SnapshotTypeOK
<1>3. CASE ~\E w \in Workers : Look(w)
  <2>1. missed' = missed
    BY <1>3, JournalFrame DEF SnapshotNext, HostChanges, LogPrivilege, BeginPass, Continue,
           Read, Save, Add, CorrelatePersistence, Finish, Fail, Leave, snapshotVars,
           failureVars
  <2> QED BY <1>1, <2>1
<1> QED BY <1>2, <1>3

\* What was shown stays so.
LEMMA ShownKept ==
  ASSUME SnapshotTypeOK, [SnapshotNext]_snapshotVars
  PROVE  /\ \A n \in DOMAIN moments : \A i, x : Shown(n, i, x) => Shown(n, i, x)'
         /\ \A i, x : Once(i, x) => Once(i, x)'
         /\ \A i, x, y : InOrder(i, x, y) => InOrder(i, x, y)'
<1>1. hidden \subseteq hidden'
  BY PastKept
<1>2. ASSUME NEW n \in DOMAIN moments, NEW i, NEW x, Shown(n, i, x) PROVE Shown(n, i, x)'
  BY <1>1, <1>2, PastKept DEF Shown
<1>3. DOMAIN moments \subseteq DOMAIN moments'
  BY PastKept
<1>4. ASSUME NEW i, NEW x, Once(i, x) PROVE Once(i, x)'
  BY <1>2, <1>3, <1>4 DEF Once
<1>5. ASSUME NEW i, NEW x, NEW y, InOrder(i, x, y) PROVE InOrder(i, x, y)'
  BY <1>2, <1>3, <1>5 DEF InOrder
<1> QED BY <1>2, <1>4, <1>5

\* A worker that stays where it is, or goes elsewhere, is grounded as before.
LEMMA GroundedRests ==
  ASSUME SnapshotTypeOK, [SnapshotNext]_snapshotVars, NEW v \in Workers, Grounded(v),
         todo'[v] \subseteq todo[v],
         \/ step'[v] \notin {"look", "save", "read"}
         \/ step'[v] = "look" /\ LookFirst
         \/ step'[v] = "read" /\ ~LookFirst
         \/ /\ step'[v] = step[v] /\ previous'[v] = previous[v] /\ current'[v] = current[v]
            /\ v \in blind => v \in blind'
            /\ UNCHANGED <<snapshot, stored>> \/ step[v] # "read" \/ ~LookFirst
  PROVE  Grounded(v)'
<1>1. LookFirst' = LookFirst
  BY PastKept DEF LookFirst
<1>2. /\ \A i, x : Once(i, x) => Once(i, x)'
      /\ \A i, x, y : InOrder(i, x, y) => InOrder(i, x, y)'
  BY ShownKept
<1>3. \A c \in todo'[v] : InOrder(c.item, c.before, c.after)'
  BY <1>2 DEF Grounded
<1>4. ASSUME step'[v] = "look", ~LookFirst, v \notin blind', NEW i \in Items
      PROVE  Once(i, previous[v][i])'
  <2>1. PICK x : x = previous[v][i] /\ x = previous'[v][i]
    BY <1>4
  <2>2. Once(i, x)'
    BY <1>2, <1>4, <2>1 DEF Grounded
  <2> QED BY <2>1, <2>2 DEF Once, Shown
<1>5. ASSUME step'[v] = "save", NEW i \in Items PROVE Once(i, current[v][i])'
  <2>1. PICK x : x = current[v][i] /\ x = current'[v][i]
    BY <1>5
  <2>2. Once(i, x)'
    BY <1>2, <1>5, <2>1 DEF Grounded
  <2> QED BY <2>1, <2>2 DEF Once, Shown
<1>6. ASSUME step'[v] = "save", v \notin blind', NEW i \in Items
      PROVE  InOrder(i, previous[v][i], current[v][i])'
  <2>1. PICK x, y : /\ x = previous[v][i] /\ x = previous'[v][i]
                    /\ y = current[v][i] /\ y = current'[v][i]
    BY <1>6
  <2>2. InOrder(i, x, y)'
    BY <1>2, <1>6, <2>1 DEF Grounded
  <2> QED BY <2>1, <2>2 DEF InOrder, Shown
<1>7. ASSUME step'[v] = "read", LookFirst, NEW i \in Items
      PROVE  Once(i, current[v][i])' /\ (stored' => InOrder(i, snapshot[i], current[v][i])')
  <2>1. PICK x, y : /\ x = snapshot[i] /\ x = snapshot'[i] /\ stored' = stored
                    /\ y = current[v][i] /\ y = current'[v][i]
    BY <1>7
  <2>2. Once(i, y)' /\ (stored => InOrder(i, x, y)')
    BY <1>2, <1>7, <2>1 DEF Grounded
  <2> QED BY <2>1, <2>2 DEF Once, InOrder, Shown
<1> QED BY <1>1, <1>3, <1>4, <1>5, <1>6, <1>7 DEF Grounded

\* A worker that goes elsewhere is grounded.
LEMMA GroundedGoTo ==
  ASSUME SnapshotTypeOK, [SnapshotNext]_snapshotVars, NEW v \in Workers, Grounded(v),
         UNCHANGED <<snapshot, stored>>, NEW w \in Workers,
         NEW s \in Stops, s = "look" => LookFirst,
         s = "read" => ~LookFirst, GoTo(w, s)
  PROVE  Grounded(v)'
<1>1. CASE v = w
  <2>1. step'[v] = s /\ todo'[v] = {}
    BY <1>1 DEF GoTo, SnapshotTypeOK, PassOK
  <2> QED BY <2>1, GroundedRests DEF Stops
<1>2. CASE v # w
  <2>1. /\ step'[v] = step[v] /\ previous'[v] = previous[v] /\ current'[v] = current[v]
        /\ todo'[v] = todo[v] /\ blind' = blind \ {w}
    BY <1>2 DEF GoTo, SnapshotTypeOK, PassOK
  <2> QED BY <1>2, <2>1, GroundedRests
<1> QED BY <1>1, <1>2

\* Looking, before or after the stored snapshot is read, adds a later moment.
LEMMA GroundedLook ==
  ASSUME SnapshotTypeOK, Chronicled, [SnapshotNext]_snapshotVars,
         kind # "listener" \/ ~overlapped, NEW v \in Workers, Look(v)
  PROVE  Grounded(v)'
<1>1. PICK c \in [Items -> States] :
        /\ current' = [current EXCEPT ![v] = c]
        /\ \A i \in Items : \/ c[i] = Host[i]
                            \/ c[i] = Absent /\ [item |-> i, at |-> Len(moments)] \in hidden'
  BY LookTaken DEF SnapshotTypeOK
<1>2. /\ step[v] = "look" /\ step'[v] = (IF LookFirst THEN "read" ELSE "save")
      /\ current'[v] = c
      /\ UNCHANGED <<moments, snapshot, stored, previous, blind, todo>>
  BY <1>1 DEF Look, hostVars, storeVars, SnapshotTypeOK, PassOK
<1>3. LookFirst' = LookFirst
  BY PastKept DEF LookFirst
<1>4. Grounded(v) /\ (stored => \A i \in Items : Once(i, snapshot[i]))
  BY DEF Chronicled
<1>5. Len(moments) \in DOMAIN moments /\ Host = moments[Len(moments)]
      /\ \A n \in DOMAIN moments : n <= Len(moments)
  BY HostTypes DEF SnapshotTypeOK, HostOK
<1>6. \A i \in Items : Shown(Len(moments), i, c[i])'
  BY <1>1, <1>2, <1>5 DEF Shown
<1>7. ASSUME NEW i \in Items, NEW x, Once(i, x) PROVE InOrder(i, x, c[i])'
  <2>1. PICK n \in DOMAIN moments : Shown(n, i, x)
    BY <1>7 DEF Once
  <2>2. Shown(n, i, x)'
    BY <2>1, ShownKept
  <2> QED BY <1>2, <1>5, <1>6, <2>1, <2>2 DEF InOrder, Shown
<1>8. \A i \in Items : Once(i, c[i])'
  BY <1>2, <1>5, <1>6 DEF Once, Shown
<1>9. \A d \in todo'[v] : InOrder(d.item, d.before, d.after)'
  BY <1>2, <1>4, ShownKept DEF Grounded
<1>10. ASSUME ~LookFirst, v \notin blind, NEW i \in Items
       PROVE  InOrder(i, previous[v][i], current[v][i])'
  <2>1. PICK x : x = previous[v][i]
    OBVIOUS
  <2>2. InOrder(i, x, c[i])'
    BY <1>2, <1>4, <1>7, <1>10, <2>1 DEF Grounded
  <2> QED BY <1>2, <2>1, <2>2 DEF InOrder, Shown
<1>11. ASSUME stored, NEW i \in Items PROVE InOrder(i, snapshot[i], current[v][i])'
  <2>1. PICK x : x = snapshot[i]
    OBVIOUS
  <2>2. InOrder(i, x, c[i])'
    BY <1>4, <1>7, <1>11, <2>1
  <2> QED BY <1>2, <2>1, <2>2 DEF InOrder, Shown
<1>12. ASSUME NEW i \in Items PROVE Once(i, current[v][i])'
  BY <1>2, <1>8 DEF Once, Shown
<1>13. CASE LookFirst
  BY <1>2, <1>3, <1>9, <1>11, <1>12, <1>13 DEF Grounded
<1>14. CASE ~LookFirst
  BY <1>2, <1>3, <1>9, <1>10, <1>12, <1>14 DEF Grounded
<1> QED BY <1>13, <1>14

\* So does reading what is stored, which was seen before.
LEMMA GroundedRead ==
  ASSUME SnapshotTypeOK, Warranted, Chronicled, [SnapshotNext]_snapshotVars,
         kind # "listener" \/ ~overlapped, NEW v \in Workers, Read(v)
  PROVE  Grounded(v)'
<1>1. /\ step[v] = "read" /\ step'[v] = (IF LookFirst THEN "save" ELSE "look")
      /\ previous'[v] = snapshot /\ (v \notin blind' => ~NoBaseline)
      /\ UNCHANGED <<moments, hidden, snapshot, stored, current, todo>>
  BY DEF Read, hostVars, storeVars, failureVars, SnapshotTypeOK, PassOK
<1>2. LookFirst' = LookFirst
  BY PastKept DEF LookFirst
<1>3. Grounded(v) /\ (stored => \A i \in Items : Once(i, snapshot[i]))
  BY DEF Chronicled
<1>4. v \notin blind' => stored
  BY <1>1 DEF NoBaseline, Warranted
<1>5. \A d \in todo'[v] : InOrder(d.item, d.before, d.after)'
  BY <1>1, <1>3, ShownKept DEF Grounded
<1>6. CASE LookFirst
  <2>1. \A i \in Items : /\ Once(i, current[v][i])
                         /\ stored => InOrder(i, snapshot[i], current[v][i])
    BY <1>1, <1>3, <1>6 DEF Grounded
  <2> QED BY <1>1, <1>2, <1>4, <1>5, <1>6, <2>1 DEF Grounded, Once, InOrder, Shown
<1>7. CASE ~LookFirst
  <2>1. v \notin blind' => \A i \in Items : Once(i, previous[v][i])'
    BY <1>1, <1>3, <1>4 DEF Once, Shown
  <2> QED BY <1>1, <1>2, <1>5, <1>7, <2>1 DEF Grounded
<1> QED BY <1>6, <1>7

\* Chronicled is kept by every step.
LEMMA ChronicledKept ==
  SnapshotTypeOK /\ OneAtATime /\ Warranted /\ Chronicled /\ [SnapshotNext]_snapshotVars
    => Chronicled'
<1> SUFFICES ASSUME SnapshotTypeOK, OneAtATime, Warranted, Chronicled,
                    [SnapshotNext]_snapshotVars, kind' # "listener" \/ ~overlapped'
             PROVE  /\ \A r \in DOMAIN rows' :
                         InOrder(rows[r].change.item, rows[r].change.before,
                                 rows[r].change.after)'
                    /\ stored' => \A i \in Items : Once(i, snapshot[i])'
                    /\ \A w \in Workers : Grounded(w)'
  BY DEF Chronicled
<1>1. ~overlapped' => ~overlapped
  BY JournalFrame DEF SnapshotNext, HostChanges, LogPrivilege, BeginPass, Continue, Look, Read,
         Save, Add, CorrelatePersistence, Finish, Fail, Leave, snapshotVars
<1>2. kind # "listener" \/ ~overlapped
  BY <1>1, PastKept
<1>3. /\ \A r \in DOMAIN rows :
           InOrder(rows[r].change.item, rows[r].change.before, rows[r].change.after)
      /\ stored => \A i \in Items : Once(i, snapshot[i])
      /\ \A w \in Workers : Grounded(w)
  BY <1>2 DEF Chronicled
<1>4. ASSUME NEW r \in DOMAIN rows'
      PROVE  InOrder(rows[r].change.item, rows[r].change.before, rows[r].change.after)'
  <2>1. PICK c : c = rows'[r].change
    OBVIOUS
  <2>2. InOrder(c.item, c.before, c.after)
    <3>1. CASE r \in DOMAIN rows
      BY <1>3, <2>1, <3>1, PastKept
    <3>2. CASE r \notin DOMAIN rows
      <4>1. PICK w \in Workers : Add(w)
        BY <3>2, JournalFrame DEF SnapshotNext, HostChanges, LogPrivilege, BeginPass, Continue,
               Look, Read, Save, CorrelatePersistence, Finish, Fail, Leave, snapshotVars,
               storeVars
      <4>2. PICK d \in todo[w] :
              rows' = rows \/ rows' = Append(rows, [change |-> d, known |-> known[w]])
        BY <4>1 DEF Add
      <4>3. c = d
        BY <2>1, <3>2, <4>2 DEF SnapshotTypeOK, StoreOK
      <4> QED BY <1>3, <4>3 DEF Grounded
    <3> QED BY <3>1, <3>2
  <2>3. InOrder(c.item, c.before, c.after)'
    BY <2>2, ShownKept
  <2> QED BY <2>1, <2>3 DEF InOrder, Shown
<1>5. ASSUME stored', NEW i \in Items PROVE Once(i, snapshot[i])'
  <2>1. PICK x : x = snapshot'[i]
    OBVIOUS
  <2>2. Once(i, x)
    <3>1. ASSUME NEW w \in Workers, Save(w) PROVE Once(i, x)
      BY <1>3, <2>1, <3>1 DEF Save, Grounded
    <3>2. CASE ~\E w \in Workers : Save(w)
      BY <1>3, <1>5, <2>1, <3>2, StoreRests
    <3> QED BY <3>1, <3>2
  <2>3. Once(i, x)'
    BY <2>2, ShownKept
  <2> QED BY <2>1, <2>3 DEF Once, Shown
<1>6. ASSUME NEW v \in Workers PROVE Grounded(v)'
  <2>1. Grounded(v)
    BY <1>3
  <2>2. ASSUME NEW w \in Workers, BeginPass(w) \/ CollectJournal(w) PROVE Grounded(v)'
    <3>1. UNCHANGED <<snapshot, stored>>
      BY <2>2, JournalFrame DEF BeginPass, storeVars
    <3>2. PICK s \in Stops : GoTo(w, s) /\ (s = "look" => LookFirst) /\ (s = "read" => ~LookFirst)
      BY <2>2, StepsAfter, StepsLook, JournalFrame DEF BeginPass
    <3> QED BY <2>1, <3>1, <3>2, GroundedGoTo
  <2>3. ASSUME NEW w \in Workers, Finish(w) \/ Fail(w) PROVE Grounded(v)'
    <3>1. UNCHANGED <<snapshot, stored>> /\ GoTo(w, "idle") /\ "idle" \in Stops
      BY <2>3, StepsAfter DEF Finish, Fail, Leave, Stops, storeVars
    <3> QED BY <2>1, <3>1, GroundedGoTo
  <2>4. ASSUME NEW w \in Workers, Look(w) \/ Read(w) PROVE Grounded(v)'
    <3>1. CASE v = w
      BY <1>2, <2>4, <3>1, GroundedLook, GroundedRead
    <3>2. CASE v # w
      <4>1. /\ step'[v] = step[v] /\ previous'[v] = previous[v] /\ current'[v] = current[v]
            /\ todo'[v] = todo[v] /\ UNCHANGED <<snapshot, stored>>
            /\ v \in blind => v \in blind'
        BY <2>4, <3>2 DEF Look, Read, storeVars, SnapshotTypeOK, PassOK
      <4> QED BY <2>1, <4>1, GroundedRests
    <3> QED BY <3>1, <3>2
  <2>5. ASSUME NEW w \in Workers, Save(w) PROVE Grounded(v)'
    <3>1. step[w] = "save"
      BY <2>5 DEF Save
    <3>2. CASE v = w
      <4>1. step'[v] = "add" /\ todo'[v] = Changes(v)
        BY <2>5, <3>2 DEF Save, SnapshotTypeOK, PassOK
      <4>2. ASSUME NEW c \in Changes(v) PROVE InOrder(c.item, c.before, c.after)
        <5>1. /\ v \notin blind /\ c.before = previous[v][c.item]
              /\ c.after = current[v][c.item] /\ c.item \in Items
          BY ChangeTypes DEF Change, SnapshotTypeOK
        <5> QED BY <2>1, <3>1, <3>2, <5>1 DEF Grounded
      <4>3. \A c \in todo'[v] : InOrder(c.item, c.before, c.after)'
        BY <4>1, <4>2, ShownKept
      <4> QED BY <4>1, <4>3 DEF Grounded
    <3>3. CASE v # w
      <4>1. /\ step'[v] = step[v] /\ previous'[v] = previous[v] /\ current'[v] = current[v]
            /\ todo'[v] = todo[v] /\ (v \in blind => v \in blind')
        BY <2>5, <3>3 DEF Save, SnapshotTypeOK, PassOK
      <4>2. step[v] # "read" \/ ~LookFirst
        <5>1. LookFirst => ~overlapped
          BY <1>2 DEF LookFirst
        <5> QED BY <3>1, <3>3, <5>1 DEF OneAtATime, Busy
      <4> QED BY <2>1, <4>1, <4>2, GroundedRests
    <3> QED BY <3>2, <3>3
  <2>6. ASSUME NEW w \in Workers, Add(w) \/ CorrelatePersistence(w) PROVE Grounded(v)'
    <3>1. /\ todo'[v] \subseteq todo[v]
          /\ UNCHANGED <<previous, current, blind, snapshot, stored>>
          /\ step'[v] = step[v] \/ step'[v] \in {"add", "correlate"}
      BY <2>6 DEF Add, CorrelatePersistence, SnapshotTypeOK, PassOK
    <3> QED BY <2>1, <3>1, GroundedRests
  <2>7. CASE UNCHANGED <<step, previous, current, blind, todo, snapshot, stored>>
    BY <2>1, <2>7, GroundedRests
  <2>8. \/ UNCHANGED <<step, previous, current, blind, todo, snapshot, stored>>
        \/ \E w \in Workers : BeginPass(w) \/ Continue(w) \/ Fail(w)
    BY DEF SnapshotNext, HostChanges, LogPrivilege, snapshotVars, frameVars, storeVars
  <2> QED BY <2>2, <2>3, <2>4, <2>5, <2>6, <2>7, <2>8 DEF Continue
<1> QED BY <1>4, <1>5, <1>6

\* Rows about files, accounts and processes tell of two moments in their order,
\* whatever workers overtake each other; rows about listeners while one works.
THEOREM RowsAreInOrder == SnapshotSpec => []RowsInOrder
<1>1. SnapshotInit => Correlated /\ Warranted /\ OneAtATime /\ Chronicled
  <2> SUFFICES ASSUME SnapshotInit PROVE OneAtATime /\ Chronicled
    BY InitWarranted
  <2>1. \A w \in Workers : step[w] = "idle" /\ todo[w] = {}
    BY DEF SnapshotInit
  <2>2. rows = <<>> /\ ~stored
    BY DEF SnapshotInit
  <2> QED BY <2>1, <2>2 DEF OneAtATime, Busy, Chronicled, Grounded
<1>2. Chronicled => RowsInOrder
  BY DEF Chronicled, InOrder, RowsInOrder
<1> QED
  BY <1>1, <1>2, CorrelatedKept, WarrantedKept, OneAtATimeKept, ChronicledKept, SnapshotTypes,
     PTL DEF SnapshotSpec

-----------------------------------------------------------------------------
\* A record that the stored cursor has passed is not lost from sight: it is in the table,
\* no one will find it, or a worker holds it that has stored its cursor.
Recorded(p) ==
  p \in privileged \cup gone \/ \E v \in Workers : step[v] = "ingest" /\ p \in fetched[v]

\* What the marks of a worker say, and where the records are that its pass is to know of.
Collecting(w) ==
  /\ step[w] = "fetch" => /\ \A p \in 1 .. mark[w] : Recorded(p)
                          /\ \A p \in known[w] : p \in privileged \/ p > mark[w]
  /\ step[w] = "checkpoint" => \A p \in 1 .. mark[w] : Recorded(p) \/ p \in fetched[w]
  /\ step[w] \in {"checkpoint", "ingest"} => known[w] \subseteq privileged \cup fetched[w]
  /\ step[w] \notin {"cursor", "fetch", "checkpoint", "ingest"} => known[w] \subseteq privileged

\* What PersistenceAlarmed rests on: what a pass knows of is in the table once it has
\* read the journals, and so is what a row was to know of.
Forewarned ==
  kind = "file" =>
    /\ \A p \in 1 .. cursor : Recorded(p)
    /\ \A w \in Workers : Collecting(w)
    /\ \A n \in DOMAIN rows : rows[n].known \subseteq privileged
    /\ PersistenceAlarmed

\* The table grows, by what one worker ingests.
LEMMA PrivilegedKept ==
  ASSUME [SnapshotNext]_snapshotVars PROVE privileged \subseteq privileged'
<1>1. ASSUME NEW w \in Workers, CollectJournal(w) PROVE privileged \subseteq privileged'
  BY <1>1 DEF CollectJournal, ReadCursor, FetchJournal, JournalFails, StoreCursor, IngestRecord,
              EndJournal, storeVars
<1>2. CASE ~\E w \in Workers : CollectJournal(w)
  BY <1>2 DEF SnapshotNext, HostChanges, LogPrivilege, BeginPass, Continue, Look, Read, Save, Add,
              CorrelatePersistence, Finish, Fail, Leave, snapshotVars, storeVars
<1> QED BY <1>1, <1>2

\* What no pass will find stays so.
LEMMA GoneKept == ASSUME [SnapshotNext]_snapshotVars PROVE gone \subseteq gone'
<1>1. ASSUME NEW w \in Workers, FetchJournal(w) PROVE gone \subseteq gone'
  <2>1. PICK passed \in IF mark[w] > 0 THEN {mark[w]} ELSE 0 .. privilege :
          gone' = gone \cup (IF mark[w] > 0 THEN {} ELSE 1 .. passed)
    BY <1>1 DEF FetchJournal
  <2> QED BY <2>1
<1>2. ASSUME NEW w \in Workers, CollectJournal(w), ~FetchJournal(w) PROVE gone' = gone
  BY <1>2 DEF CollectJournal, ReadCursor, JournalFails, StoreCursor, IngestRecord, EndJournal,
              failureVars
<1>3. ASSUME NEW w \in Workers, Look(w) \/ Read(w) \/ Save(w) \/ Add(w) PROVE gone' = gone
  BY <1>3 DEF Look, Read, Save, Add, failureVars
<1>4. ASSUME NEW w \in Workers,
             BeginPass(w) \/ CorrelatePersistence(w) \/ Finish(w) \/ Fail(w)
      PROVE  gone \subseteq gone'
  BY <1>4 DEF BeginPass, CorrelatePersistence, Finish, Fail, failureVars
<1>5. gone' = gone \/ \E w \in Workers : BeginPass(w) \/ Continue(w) \/ Fail(w)
  BY DEF SnapshotNext, HostChanges, LogPrivilege, snapshotVars, failureVars
<1> QED BY <1>1, <1>2, <1>3, <1>4, <1>5 DEF Continue

\* A record that is not lost from sight stays so: whoever holds it ingests it, or fails.
LEMMA RecordedKept ==
  ASSUME SnapshotTypeOK, [SnapshotNext]_snapshotVars, NEW p, Recorded(p)
  PROVE  Recorded(p)'
<1> USE DEF SnapshotTypeOK, PassOK
<1>1. privileged \subseteq privileged'
  BY PrivilegedKept
<1>2. gone \subseteq gone'
  BY GoneKept
<1>3. CASE p \in privileged \cup gone
  BY <1>1, <1>2, <1>3 DEF Recorded
<1>4. ASSUME NEW v \in Workers, step[v] = "ingest", p \in fetched[v] PROVE Recorded(p)'
  <2>1. CASE step'[v] = "ingest" /\ p \in fetched'[v]
    BY <2>1 DEF Recorded
  <2>2. ASSUME NEW w \in Workers, BeginPass(w) \/ ReadCursor(w) \/ JournalFails(w)
        PROVE  step'[v] = "ingest" /\ p \in fetched'[v]
    BY <1>4, <2>2 DEF BeginPass, Busy, ReadCursor, JournalFails, GoTo
  <2>3. ASSUME NEW w \in Workers, FetchJournal(w) \/ StoreCursor(w)
        PROVE  step'[v] = "ingest" /\ p \in fetched'[v]
    BY <1>4, <2>3 DEF FetchJournal, StoreCursor, GoTo, journalVars
  <2>4. ASSUME NEW w \in Workers, IngestRecord(w)
        PROVE  p \in privileged' \/ (step'[v] = "ingest" /\ p \in fetched'[v])
    BY <1>4, <2>4 DEF IngestRecord, GoTo
  <2>5. ASSUME NEW w \in Workers, EndJournal(w) PROVE step'[v] = "ingest" /\ p \in fetched'[v]
    BY <1>4, <2>5 DEF EndJournal, GoTo
  <2>6. ASSUME NEW w \in Workers,
               Look(w) \/ Read(w) \/ Save(w) \/ Add(w) \/ CorrelatePersistence(w)
        PROVE  step'[v] = "ingest" /\ p \in fetched'[v]
    BY <1>4, <2>6 DEF Look, Read, Save, Add, CorrelatePersistence, journalVars
  <2>7. ASSUME NEW w \in Workers, Finish(w) PROVE step'[v] = "ingest" /\ p \in fetched'[v]
    BY <1>4, <2>7 DEF Finish, Leave, GoTo
  <2>8. ASSUME NEW w \in Workers, Fail(w)
        PROVE  p \in gone' \/ (step'[v] = "ingest" /\ p \in fetched'[v])
    BY <1>4, <2>8 DEF Fail, Leave, GoTo
  <2>9. \/ UNCHANGED <<step, fetched>>
        \/ \E w \in Workers : BeginPass(w) \/ Continue(w) \/ Fail(w)
    BY DEF SnapshotNext, HostChanges, LogPrivilege, snapshotVars, journalVars
  <2> QED
    BY <1>4, <2>1, <2>2, <2>3, <2>4, <2>5, <2>6, <2>7, <2>8, <2>9
       DEF Continue, CollectJournal, Recorded
<1> QED BY <1>3, <1>4 DEF Recorded

\* A worker whose place in the journal does not change is as before.
LEMMA CollectingRests ==
  ASSUME SnapshotTypeOK, [SnapshotNext]_snapshotVars, NEW v \in Workers, Collecting(v),
         \/ UNCHANGED <<step[v], mark[v], fetched[v], known[v]>>
         \/ known'[v] = {} /\ step'[v] = "idle"
         \/ /\ known'[v] = known[v]
            /\ step[v] \notin {"cursor", "fetch", "checkpoint", "ingest"}
            /\ step'[v] \notin {"cursor", "fetch", "checkpoint", "ingest"}
  PROVE  Collecting(v)'
<1>1. privileged \subseteq privileged'
  BY PrivilegedKept
<1>2. ASSUME step'[v] = "fetch"
      PROVE  /\ \A p \in 1 .. mark'[v] : Recorded(p)'
             /\ \A p \in known'[v] : p \in privileged' \/ p > mark'[v]
  BY <1>1, <1>2, RecordedKept DEF Collecting
<1>3. ASSUME step'[v] = "checkpoint"
      PROVE  \A p \in 1 .. mark'[v] : Recorded(p)' \/ p \in fetched'[v]
  BY <1>3, RecordedKept DEF Collecting
<1>4. step'[v] \in {"checkpoint", "ingest"} => known'[v] \subseteq privileged' \cup fetched'[v]
  BY <1>1 DEF Collecting
<1>5. step'[v] \notin {"cursor", "fetch", "checkpoint", "ingest"} => known'[v] \subseteq privileged'
  BY <1>1 DEF Collecting
<1> QED BY <1>2, <1>3, <1>4, <1>5 DEF Collecting

\* The worker that goes through the journal: what it knows of is found in the table, or
\* fetched and then ingested.
LEMMA CollectingStep ==
  ASSUME SnapshotTypeOK, Forewarned, [SnapshotNext]_snapshotVars, kind = "file",
         NEW w \in Workers, CollectJournal(w)
  PROVE  Collecting(w)'
<1> USE DEF SnapshotTypeOK, PassOK
<1>0. /\ Collecting(w) /\ \A p \in 1 .. cursor : Recorded(p)
      /\ cursor \in Nat /\ privilege \in Nat
      /\ mark[w] \in Nat /\ known[w] \subseteq Privileges /\ fetched[w] \subseteq Privileges
  BY DEF Forewarned, StoreOK, HostOK
<1>1. CASE ReadCursor(w)
  <2>1. /\ step'[w] = "fetch" /\ mark'[w] = cursor /\ known'[w] = Findable
        /\ privileged' = privileged
    BY <1>1 DEF ReadCursor, GoTo, storeVars
  <2>2. ASSUME NEW p \in Findable PROVE p \in privileged \/ p > cursor
    BY <1>0 DEF Findable, Recorded
  <2>3. \A p \in 1 .. mark'[w] : Recorded(p)'
    BY <1>0, <2>1, RecordedKept
  <2> QED BY <2>1, <2>2, <2>3 DEF Collecting
<1>2. CASE FetchJournal(w)
  <2>1. PICK passed \in 0 .. privilege, older \in SUBSET Privileges :
          /\ fetched' = [fetched EXCEPT ![w] = passed + 1 .. privilege]
          /\ mark' = [mark EXCEPT ![w] = IF passed < privilege THEN privilege ELSE @]
          /\ gone' = gone \cup older
          /\ known' = [known EXCEPT ![w] = @ \ (older \ privileged)]
          /\ mark[w] > 0 => passed = mark[w] /\ older = {}
          /\ mark[w] = 0 => older = 1 .. passed
    BY <1>2, FetchPasses, Zenon
  <2>2. /\ step[w] = "fetch" /\ step'[w] = "checkpoint" /\ UNCHANGED privileged
        /\ fetched'[w] = passed + 1 .. privilege
        /\ mark'[w] = IF passed < privilege THEN privilege ELSE mark[w]
        /\ known'[w] = known[w] \ (older \ privileged)
    BY <1>2, <2>1 DEF FetchJournal, GoTo, storeVars
  <2>3. /\ \A p \in 1 .. mark[w] : Recorded(p)
        /\ \A p \in known[w] : p \in privileged \/ p > mark[w]
    BY <1>0, <2>2 DEF Collecting
  <2>4. ASSUME NEW p \in 1 .. mark'[w] PROVE Recorded(p)' \/ p \in fetched'[w]
    <3>1. CASE p \in 1 .. mark[w]
      BY <2>3, <3>1, RecordedKept
    <3>2. CASE p \notin 1 .. mark[w]
      <4>1. p \in passed + 1 .. privilege \/ p \in older
        BY <1>0, <2>1, <2>2, <3>2
      <4> QED BY <2>1, <2>2, <4>1 DEF Recorded
    <3> QED BY <3>1, <3>2
  <2>5. ASSUME NEW p \in known'[w] PROVE p \in privileged' \/ p \in fetched'[w]
    <3>1. p \in known[w] /\ p \in Privileges /\ (p \in privileged \/ (p > mark[w] /\ p \notin older))
      BY <1>0, <2>2, <2>3, <2>5
    <3>2. p \in privileged \/ p \in passed + 1 .. privilege
      BY <1>0, <2>1, <3>1 DEF Privileges
    <3> QED BY <2>2, <3>2
  <2> QED BY <2>2, <2>4, <2>5 DEF Collecting
<1>3. CASE JournalFails(w)
  BY <1>0, <1>3 DEF JournalFails, GoTo, Collecting, storeVars
<1>4. CASE StoreCursor(w)
  BY <1>0, <1>4 DEF StoreCursor, GoTo, Collecting, journalVars
<1>5. CASE IngestRecord(w)
  BY <1>0, <1>5 DEF IngestRecord, GoTo, Collecting
<1>6. CASE EndJournal(w)
  <2>1. step[w] = "ingest" /\ fetched[w] = {} /\ UNCHANGED <<privileged, known>>
    BY <1>6 DEF EndJournal, storeVars
  <2>2. step'[w] = Compare /\ Compare \in {"look", "read"}
    BY <1>6, StepsAfter, Zenon DEF EndJournal, GoTo, StepAfter, Compare
  <2>3. known'[w] \subseteq privileged'
    BY <1>0, <2>1 DEF Collecting
  <2> QED BY <2>2, <2>3 DEF Collecting
<1> QED BY <1>1, <1>2, <1>3, <1>4, <1>5, <1>6 DEF CollectJournal

\* What holds of the cursor and of the workers is kept.
LEMMA CollectingKept ==
  ASSUME SnapshotTypeOK, Forewarned, [SnapshotNext]_snapshotVars, kind = "file"
  PROVE  /\ \A p \in 1 .. cursor' : Recorded(p)'
         /\ \A v \in Workers : Collecting(v)'
<1> USE DEF SnapshotTypeOK, PassOK
<1>0. /\ \A p \in 1 .. cursor : Recorded(p)
      /\ \A v \in Workers : Collecting(v)
  BY DEF Forewarned
<1>1. ASSUME NEW p \in 1 .. cursor' PROVE Recorded(p)'
  <2>1. ASSUME NEW w \in Workers, StoreCursor(w) PROVE Recorded(p)'
    <3>1. /\ step[w] = "checkpoint" /\ step'[w] = "ingest" /\ UNCHANGED fetched
          /\ cursor' \in {cursor, mark[w]}
      BY <2>1 DEF StoreCursor, GoTo, journalVars
    <3>2. CASE p \in 1 .. cursor
      BY <1>0, <3>2, RecordedKept
    <3>3. CASE p \in 1 .. mark[w]
      <4>1. Recorded(p) \/ p \in fetched[w]
        BY <1>0, <3>1, <3>3 DEF Collecting
      <4> QED BY <3>1, <4>1, RecordedKept DEF Recorded
    <3> QED BY <3>1, <3>2, <3>3
  <2>2. CASE ~\E w \in Workers : StoreCursor(w)
    <3>1. cursor' = cursor
      BY <2>2 DEF SnapshotNext, HostChanges, LogPrivilege, BeginPass, Continue, CollectJournal,
             ReadCursor, FetchJournal, JournalFails, IngestRecord, EndJournal, Look, Read, Save,
             Add, CorrelatePersistence, Finish, Fail, Leave, snapshotVars, storeVars
    <3> QED BY <1>0, <3>1, RecordedKept
  <2> QED BY <2>1, <2>2
<1>2. ASSUME NEW v \in Workers PROVE Collecting(v)'
  <2>1. ASSUME NEW w \in Workers, w # v, CollectJournal(w)
        PROVE  UNCHANGED <<step[v], mark[v], fetched[v], known[v]>>
    BY <2>1 DEF CollectJournal, ReadCursor, FetchJournal, JournalFails, StoreCursor, IngestRecord,
                EndJournal, GoTo, journalVars
  <2>2. ASSUME NEW w \in Workers, BeginPass(w) PROVE Collecting(v)'
    <3>1. StepAfter("begin") = "cursor"
      BY Zenon DEF StepAfter
    <3>2. CASE v = w
      BY <2>2, <3>1, <3>2 DEF BeginPass, GoTo, Collecting
    <3>3. CASE v # w
      <4>1. UNCHANGED <<step[v], mark[v], fetched[v], known[v]>>
        BY <2>2, <3>3 DEF BeginPass, GoTo
      <4> QED BY <1>0, <4>1, CollectingRests
    <3> QED BY <3>2, <3>3
  <2>3. ASSUME NEW w \in Workers, Finish(w) \/ Fail(w) PROVE Collecting(v)'
    <3>1. Leave(w, "idle")
      BY <2>3, StepsAfter DEF Finish, Fail
    <3>2. \/ UNCHANGED <<step[v], mark[v], fetched[v], known[v]>>
          \/ known'[v] = {} /\ step'[v] = "idle"
      BY <3>1 DEF Leave, GoTo
    <3> QED BY <1>0, <3>2, CollectingRests
  <2>4. ASSUME NEW w \in Workers,
               Look(w) \/ Read(w) \/ Save(w) \/ Add(w) \/ CorrelatePersistence(w)
        PROVE  Collecting(v)'
    <3>1. /\ UNCHANGED <<mark, fetched, known>>
          /\ v # w => step'[v] = step[v]
          /\ step[w] \notin {"cursor", "fetch", "checkpoint", "ingest"}
          /\ step'[w] \notin {"cursor", "fetch", "checkpoint", "ingest"}
      BY <2>4 DEF Look, Read, Save, Add, CorrelatePersistence, journalVars
    <3> QED BY <1>0, <3>1, CollectingRests
  <2>5. CASE UNCHANGED <<step, mark, fetched, known>>
    BY <1>0, <2>5, CollectingRests
  <2>6. \/ UNCHANGED <<step, mark, fetched, known>>
        \/ \E w \in Workers : BeginPass(w) \/ Continue(w) \/ Fail(w)
    BY DEF SnapshotNext, HostChanges, LogPrivilege, snapshotVars, journalVars
  <2>7. ASSUME NEW w \in Workers, CollectJournal(w) PROVE Collecting(v)'
    <3>1. CASE v = w
      BY <2>7, <3>1, CollectingStep
    <3>2. CASE v # w
      BY <1>0, <2>1, <2>7, <3>2, CollectingRests
    <3> QED BY <3>1, <3>2
  <2> QED BY <2>2, <2>3, <2>4, <2>5, <2>6, <2>7 DEF Continue
<1> QED BY <1>1, <1>2

\* What waits to be correlated waits on, is dropped by a fault, or raises the alarm
\* if there was privilege.
LEMMA EventKept ==
  ASSUME SnapshotTypeOK, [SnapshotNext]_snapshotVars, NEW c \in Change,
         NEW w \in Workers, event[w] = c
  PROVE  \/ event'[w] = c
         \/ c \in lost'
         \/ privileged # {} => [path |-> c.item, privilege |-> privileged] \in alarms'
<1> USE DEF SnapshotTypeOK, PassOK
<1>1. step[w] = "correlate" /\ c # NoChange
  BY SnapshotsAssumption
<1>2. ASSUME NEW v \in Workers, BeginPass(v) \/ CollectJournal(v) \/ Finish(v)
      PROVE  event'[w] = c
  <2>1. v # w /\ \E s : GoTo(v, s)
    BY <1>1, <1>2, JournalFrame DEF BeginPass, Busy, Finish, Leave
  <2> QED BY <2>1 DEF GoTo
<1>3. ASSUME NEW v \in Workers, Look(v) \/ Read(v) \/ Save(v) \/ Add(v) PROVE event'[w] = c
  BY <1>1, <1>3 DEF Look, Read, Save, Add
<1>4. ASSUME NEW v \in Workers, Fail(v) PROVE event'[w] = c \/ c \in lost'
  BY <1>1, <1>4 DEF Fail, Pending, Leave, GoTo
<1>5. ASSUME NEW v \in Workers, CorrelatePersistence(v)
      PROVE  \/ event'[w] = c
             \/ privileged # {} => [path |-> c.item, privilege |-> privileged] \in alarms'
  <2>1. CASE v # w
    BY <1>5, <2>1 DEF CorrelatePersistence
  <2>2. CASE v = w
    BY <1>5, <2>2 DEF CorrelatePersistence
  <2> QED BY <2>1, <2>2
<1>6. event' = event \/ \E v \in Workers : BeginPass(v) \/ Continue(v) \/ Fail(v)
  BY DEF SnapshotNext, HostChanges, LogPrivilege, snapshotVars, frameVars
<1> QED BY <1>2, <1>3, <1>4, <1>5, <1>6 DEF Continue

\* Only CorrelatePersistence raises alarms, and none is taken back.
LEMMA AlarmsKept == ASSUME [SnapshotNext]_snapshotVars PROVE alarms \subseteq alarms'
  BY JournalFrame DEF SnapshotNext, HostChanges, LogPrivilege, BeginPass, Continue, Look, Read,
         Save, Add, CorrelatePersistence, Finish, Fail, Leave, snapshotVars, storeVars

\* Forewarned is kept by every step.
LEMMA ForewarnedKept ==
  SnapshotTypeOK /\ Forewarned /\ [SnapshotNext]_snapshotVars => Forewarned'
<1> SUFFICES ASSUME SnapshotTypeOK, Forewarned, [SnapshotNext]_snapshotVars, kind = "file"
             PROVE  /\ \A n \in DOMAIN rows' : rows'[n].known \subseteq privileged'
                    /\ PersistenceAlarmed'
  BY PastKept, CollectingKept DEF Forewarned
<1>1. PersistenceAlarmed /\ \A n \in DOMAIN rows : rows[n].known \subseteq privileged
  BY DEF Forewarned
<1>2. ASSUME NEW n \in DOMAIN rows', n \notin DOMAIN rows
      PROVE  /\ rows'[n].known \subseteq privileged
             /\ rows'[n].change.item \in Persistent =>
                  \E w \in Workers : event'[w] = rows'[n].change
  <2>1. PICK w \in Workers : Add(w)
    BY <1>2, JournalFrame DEF SnapshotNext, HostChanges, LogPrivilege, BeginPass, Continue,
           Look, Read, Save, CorrelatePersistence, Finish, Fail, Leave, snapshotVars, storeVars
  <2>2. PICK c \in todo[w] :
          /\ rows' = IF HasRow(c) THEN rows
                     ELSE Append(rows, [change |-> c, known |-> known[w]])
          /\ IF ~HasRow(c) /\ kind = "file" /\ c.item \in Persistent
               THEN event' = [event EXCEPT ![w] = c] ELSE UNCHANGED event
    BY <2>1 DEF Add
  <2>3. ~HasRow(c) /\ rows' = Append(rows, [change |-> c, known |-> known[w]])
    BY <1>2, <2>2
  <2>4. rows'[n] = [change |-> c, known |-> known[w]]
    BY <1>2, <2>3 DEF SnapshotTypeOK, StoreOK
  <2>5. known[w] \subseteq privileged
    BY <2>1 DEF Add, Forewarned, Collecting
  <2>6. c.item \in Persistent => event'[w] = c
    BY <2>2, <2>3 DEF SnapshotTypeOK, PassOK
  <2> QED BY <2>4, <2>5, <2>6
<1>3. ASSUME NEW n \in DOMAIN rows'
      PROVE  rows'[n].known \subseteq privileged /\ rows'[n].known \subseteq privileged'
  BY <1>1, <1>2, <1>3, PrivilegedKept, PastKept
<1>4. ASSUME NEW n \in DOMAIN rows', rows'[n].change.item \in Persistent, rows'[n].known # {}
      PROVE  \/ \E a \in alarms' : /\ a.path = rows'[n].change.item
                                   /\ rows'[n].known \subseteq a.privilege
             \/ rows'[n].change \in lost'
             \/ \E w \in Workers : event'[w] = rows'[n].change
  <2>1. CASE n \notin DOMAIN rows
    BY <1>2, <1>4, <2>1
  <2>2. CASE n \in DOMAIN rows
    <3>1. rows'[n] = rows[n] /\ rows[n].change \in Change
      <4>1. rows[n] \in [change : Change, known : SUBSET Privileges]
        BY <2>2, SeqElement DEF SnapshotTypeOK, StoreOK
      <4> QED BY <2>2, <4>1, PastKept
    <3>2. CASE \E w \in Workers : event[w] = rows[n].change
      <4>1. PICK c \in Change, w \in Workers : c = rows[n].change /\ event[w] = c
        BY <3>1, <3>2
      <4>2. CASE [path |-> c.item, privilege |-> privileged] \in alarms'
        <5>1. PICK a \in alarms' : a = [path |-> c.item, privilege |-> privileged]
          BY <4>2
        <5>2. a.path = c.item /\ a.privilege = privileged
          BY <5>1
        <5> QED BY <1>3, <3>1, <4>1, <5>2
      <4>3. CASE event'[w] = c \/ c \in lost'
        BY <3>1, <4>1, <4>3
      <4>4. privileged # {}
        BY <1>3, <1>4
      <4> QED BY <4>1, <4>2, <4>3, <4>4, EventKept
    <3>3. CASE \/ rows[n].change \in lost
               \/ \E a \in alarms : /\ a.path = rows[n].change.item
                                    /\ rows[n].known \subseteq a.privilege
      BY <3>1, <3>3, PastKept, AlarmsKept
    <3> QED BY <1>1, <1>4, <2>2, <3>1, <3>2, <3>3 DEF PersistenceAlarmed
  <2> QED BY <2>1, <2>2
<1> QED BY <1>3, <1>4 DEF PersistenceAlarmed

\* Every change of persistence that a pass reports has an alarm that rests on every sudo
\* logged before the pass, whatever other workers do and wherever a fault strikes, unless
\* the record went with a fault or with --since, a fetch failed, or another worker had it
\* in its hands when the pass read the cursor.
THEOREM PersistenceIsAlarmed == SnapshotSpec => []PersistenceAlarmed
<1>1. SnapshotInit => Forewarned
  BY DEF SnapshotInit, Forewarned, Collecting, PersistenceAlarmed
<1>2. SnapshotTypeOK /\ Forewarned => PersistenceAlarmed
  BY DEF Forewarned, PersistenceAlarmed
<1> QED BY <1>1, <1>2, ForewarnedKept, SnapshotTypes, PTL DEF SnapshotSpec

-----------------------------------------------------------------------------
\* A worker that has looked and not yet stored.
HasLooked(w) == step[w] = "save" \/ (step[w] = "read" /\ LookFirst)

\* Only a worker that looked for a baseline has found none.
BlindRead == \A w \in blind : HasRead(w)

\* What a snapshot of the host at moment n may be.
Seen(n, snap) == \A i \in Items : Shown(n, i, snap[i])

\* The stored snapshot is of a moment of the host, no earlier than any baseline and no
\* later than what a worker has seen since.
Anchored ==
  stored => \E m \in DOMAIN moments :
    /\ Seen(m, snapshot)
    /\ \A s \in silent : s.at <= m
    /\ \A w \in Workers : HasLooked(w) => m <= looked[w]

\* What BaselineOnce rests on, while one worker works.
Founded ==
  ~overlapped =>
    /\ silent # {} => stored
    /\ Anchored
    /\ \A w \in Workers : HasLooked(w) => Seen(looked[w], current[w])
    /\ BlindRead
    /\ blind # {} => NoBaseline
    /\ BaselineOnce

\* What a snapshot of the host as it is may be, with what taking it hides.
SeenNow(snap) ==
  \A i \in Items : \/ snap[i] = Host[i]
                   \/ snap[i] = Absent /\ [item |-> i, at |-> Len(moments)] \in hidden'

\* What a worker has seen, and whether it read a baseline, it keeps until it stores.
LEMMA LookedKept ==
  ASSUME SnapshotTypeOK, BlindRead, [SnapshotNext]_snapshotVars, NEW v \in Workers
  PROVE  /\ HasLooked(v)' =>
              \/ HasLooked(v) /\ looked'[v] = looked[v] /\ current'[v] = current[v]
              \/ looked'[v] = Len(moments) /\ SeenNow(current'[v])
         /\ v \in blind' => HasRead(v)' /\ (v \in blind \/ NoBaseline)
<1> USE DEF SnapshotTypeOK, PassOK, BlindRead
<1> DEFINE Kept ==
      /\ HasLooked(v)' =>
           HasLooked(v) /\ looked'[v] = looked[v] /\ current'[v] = current[v]
      /\ v \in blind' => HasRead(v)' /\ v \in blind
<1>0. LookFirst' = LookFirst
  BY PastKept DEF LookFirst
<1>1. ASSUME NEW w \in Workers, NEW s \in Stops, GoTo(w, s),
             s = "read" => ~LookFirst, s = "look" => LookFirst
      PROVE  Kept
  <2>1. CASE v = w
    <3>1. step'[v] = s /\ v \notin blind'
      BY <1>1, <2>1 DEF GoTo
    <3> QED BY <1>0, <1>1, <3>1 DEF HasLooked, Stops
  <2>2. CASE v # w
    <3>1. /\ step'[v] = step[v] /\ looked'[v] = looked[v] /\ current'[v] = current[v]
          /\ blind' = blind \ {w}
      BY <1>1, <2>2 DEF GoTo
    <3> QED BY <1>0, <3>1 DEF HasLooked, HasRead
  <2> QED BY <2>1, <2>2
<1>2. ASSUME NEW w \in Workers, BeginPass(w) \/ CollectJournal(w) PROVE Kept
  <2>1. PICK s \in Stops : GoTo(w, s) /\ (s = "look" => LookFirst) /\ (s = "read" => ~LookFirst)
    BY <1>2, StepsAfter, StepsLook, JournalFrame DEF BeginPass
  <2> QED BY <1>1, <2>1
<1>3. ASSUME NEW w \in Workers, Finish(w) \/ Fail(w) PROVE Kept
  <2>1. GoTo(w, "idle") /\ "idle" \in Stops
    BY <1>3, StepsAfter DEF Finish, Fail, Leave, Stops
  <2> QED BY <1>1, <2>1
<1>4. ASSUME NEW w \in Workers, Look(w)
      PROVE  /\ \/ looked'[v] = Len(moments) /\ SeenNow(current'[v])
                \/ /\ looked'[v] = looked[v] /\ current'[v] = current[v]
                   /\ HasLooked(v)' => HasLooked(v)
             /\ v \in blind' => HasRead(v)' /\ v \in blind
  <2>1. PICK c \in [Items -> States] :
          /\ current' = [current EXCEPT ![w] = c]
          /\ \A i \in Items : \/ c[i] = Host[i]
                              \/ c[i] = Absent /\ [item |-> i, at |-> Len(moments)] \in hidden'
    BY <1>4, LookTaken
  <2>2. /\ step[w] = "look" /\ step' = [step EXCEPT ![w] = IF LookFirst THEN "read" ELSE "save"]
        /\ looked' = [looked EXCEPT ![w] = Len(moments)] /\ blind' = blind
    BY <1>4 DEF Look
  <2>3. CASE v = w
    BY <1>0, <2>1, <2>2, <2>3 DEF HasRead, SeenNow
  <2>4. CASE v # w
    BY <1>0, <2>1, <2>2, <2>4 DEF HasRead, HasLooked
  <2> QED BY <2>3, <2>4
<1>5. ASSUME NEW w \in Workers, Read(w)
      PROVE  /\ HasLooked(v)' =>
                  HasLooked(v) /\ looked'[v] = looked[v] /\ current'[v] = current[v]
             /\ v \in blind' => HasRead(v)' /\ (v \in blind \/ NoBaseline)
  <2>1. /\ step[w] = "read" /\ step' = [step EXCEPT ![w] = IF LookFirst THEN "save" ELSE "look"]
        /\ blind' = IF NoBaseline THEN blind \cup {w} ELSE blind
        /\ UNCHANGED <<looked, current>>
    BY <1>5 DEF Read
  <2>2. CASE v = w
    <3>1. HasLooked(v)' => HasLooked(v)
      BY <1>0, <2>1, <2>2 DEF HasLooked
    <3>2. HasRead(v)' /\ v \notin blind
      BY <1>0, <2>1, <2>2 DEF HasRead
    <3> QED BY <2>1, <2>2, <3>1, <3>2
  <2>3. CASE v # w
    BY <1>0, <2>1, <2>3 DEF HasRead, HasLooked
  <2> QED BY <2>2, <2>3
<1>6. ASSUME NEW w \in Workers, Save(w) PROVE Kept
  <2>1. /\ step' = [step EXCEPT ![w] = "add"] /\ looked' = [looked EXCEPT ![w] = 1]
        /\ current' = [current EXCEPT ![w] = Nothing] /\ blind' = blind \ {w}
    BY <1>6 DEF Save
  <2> QED BY <1>0, <2>1 DEF HasRead, HasLooked
<1>7. ASSUME NEW w \in Workers, Add(w) \/ CorrelatePersistence(w) PROVE Kept
  <2>1. /\ UNCHANGED <<looked, current, blind>>
        /\ step'[v] = step[v] \/ (step'[v] \in {"add", "correlate"} /\ ~HasRead(v))
    BY <1>7 DEF Add, CorrelatePersistence, HasRead
  <2> QED BY <1>0, <2>1 DEF HasRead, HasLooked
<1>8. CASE UNCHANGED <<step, current, looked, blind>>
  BY <1>0, <1>8 DEF HasRead, HasLooked
<1>9. \/ UNCHANGED <<step, current, looked, blind>>
      \/ \E w \in Workers : BeginPass(w) \/ Continue(w) \/ Fail(w)
  BY DEF SnapshotNext, HostChanges, LogPrivilege, snapshotVars, frameVars
<1> QED BY <1>2, <1>3, <1>4, <1>5, <1>6, <1>7, <1>8, <1>9 DEF Continue

\* What is stored when nothing was is not told, and its moment is no baseline's.
LEMMA SaveFounded ==
  ASSUME SnapshotTypeOK, OneAtATime, Founded, ~overlapped,
         [SnapshotNext]_snapshotVars, NEW w \in Workers, Save(w)
  PROVE  (silent # {} => stored)' /\ Anchored' /\ (blind = {})' /\ BaselineOnce'
<1>0. PICK l \in DOMAIN moments : l = looked[w]
  BY DEF SnapshotTypeOK, PassOK
<1>1. /\ snapshot' = current[w] /\ stored' = TRUE /\ step[w] = "save" /\ kind' = kind
      /\ UNCHANGED <<moments, hidden, overlapped>> /\ blind' = blind \ {w}
      /\ \A v \in Workers : v # w => step'[v] = "idle"
      /\ step'[w] = "add"
      /\ \A s \in silent' : s \in silent \/ (w \in blind /\ s.at = l)
  BY <1>0 DEF Save, hostVars, failureVars, OneAtATime, Busy, SnapshotTypeOK, PassOK
<1>2. /\ HasLooked(w) /\ Seen(l, current[w])
      /\ stored => \E m \in DOMAIN moments :
           /\ Seen(m, snapshot) /\ m <= l
           /\ \A s \in silent : s.at <= m
      /\ \A s \in silent : s.at \in DOMAIN moments
  BY <1>0, <1>1 DEF Founded, Anchored, HasLooked, SnapshotTypeOK, StoreOK
<1>3. DOMAIN moments \subseteq Nat
  BY DEF SnapshotTypeOK, HostOK
<1>4. \A s \in silent : stored /\ s.at <= l
  BY <1>2, <1>3 DEF Founded
<1>5. Anchored'
  <2>1. l \in DOMAIN moments' /\ Seen(l, snapshot)'
    BY <1>1, <1>2 DEF Seen, Shown
  <2>2. \A s \in silent' : s.at <= l
    BY <1>1, <1>2, <1>3, <1>4
  <2>3. \A v \in Workers : ~HasLooked(v)'
    BY <1>1 DEF HasLooked
  <2> QED BY <2>1, <2>2, <2>3 DEF Anchored
<1>6. blind' = {}
  BY <1>1 DEF Founded, BlindRead, HasRead, OneAtATime, Busy, SnapshotTypeOK, PassOK
<1>7. ASSUME NEW s \in silent', NEW t \in silent', s.at < t.at
      PROVE  kind # "account" /\ \E n \in s.at .. t.at : \A i \in Items : Shown(n, i, Absent)
  <2>1. CASE s \in silent /\ t \in silent
    BY <1>7, <2>1 DEF Founded, BaselineOnce
  <2>2. CASE s \notin silent
    BY <1>1, <1>2, <1>3, <1>4, <1>7, <2>2
  <2>3. CASE s \in silent /\ t \notin silent
    <3>1. w \in blind /\ t.at = l /\ stored
      BY <1>1, <1>4, <2>3
    <3>2. kind # "account" /\ \A i \in Items : snapshot[i] = Absent
      BY <3>1 DEF Founded, NoBaseline, Nothing
    <3>3. PICK m \in DOMAIN moments : Seen(m, snapshot) /\ m <= l /\ s.at <= m
      BY <1>2, <2>3, <3>1
    <3>4. m \in s.at .. t.at
      BY <1>2, <1>3, <2>3, <3>1, <3>3
    <3>5. \A i \in Items : Shown(m, i, Absent)
      BY <3>2, <3>3 DEF Seen
    <3> QED BY <3>2, <3>4, <3>5
  <2> QED BY <2>1, <2>2, <2>3
<1>8. \A n, i : Shown(n, i, Absent)' <=> Shown(n, i, Absent)
  BY <1>1 DEF Shown
<1> QED BY <1>1, <1>5, <1>6, <1>7, <1>8 DEF BaselineOnce

\* Founded is kept by every step.
LEMMA FoundedKept ==
  SnapshotTypeOK /\ OneAtATime /\ Founded /\ [SnapshotNext]_snapshotVars => Founded'
<1> SUFFICES ASSUME SnapshotTypeOK, OneAtATime, Founded, [SnapshotNext]_snapshotVars,
                    ~overlapped'
             PROVE  /\ (silent # {} => stored)' /\ Anchored'
                    /\ \A w \in Workers : (HasLooked(w) => Seen(looked[w], current[w]))'
                    /\ BlindRead' /\ (blind # {} => NoBaseline)' /\ BaselineOnce'
  BY DEF Founded
<1>1. ~overlapped
  BY JournalFrame DEF SnapshotNext, HostChanges, LogPrivilege, BeginPass, Continue, Look, Read,
         Save, Add, CorrelatePersistence, Finish, Fail, Leave, snapshotVars
<1>2. \A n \in DOMAIN moments : \A i, x : Shown(n, i, x) => Shown(n, i, x)'
  BY ShownKept
<1>3. /\ (silent # {} => stored) /\ Anchored /\ BlindRead /\ (blind # {} => NoBaseline)
      /\ \A w \in Workers : HasLooked(w) => Seen(looked[w], current[w])
  BY <1>1 DEF Founded
<1>4. /\ DOMAIN moments \subseteq DOMAIN moments' /\ kind' = kind
      /\ \A n \in DOMAIN moments : moments'[n] = moments[n]
      /\ DOMAIN moments \subseteq Nat
      /\ Len(moments) \in DOMAIN moments /\ moments[Len(moments)] = Host
      /\ \A n \in DOMAIN moments : n <= Len(moments)
  BY PastKept, HostTypes DEF SnapshotTypeOK, HostOK
<1>5. \A w \in Workers : looked[w] \in DOMAIN moments
  BY DEF SnapshotTypeOK, PassOK
<1>6. ASSUME NEW w \in Workers
      PROVE  /\ HasLooked(w)' =>
                  \/ HasLooked(w) /\ looked'[w] = looked[w] /\ current'[w] = current[w]
                  \/ looked'[w] = Len(moments) /\ SeenNow(current'[w])
             /\ w \in blind' => HasRead(w)' /\ (w \in blind \/ NoBaseline)
  BY <1>3, LookedKept
<1>7. ASSUME NEW w \in Workers, HasLooked(w)' PROVE Seen(looked[w], current[w])'
  <2>1. CASE HasLooked(w) /\ looked'[w] = looked[w] /\ current'[w] = current[w]
    <3>1. PICK n \in DOMAIN moments : n = looked[w]
      BY <1>5
    <3>2. PICK c : c = current[w]
      OBVIOUS
    <3>3. Seen(n, c)
      BY <1>3, <2>1, <3>1, <3>2
    <3>4. \A i \in Items : Shown(n, i, c[i])'
      BY <1>2, <3>3 DEF Seen
    <3> QED BY <2>1, <3>1, <3>2, <3>4 DEF Seen
  <2>2. CASE looked'[w] = Len(moments) /\ SeenNow(current'[w])
    <3>1. PICK n \in DOMAIN moments : n = Len(moments) /\ moments'[n] = Host
      BY <1>4
    <3>2. PICK c : c = current'[w]
      OBVIOUS
    <3>3. \A i \in Items : Shown(n, i, c[i])'
      BY <2>2, <3>1, <3>2 DEF SeenNow, Shown
    <3> QED BY <2>2, <3>1, <3>2, <3>3 DEF Seen
  <2> QED BY <1>6, <1>7, <2>1, <2>2
<1>8. blind' \subseteq Workers
  BY NextTypes DEF SnapshotTypeOK, PassOK
<1>9. BlindRead'
  BY <1>6, <1>8 DEF BlindRead
<1>10. CASE \E w \in Workers : Save(w)
  BY <1>1, <1>7, <1>9, <1>10, SaveFounded
<1>11. CASE ~\E w \in Workers : Save(w)
  <2>1. snapshot' = snapshot /\ stored' = stored /\ silent' = silent
    BY <1>11, StoreRests
  <2>2. Anchored'
    <3> SUFFICES ASSUME stored
                 PROVE  \E m \in DOMAIN moments' :
                          /\ Seen(m, snapshot)'
                          /\ \A s \in silent' : s.at <= m
                          /\ \A w \in Workers : HasLooked(w)' => m <= looked'[w]
      BY <2>1 DEF Anchored
    <3>1. PICK m \in DOMAIN moments : /\ Seen(m, snapshot)
                                      /\ \A s \in silent : s.at <= m
                                      /\ \A w \in Workers : HasLooked(w) => m <= looked[w]
      BY <1>3 DEF Anchored
    <3>2. \A w \in Workers : HasLooked(w)' => m <= looked'[w]
      BY <1>4, <1>6, <3>1
    <3>3. PICK c : c = snapshot
      OBVIOUS
    <3>4. \A i \in Items : Shown(m, i, c[i])'
      BY <1>2, <3>1, <3>3 DEF Seen
    <3>5. Seen(m, snapshot)'
      BY <2>1, <3>3, <3>4 DEF Seen
    <3> QED BY <1>4, <2>1, <3>1, <3>2, <3>5
  <2>3. (blind # {} => NoBaseline)'
    <3>1. NoBaseline' = NoBaseline
      BY <1>4, <2>1 DEF NoBaseline, Nothing
    <3>2. blind' # {} => NoBaseline
      BY <1>3, <1>6, <1>8
    <3> QED BY <3>1, <3>2
  <2>4. BaselineOnce'
    <3> SUFFICES ASSUME NEW s \in silent, NEW t \in silent, s.at < t.at
                 PROVE  /\ kind # "account"
                        /\ \E n \in s.at .. t.at : \A i \in Items : Shown(n, i, Absent)'
      BY <1>4, <2>1 DEF BaselineOnce
    <3>1. PICK n \in s.at .. t.at : /\ kind # "account"
                                    /\ \A i \in Items : Shown(n, i, Absent)
      BY <1>1 DEF Founded, BaselineOnce
    <3>2. s.at \in DOMAIN moments /\ t.at \in DOMAIN moments
      BY DEF SnapshotTypeOK, StoreOK
    <3>3. n \in DOMAIN moments
      BY <3>1, <3>2 DEF SnapshotTypeOK, HostOK
    <3> QED BY <1>2, <3>1, <3>3
  <2> QED BY <1>3, <1>7, <1>9, <2>1, <2>2, <2>3, <2>4
<1> QED BY <1>10, <1>11

\* With one worker at a time, what is found is taken for granted a second time only if
\* in between there was a moment with nothing of the kind that a snapshot could show:
\* faults and restarts never make a new baseline.
THEOREM BaselineIsTakenOnce == SnapshotSpec => []BaselineOnce
<1>1. SnapshotInit => OneAtATime /\ Founded
  <2> SUFFICES ASSUME SnapshotInit PROVE OneAtATime /\ Founded
    OBVIOUS
  <2>1. /\ \A w \in Workers : step[w] = "idle"
        /\ silent = {} /\ stored = FALSE /\ blind = {}
    BY DEF SnapshotInit
  <2> QED BY <2>1 DEF OneAtATime, Busy, Founded, Anchored, HasLooked, BlindRead, BaselineOnce
<1>2. Founded => BaselineOnce
  BY DEF Founded, BaselineOnce
<1> QED BY <1>1, <1>2, OneAtATimeKept, FoundedKept, SnapshotTypes, PTL DEF SnapshotSpec

-----------------------------------------------------------------------------
\* There is a row of a change of i from x to y.
Edge(i, x, y) == \E n \in DOMAIN rows : rows[n].change = [item |-> i, before |-> x, after |-> y]

\* The changes of i that have a row lead from x to y over at most k states.
LeadsTo(i, x, y, k) ==
  \E n \in 1 .. k : \E path \in [1 .. n -> States] :
    /\ path[1] = x /\ path[n] = y
    /\ \A j \in 1 .. n - 1 : Edge(i, path[j], path[j + 1])

\* A state leads to itself.
LEMMA LeadsHere ==
  ASSUME NEW x \in States, NEW k \in Nat \ {0}
  PROVE  \E n \in 1 .. k : \E path \in [1 .. n -> States] :
           path[1] = x /\ path[n] = x /\ (1 .. n - 1) = {}
<1> DEFINE path == [j \in 1 .. 1 |-> x]
<1>1. path \in [1 .. 1 -> States] /\ path[1] = x /\ 1 \in 1 .. k /\ (1 .. 1 - 1) = {}
  OBVIOUS
<1> HIDE DEF path
<1> QED BY <1>1

\* One more row leads one state further.
LEMMA LeadsOn ==
  ASSUME NEW i, NEW x, NEW y, NEW z \in States, NEW k \in Nat, LeadsTo(i, x, y, k), Edge(i, y, z)
  PROVE  LeadsTo(i, x, z, k + 1)
<1>0. PICK n \in 1 .. k : \E path \in [1 .. n -> States] :
        /\ path[1] = x /\ path[n] = y
        /\ \A j \in 1 .. n - 1 : Edge(i, path[j], path[j + 1])
  BY DEF LeadsTo
<1>1. PICK path \in [1 .. n -> States] :
        /\ path[1] = x /\ path[n] = y
        /\ \A j \in 1 .. n - 1 : Edge(i, path[j], path[j + 1])
  BY <1>0
<1> DEFINE more == [j \in 1 .. n + 1 |-> IF j = n + 1 THEN z ELSE path[j]]
<1>2. more \in [1 .. n + 1 -> States] /\ more[1] = x /\ more[n + 1] = z
  BY <1>1
<1>3. ASSUME NEW j \in 1 .. (n + 1) - 1 PROVE Edge(i, more[j], more[j + 1])
  <2>1. CASE j = n
    <3>1. more[j] = y /\ more[j + 1] = z
      BY <1>1, <2>1
    <3> QED BY <3>1
  <2>2. CASE j # n
    <3>1. more[j] = path[j] /\ more[j + 1] = path[j + 1] /\ j \in 1 .. n - 1
      BY <1>1, <1>3, <2>2
    <3> QED BY <1>1, <3>1
  <2> QED BY <2>1, <2>2
<1>4. n + 1 \in 1 .. k + 1
  OBVIOUS
<1> HIDE DEF more
<1> QED BY <1>2, <1>3, <1>4 DEF LeadsTo

\* A bound may be larger.
LEMMA LeadsWithin ==
  ASSUME NEW i, NEW x, NEW y, NEW k \in Nat, NEW l \in Nat, k <= l, LeadsTo(i, x, y, k)
  PROVE  LeadsTo(i, x, y, l)
<1>1. \A n \in 1 .. k : n \in 1 .. l
  OBVIOUS
<1> QED BY <1>1 DEF LeadsTo

\* Rows stay, and so does where they lead.
LEMMA LeadsKept ==
  ASSUME SnapshotTypeOK, [SnapshotNext]_snapshotVars,
         NEW i, NEW x, NEW y, NEW k, LeadsTo(i, x, y, k)
  PROVE  LeadsTo(i, x, y, k)'
<1>1. \A u, v : Edge(i, u, v) => Edge(i, u, v)'
  BY PastKept DEF Edge
<1> QED BY <1>1 DEF LeadsTo

-----------------------------------------------------------------------------
About(i) == {n \in DOMAIN rows : rows[n].change.item = i}

Newest(i, r) == r \in About(i) /\ \A n \in About(i) : n <= r

\* From the newest row about i the rows lead to x.
Reaches(i, x, k) ==
  \A r \in DOMAIN rows : Newest(i, r) => LeadsTo(i, rows[r].change.after, x, k)

\* The changes that wait to be ingested.
Due == UNION {todo[w] : w \in Workers}

\* The hypotheses of NewestRowCurrent, but for changes that wait.
Calm ==
  kind \in {"file", "account"} /\ OneBaseline /\ faults = 0 /\ missed = 0 /\ ~overlapped

\* What is stored is the moment m, and the rows lead to it, or where a change of the item
\* waits, to the state before that.  Every step on the way took the host a moment: a path
\* has no more states than moments came after the first.
Traced(m) ==
  /\ m \in DOMAIN moments /\ moments[m] = snapshot
  /\ \A s \in silent : s.at <= m
  /\ \A w \in Workers : HasLooked(w) => m <= looked[w]
  /\ \A c \in Due : m >= 2 /\ c.after = snapshot[c.item] /\ Reaches(c.item, c.before, m - 2)
  /\ \A i \in Items : (\A c \in Due : c.item # i) => Reaches(i, snapshot[i], m - 1)

\* What NewestRowCurrent rests on.  A worker compares with what is stored.
Continued ==
  Calm =>
    /\ ~stored => rows = <<>> /\ Due = {}
    /\ stored => silent # {} \/ Items = {}
    /\ \A c, d \in Due : c.item = d.item => c = d
    /\ \A w \in Workers : HasRead(w) /\ w \notin blind => stored /\ previous[w] = snapshot
    /\ stored => \E m \in DOMAIN moments : Traced(m)
    /\ hidden = {}

\* It was calm before, and nothing failed.
LEMMA CalmKept ==
  ASSUME SnapshotTypeOK, [SnapshotNext]_snapshotVars, Calm'
  PROVE  Calm /\ ~\E w \in Workers : Fail(w)
<1>1. kind' = kind /\ silent \subseteq silent' /\ missed = 0
  BY PastKept, MissedKept DEF Calm
<1>2. ~overlapped
  BY JournalFrame DEF Calm, SnapshotNext, HostChanges, LogPrivilege, BeginPass, Continue, Look,
         Read, Save, Add, CorrelatePersistence, Finish, Fail, Leave, snapshotVars
<1>3. faults \in Nat
  BY DEF SnapshotTypeOK, HostOK
<1>4. ASSUME NEW w \in Workers PROVE ~Fail(w)
  BY <1>3 DEF Fail, Calm
<1>5. faults = 0
  BY <1>4, JournalFrame DEF Calm, SnapshotNext, HostChanges, LogPrivilege, BeginPass, Continue,
         Look, Read, Save, Add, CorrelatePersistence, Finish, Leave, snapshotVars, failureVars
<1>6. OneBaseline
  BY <1>1 DEF Calm, OneBaseline
<1> QED BY <1>1, <1>2, <1>4, <1>5, <1>6 DEF Calm

\* Only Save and Add change what waits, unless a pass fails.
LEMMA DueRests ==
  ASSUME SnapshotTypeOK, [SnapshotNext]_snapshotVars,
         ~\E w \in Workers : Save(w) \/ Add(w) \/ Fail(w)
  PROVE  UNCHANGED <<todo, rows>>
<1>1. rows' = rows
  BY JournalFrame DEF SnapshotNext, HostChanges, LogPrivilege, BeginPass, Continue, Look, Read,
         CorrelatePersistence, Finish, Leave, snapshotVars, storeVars
<1>2. ASSUME NEW w \in Workers,
             BeginPass(w) \/ CollectJournal(w) \/ Finish(w)
      PROVE  todo' = todo
  <2>1. todo' = [todo EXCEPT ![w] = {}]
    BY <1>2, JournalFrame DEF BeginPass, Finish, Leave, GoTo
  <2>2. todo[w] = {}
    BY <1>2, JournalFrame DEF BeginPass, Finish, Busy, SnapshotTypeOK, PassOK
  <2> QED BY <2>1, <2>2 DEF SnapshotTypeOK, PassOK
<1>3. ASSUME NEW w \in Workers, Look(w) \/ Read(w) \/ CorrelatePersistence(w)
      PROVE  todo' = todo
  BY <1>3 DEF Look, Read, CorrelatePersistence
<1>4. todo' = todo \/ \E w \in Workers : BeginPass(w) \/ Continue(w) \/ Fail(w)
  BY DEF SnapshotNext, HostChanges, LogPrivilege, snapshotVars, frameVars
<1> QED BY <1>1, <1>2, <1>3, <1>4 DEF Continue

\* Other workers than the one that works have nothing waiting.
LEMMA OnlyOne ==
  ASSUME SnapshotTypeOK, OneAtATime, ~overlapped, NEW w \in Workers, Busy(w)
  PROVE  Due = todo[w] /\ \A v \in Workers : v # w => step[v] = "idle" /\ todo[v] = {}
<1>1. \A v \in Workers : v # w => step[v] = "idle" /\ todo[v] = {}
  BY DEF OneAtATime, Busy, SnapshotTypeOK, PassOK
<1> QED BY <1>1 DEF Due

\* Where no row about the item is added, the newest leads where it led.
LEMMA ReachesKept ==
  ASSUME SnapshotTypeOK, [SnapshotNext]_snapshotVars, NEW i, NEW x, NEW k,
         Reaches(i, x, k), \A n \in DOMAIN rows' : rows'[n].change.item = i => n \in DOMAIN rows
  PROVE  Reaches(i, x, k)'
<1> SUFFICES ASSUME NEW r \in DOMAIN rows', Newest(i, r)'
             PROVE  LeadsTo(i, rows[r].change.after, x, k)'
  BY DEF Reaches
<1>1. /\ DOMAIN rows \subseteq DOMAIN rows'
      /\ \A n \in DOMAIN rows : rows'[n] = rows[n]
  BY PastKept
<1>2. r \in DOMAIN rows /\ Newest(i, r)
  BY <1>1 DEF Newest, About
<1>3. PICK y : y = rows[r].change.after
  OBVIOUS
<1>4. LeadsTo(i, y, x, k)'
  BY <1>2, <1>3, LeadsKept DEF Reaches
<1> QED BY <1>1, <1>2, <1>3, <1>4

\* A larger bound holds as well.
LEMMA ReachesWithin ==
  ASSUME NEW i, NEW x, NEW k \in Nat, NEW l \in Nat, k <= l, Reaches(i, x, k)
  PROVE  Reaches(i, x, l)
<1> SUFFICES ASSUME NEW r \in DOMAIN rows, Newest(i, r)
             PROVE  LeadsTo(i, rows[r].change.after, x, l)
  BY DEF Reaches
<1>1. PICK y : y = rows[r].change.after
  OBVIOUS
<1>2. LeadsTo(i, y, x, k)
  BY <1>1 DEF Reaches
<1> QED BY <1>1, <1>2, LeadsWithin

\* What a comparison with the stored snapshot finds in a file or an account: one change of
\* each item that differs.
LEMMA ComparedWhole ==
  ASSUME SnapshotTypeOK, kind \in {"file", "account"}, NEW w \in Workers
  PROVE  /\ w \in blind => Changes(w) = {}
         /\ \A c \in Changes(w) : /\ c \in Change /\ c.before # c.after
                                  /\ c.before = previous[w][c.item]
                                  /\ c.after = current[w][c.item]
         /\ \A c, d \in Changes(w) : c.item = d.item => c = d
         /\ w \notin blind =>
              \A i \in Items : previous[w][i] # current[w][i] =>
                \E c \in Changes(w) : c.item = i
<1>1. \A i, x, y : Reportable(i, x, y) <=> x # y
  BY DEF Reportable, Changed
<1>2. \A c \in Changes(w) : /\ c \in Change /\ w \notin blind
                            /\ c.before = previous[w][c.item]
                            /\ c.after = current[w][c.item]
  BY ChangeTypes DEF SnapshotTypeOK
<1>3. \A c \in Changes(w) : c.before # c.after
  BY <1>1 DEF Changes
<1>4. \A c, d \in Changes(w) : c.item = d.item => c = d
  BY DEF Changes
<1>5. ASSUME w \notin blind, NEW i \in Items, previous[w][i] # current[w][i]
      PROVE  \E c \in Changes(w) : c.item = i
  <2>1. [item |-> i, before |-> previous[w][i], after |-> current[w][i]] \in Changes(w)
    BY <1>1, <1>5 DEF Changes
  <2> QED BY <2>1
<1> QED BY <1>2, <1>3, <1>4, <1>5

\* A step that neither stores nor ingests keeps where the rows lead.
LEMMA RestTraced ==
  ASSUME SnapshotTypeOK, Founded, Calm, Calm', [SnapshotNext]_snapshotVars,
         ~\E w \in Workers : Save(w) \/ Add(w) \/ Fail(w),
         NEW m \in DOMAIN moments, Traced(m)
  PROVE  Traced(m)'
<1>1. UNCHANGED <<todo, rows, snapshot, stored, silent>>
  BY DueRests, StoreRests
<1>2. m \in DOMAIN moments' /\ moments'[m] = snapshot'
  BY <1>1, PastKept DEF Traced
<1>3. ASSUME NEW v \in Workers, HasLooked(v)' PROVE m <= looked'[v]
  <2>1. BlindRead
    BY DEF Founded, Calm
  <2>2. \/ HasLooked(v) /\ looked'[v] = looked[v]
        \/ looked'[v] = Len(moments)
    BY <1>3, <2>1, LookedKept
  <2>3. m <= Len(moments)
    BY DEF SnapshotTypeOK, HostOK
  <2> QED BY <2>2, <2>3 DEF Traced
<1>4. ASSUME NEW i, NEW x, NEW k, Reaches(i, x, k) PROVE Reaches(i, x, k)'
  BY <1>1, <1>4 DEF Reaches, Newest, About, LeadsTo, Edge
<1>5. Due' = Due
  BY <1>1 DEF Due
<1>6. ASSUME NEW c \in Due
      PROVE  m >= 2 /\ c.after = snapshot'[c.item] /\ Reaches(c.item, c.before, m - 2)'
  BY <1>1, <1>4 DEF Traced
<1>7. ASSUME NEW i \in Items, \A c \in Due : c.item # i PROVE Reaches(i, snapshot[i], m - 1)'
  <2>1. PICK x : x = snapshot[i]
    OBVIOUS
  <2>2. Reaches(i, x, m - 1)'
    BY <1>4, <1>7, <2>1 DEF Traced
  <2> QED BY <1>1, <2>1, <2>2
<1> QED BY <1>1, <1>2, <1>3, <1>5, <1>6, <1>7 DEF Traced

\* Save keeps Continued: what is stored anew is a later moment in all that is told, or,
\* with the one baseline there is, the same.
LEMMA SaveContinued ==
  ASSUME SnapshotTypeOK, OneAtATime, Founded, Continued, Calm, Calm',
         [SnapshotNext]_snapshotVars, NEW w \in Workers, Save(w)
  PROVE  Continued'
<1>0. PICK l \in DOMAIN moments : l = looked[w]
  BY DEF SnapshotTypeOK, PassOK
<1>1. /\ snapshot' = current[w] /\ stored' = TRUE /\ step[w] = "save" /\ step'[w] = "add"
      /\ UNCHANGED <<kind, moments, rows>>
      /\ todo' = [todo EXCEPT ![w] = Changes(w)]
      /\ silent' = IF w \in blind
                     THEN silent \cup {[item |-> i, state |-> current[w][i], at |-> l] :
                                         i \in Items}
                     ELSE silent
  BY <1>0 DEF Save, hostVars, SnapshotTypeOK, PassOK
<1>2. /\ Due = {} /\ Due' = Changes(w)
      /\ \A v \in Workers : v # w => step'[v] = "idle"
  <2>1. Due = todo[w] /\ \A v \in Workers : v # w => step[v] = "idle" /\ todo[v] = {}
    BY <1>1, OnlyOne DEF Busy, Calm
  <2>2. todo[w] = {} /\ w \in DOMAIN todo /\ todo'[w] = Changes(w)
    BY <1>1 DEF SnapshotTypeOK, PassOK
  <2>3. \A v \in Workers : v # w => todo'[v] = {}
    BY <1>1, <2>1 DEF SnapshotTypeOK, PassOK
  <2>4. \A v \in Workers : v # w => step'[v] = "idle"
    BY <2>1 DEF Save, SnapshotTypeOK, PassOK
  <2>5. Due' = Changes(w)
    BY <2>2, <2>3 DEF Due
  <2> QED BY <2>1, <2>2, <2>4, <2>5
<1>3. \A v \in Workers : ~HasLooked(v)' /\ ~HasRead(v)'
  BY <1>1, <1>2 DEF HasLooked, HasRead
<1>4. /\ l \in DOMAIN moments /\ moments[l] = current[w] /\ DOMAIN moments \subseteq Nat \ {0}
      /\ \A s \in silent : stored /\ s.at \in Nat
  <2>1. Seen(l, current[w]) /\ hidden = {}
    BY <1>0, <1>1 DEF Founded, Continued, Calm, HasLooked
  <2>2. \A i \in Items : moments[l][i] = current[w][i]
    BY <2>1 DEF Seen, Shown
  <2>3. moments[l] \in [Items -> States] /\ current[w] \in [Items -> States]
    BY SeqElement DEF SnapshotTypeOK, HostOK, PassOK
  <2>4. moments[l] = current[w]
    BY <2>2, <2>3
  <2> QED BY <1>0, <2>4 DEF Founded, Calm, SnapshotTypeOK, HostOK, StoreOK
<1>5. /\ ~stored => rows = <<>>
      /\ stored => silent # {} \/ Items = {}
      /\ w \notin blind => stored /\ previous[w] = snapshot
      /\ stored => \E m \in DOMAIN moments : Traced(m)
  BY <1>1 DEF Continued, HasRead
<1>6. /\ w \in blind => Changes(w) = {}
      /\ \A c \in Changes(w) : /\ c \in Change /\ c.before # c.after
                               /\ c.before = previous[w][c.item]
                               /\ c.after = current[w][c.item]
      /\ \A c, d \in Changes(w) : c.item = d.item => c = d
      /\ w \notin blind =>
           \A i \in Items : previous[w][i] # current[w][i] => \E c \in Changes(w) : c.item = i
  BY ComparedWhole DEF Calm
<1>7. silent' # {} \/ Items = {}
  BY <1>1, <1>5
<1>8. \A i, x, k : Reaches(i, x, k) => Reaches(i, x, k)'
  BY <1>1 DEF Reaches, Newest, About, LeadsTo, Edge
<1>9. \A s \in silent' : s.at <= l
  <2>1. ASSUME NEW s \in silent PROVE s.at <= l
    <3>1. PICK m \in DOMAIN moments : Traced(m)
      BY <1>4, <1>5, <2>1
    <3>2. s.at <= m /\ m <= l
      BY <1>0, <1>1, <2>1, <3>1 DEF Traced, HasLooked
    <3> QED BY <1>4, <2>1, <3>2
  <2>2. \A s \in silent' : s \in silent \/ s.at = l
    BY <1>1
  <2> QED BY <1>4, <2>1, <2>2
<1>10. ASSUME /\ \A c \in Changes(w) : l >= 2 /\ Reaches(c.item, c.before, l - 2)
              /\ \A i \in Items : (\A c \in Changes(w) : c.item # i) =>
                   Reaches(i, current[w][i], l - 1)
       PROVE  Traced(l)'
  <2>1. l \in DOMAIN moments' /\ moments'[l] = snapshot'
    BY <1>1, <1>4
  <2>2. \A c \in Due' : l >= 2 /\ c.after = snapshot'[c.item] /\ Reaches(c.item, c.before, l - 2)'
    BY <1>1, <1>2, <1>6, <1>8, <1>10
  <2>3. ASSUME NEW i \in Items, \A c \in Due' : c.item # i
        PROVE  Reaches(i, snapshot[i], l - 1)'
    <3>1. PICK x : x = current[w][i]
      OBVIOUS
    <3>2. Reaches(i, x, l - 1)'
      BY <1>2, <1>8, <1>10, <2>3, <3>1
    <3> QED BY <1>1, <3>1, <3>2
  <2> QED BY <1>3, <1>9, <2>1, <2>2, <2>3 DEF Traced
<1>11. ASSUME ~stored PROVE Traced(l)'
  <2>1. Changes(w) = {} /\ rows = <<>>
    BY <1>5, <1>6, <1>11
  <2>2. \A i, x, k : Reaches(i, x, k)
    BY <2>1 DEF Reaches
  <2> QED BY <1>10, <2>1, <2>2
<1>12. ASSUME stored, w \in blind PROVE Traced(l)'
  <2>1. PICK m \in DOMAIN moments : Traced(m)
    BY <1>5, <1>12
  <2>2. m <= l
    BY <1>0, <1>1, <2>1 DEF Traced, HasLooked
  <2>3. Changes(w) = {}
    BY <1>6, <1>12
  <2>4. CASE Items = {}
    BY <1>10, <2>3, <2>4
  <2>5. CASE Items # {}
    <3>1. PICK s \in silent, i \in Items : TRUE
      BY <1>5, <1>12, <2>5
    <3>2. [item |-> i, state |-> current[w][i], at |-> l] \in silent' /\ s \in silent'
      BY <1>1, <1>12
    <3>3. s.at = l
      BY <3>2 DEF Calm, OneBaseline
    <3>4. m = l
      BY <1>4, <2>1, <2>2, <3>3 DEF Traced
    <3>5. current[w] = snapshot
      BY <1>4, <2>1, <3>4 DEF Traced
    <3>6. \A j \in Items : Reaches(j, current[w][j], l - 1)
      BY <1>2, <2>1, <3>4, <3>5 DEF Traced
    <3> QED BY <1>10, <2>3, <3>6
  <2> QED BY <2>4, <2>5
<1>13. ASSUME stored, w \notin blind PROVE Traced(l)'
  <2>1. PICK m \in DOMAIN moments : Traced(m)
    BY <1>5, <1>13
  <2>2. m <= l /\ moments[m] = snapshot /\ previous[w] = snapshot
    BY <1>0, <1>1, <1>5, <1>13, <2>1 DEF Traced, HasLooked
  <2>3. \A i \in Items : Reaches(i, snapshot[i], m - 1)
    BY <1>2, <2>1 DEF Traced
  <2>4. m \in Nat \ {0} /\ l \in Nat \ {0}
    BY <1>4
  <2>5. ASSUME NEW c \in Changes(w) PROVE l >= 2 /\ Reaches(c.item, c.before, l - 2)
    <3>1. /\ c.item \in Items /\ c.before = snapshot[c.item]
          /\ moments[l][c.item] # moments[m][c.item]
      BY <1>4, <1>6, <2>2, <2>5 DEF Change
    <3>2. m < l
      BY <2>2, <2>4, <3>1
    <3>3. Reaches(c.item, c.before, m - 1)
      BY <2>3, <3>1
    <3>4. m - 1 \in Nat /\ l - 2 \in Nat /\ m - 1 <= l - 2 /\ l >= 2
      BY <2>4, <3>2
    <3> QED BY <3>3, <3>4, ReachesWithin
  <2>6. ASSUME NEW i \in Items, \A c \in Changes(w) : c.item # i
        PROVE  Reaches(i, current[w][i], l - 1)
    <3>1. current[w][i] = snapshot[i]
      BY <1>6, <1>13, <2>2, <2>6
    <3>2. Reaches(i, current[w][i], m - 1)
      BY <2>3, <3>1
    <3>3. m - 1 \in Nat /\ l - 1 \in Nat /\ m - 1 <= l - 1
      BY <2>2, <2>4
    <3> QED BY <3>2, <3>3, ReachesWithin
  <2> QED BY <1>10, <2>5, <2>6
<1>14. Traced(l)' /\ l \in DOMAIN moments'
  BY <1>0, <1>1, <1>11, <1>12, <1>13
<1>15. \A c, d \in Due' : c.item = d.item => c = d
  BY <1>2, <1>6
<1>16. hidden' = {}
  BY DEF Continued, Save, failureVars
<1> QED BY <1>1, <1>3, <1>7, <1>14, <1>15, <1>16 DEF Continued

\* Add keeps Continued: a repeated change leads the newest row on, and a new row starts anew.
LEMMA AddContinued ==
  ASSUME SnapshotTypeOK, OneAtATime, Continued, Calm,
         [SnapshotNext]_snapshotVars, NEW w \in Workers, Add(w)
  PROVE  Continued'
<1>1. PICK c \in todo[w] :
        /\ todo' = [todo EXCEPT ![w] = @ \ {c}]
        /\ rows' = IF HasRow(c) THEN rows ELSE Append(rows, [change |-> c, known |-> known[w]])
  BY DEF Add
<1>2. /\ step[w] = "add" /\ step'[w] \in {"add", "correlate"}
      /\ \A v \in Workers : v # w => step'[v] = step[v]
      /\ UNCHANGED <<kind, moments, snapshot, stored, silent, previous, blind, looked>>
  BY DEF Add, hostVars, SnapshotTypeOK, PassOK
<1>3. Due = todo[w] /\ Due' = todo[w] \ {c} /\ c \in Due
  <2>1. Due = todo[w] /\ \A v \in Workers : v # w => todo[v] = {}
    BY <1>2, OnlyOne DEF Busy, Calm
  <2>2. todo'[w] = todo[w] \ {c} /\ \A v \in Workers : v # w => todo'[v] = {}
    BY <1>1, <2>1 DEF SnapshotTypeOK, PassOK
  <2> QED BY <1>1, <2>1, <2>2 DEF Due
<1>4. /\ stored /\ (silent # {} \/ Items = {})
      /\ \A d, e \in Due : d.item = e.item => d = e
      /\ \A v \in Workers : HasRead(v) /\ v \notin blind => previous[v] = snapshot
      /\ \E m \in DOMAIN moments : Traced(m)
  BY <1>3 DEF Continued
<1>5. PICK m \in DOMAIN moments : Traced(m)
  BY <1>4
<1>6. c \in Change /\ m \in Nat /\ m >= 2
  BY <1>3, <1>5 DEF Traced, SnapshotTypeOK, HostOK, PassOK
<1>7. c.item \in Items /\ c.after \in States /\ c.after = snapshot[c.item]
  BY <1>3, <1>5, <1>6 DEF Traced, Change
<1>8. \A v \in Workers : (HasRead(v)' => HasRead(v)) /\ (HasLooked(v)' => HasLooked(v))
  BY <1>2 DEF HasRead, HasLooked, LookFirst
<1>9. \A n \in DOMAIN rows' : n \in DOMAIN rows \/ rows'[n].change.item = c.item
  BY <1>1 DEF SnapshotTypeOK, StoreOK
<1>10. \A i, x, k : i # c.item /\ Reaches(i, x, k) => Reaches(i, x, k)'
  BY <1>9, ReachesKept
<1>11. Reaches(c.item, c.after, m - 1)'
  <2>1. CASE HasRow(c)
    <3>1. rows' = rows /\ Reaches(c.item, c.before, m - 2) /\ m - 2 \in Nat
      BY <1>1, <1>3, <1>5, <1>6, <2>1 DEF Traced
    <3>2. Edge(c.item, c.before, c.after)
      <4>1. c = [item |-> c.item, before |-> c.before, after |-> c.after]
        BY <1>6 DEF Change
      <4>2. \A d : fingerprint(d) = d
        BY DEF fingerprint, Calm
      <4> QED BY <2>1, <4>1, <4>2 DEF HasRow, Edge
    <3>3. ASSUME NEW r \in DOMAIN rows, Newest(c.item, r)
          PROVE  LeadsTo(c.item, rows[r].change.after, c.after, m - 1)
      <4>1. PICK x : x = rows[r].change.after
        OBVIOUS
      <4>2. LeadsTo(c.item, x, c.before, m - 2)
        BY <3>1, <3>3, <4>1 DEF Reaches
      <4>3. LeadsTo(c.item, x, c.after, (m - 2) + 1)
        BY <1>7, <3>1, <3>2, <4>2, LeadsOn
      <4>4. (m - 2) + 1 = m - 1
        BY <1>6
      <4> QED BY <4>1, <4>3, <4>4
    <3>4. Reaches(c.item, c.after, m - 1)
      BY <3>3 DEF Reaches
    <3> QED BY <3>1, <3>4 DEF Reaches, Newest, About, LeadsTo, Edge
  <2>2. CASE ~HasRow(c)
    <3>1. /\ DOMAIN rows' = 1 .. Len(rows) + 1 /\ Len(rows) \in Nat
          /\ rows'[Len(rows) + 1].change = c
      BY <1>1, <2>2 DEF SnapshotTypeOK, StoreOK
    <3>2. ASSUME NEW r \in DOMAIN rows', Newest(c.item, r)' PROVE rows'[r].change.after = c.after
      BY <3>1, <3>2 DEF Newest, About
    <3>3. LeadsTo(c.item, c.after, c.after, m - 1)'
      <4>1. m - 1 \in Nat \ {0}
        BY <1>6
      <4> QED BY <1>7, <4>1, LeadsHere DEF LeadsTo
    <3> QED BY <3>2, <3>3 DEF Reaches
  <2> QED BY <2>1, <2>2
<1>12. Traced(m)'
  <2>1. /\ m \in DOMAIN moments' /\ moments'[m] = snapshot'
        /\ \A s \in silent' : s.at <= m
        /\ \A v \in Workers : HasLooked(v)' => m <= looked'[v]
    BY <1>2, <1>5, <1>8 DEF Traced
  <2>2. ASSUME NEW d \in Due'
        PROVE  m >= 2 /\ d.after = snapshot'[d.item] /\ Reaches(d.item, d.before, m - 2)'
    <3>1. d \in Due /\ d.item # c.item
      BY <1>3, <1>4, <2>2
    <3> QED BY <1>2, <1>5, <1>10, <3>1 DEF Traced
  <2>3. ASSUME NEW i \in Items, \A d \in Due' : d.item # i
        PROVE  Reaches(i, snapshot[i], m - 1)'
    <3>1. PICK x : x = snapshot[i]
      OBVIOUS
    <3>2. CASE i = c.item
      BY <1>2, <1>7, <1>11, <3>2
    <3>3. CASE i # c.item
      <4>1. \A d \in Due : d.item # i
        BY <1>3, <2>3, <3>3
      <4>2. Reaches(i, x, m - 1)'
        BY <1>5, <1>10, <3>1, <3>3, <4>1 DEF Traced
      <4> QED BY <1>2, <3>1, <4>2
    <3> QED BY <3>2, <3>3
  <2> QED BY <2>1, <2>2, <2>3 DEF Traced
<1>13. \A d, e \in Due' : d.item = e.item => d = e
  BY <1>3, <1>4
<1>14. \A v \in Workers : HasRead(v)' /\ v \notin blind' => previous'[v] = snapshot'
  BY <1>2, <1>4, <1>8
<1>15. stored' /\ (silent' # {} \/ Items = {}) /\ m \in DOMAIN moments'
  BY <1>2, <1>4
<1>16. hidden' = {}
  BY DEF Continued, Add, failureVars
<1> QED BY <1>12, <1>13, <1>14, <1>15, <1>16 DEF Continued

\* Continued is kept by every step.
LEMMA ContinuedKept ==
  /\ SnapshotTypeOK /\ Correlated /\ Warranted /\ OneAtATime /\ Founded /\ Continued
  /\ [SnapshotNext]_snapshotVars
  => Continued'
<1> SUFFICES ASSUME SnapshotTypeOK, Correlated, Warranted, OneAtATime, Founded, Continued,
                    [SnapshotNext]_snapshotVars, Calm'
             PROVE  Continued'
  BY DEF Continued
<1>1. Calm /\ ~\E w \in Workers : Fail(w)
  BY CalmKept
<1>2. CASE \E w \in Workers : Save(w)
  BY <1>1, <1>2, SaveContinued
<1>3. CASE \E w \in Workers : Add(w)
  BY <1>1, <1>3, AddContinued
<1>4. CASE ~\E w \in Workers : Save(w) \/ Add(w)
  <2>1. UNCHANGED <<todo, rows, snapshot, stored, silent>>
    BY <1>1, <1>4, DueRests, StoreRests
  <2>2. Due' = Due
    BY <2>1 DEF Due
  <2>3. \A m \in DOMAIN moments : m \in DOMAIN moments' /\ (Traced(m) => Traced(m)')
    BY <1>1, <1>4, RestTraced, PastKept
  <2>4. \A w \in Workers : HasRead(w)' /\ w \notin blind' => stored /\ previous'[w] = snapshot
    BY <1>1, FrameKept DEF Continued
  <2>5. hidden' = hidden
    <3>1. ASSUME NEW w \in Workers, Look(w) PROVE hidden' = hidden
      BY <1>1, <3>1, LookTaken DEF Calm, SnapshotTypeOK
    <3>2. CASE ~\E w \in Workers : Look(w)
      BY <1>1, <1>4, <3>2, JournalFrame DEF SnapshotNext, HostChanges, LogPrivilege, BeginPass,
             Continue, Read, CorrelatePersistence, Finish, Leave, snapshotVars, failureVars
    <3> QED BY <3>1, <3>2
  <2> QED BY <1>1, <2>1, <2>2, <2>3, <2>4, <2>5 DEF Continued
<1> QED BY <1>2, <1>3, <1>4

\* A path has no more states than the host had moments after its first, of which the bound
\* allows MaxEvents: so the newest row about a file or an account leads to what is stored.
LEMMA NewestLeads == SnapshotTypeOK /\ Continued => NewestRowCurrent
<1> SUFFICES ASSUME SnapshotTypeOK, Continued, Calm, Settled,
                    NEW i \in Items, NEW r \in DOMAIN rows, Newest(i, r)
             PROVE  \E path \in UNION {[1 .. n -> States] : n \in 1 .. MaxEvents} :
                      /\ path[1] = rows[r].change.after
                      /\ path[Len(path)] = snapshot[i]
                      /\ \A n \in 1 .. Len(path) - 1 :
                           \E e \in About(i) : /\ rows[e].change.before = path[n]
                                               /\ rows[e].change.after = path[n + 1]
  BY DEF NewestRowCurrent, Calm, Newest, About
<1>1. Due = {}
  BY DEF Settled, Pending, Due
<1>2. stored
  BY DEF Continued
<1>3. PICK m \in DOMAIN moments : Traced(m)
  BY <1>2 DEF Continued
<1>4. m - 1 <= MaxEvents /\ m \in Nat
  BY SnapshotsAssumption DEF SnapshotTypeOK, HostOK
<1>5. LeadsTo(i, rows[r].change.after, snapshot[i], m - 1)
  BY <1>1, <1>3 DEF Traced, Reaches
<1>6. PICK n \in 1 .. m - 1 : \E path \in [1 .. n -> States] :
        /\ path[1] = rows[r].change.after /\ path[n] = snapshot[i]
        /\ \A j \in 1 .. n - 1 : Edge(i, path[j], path[j + 1])
  BY <1>5 DEF LeadsTo
<1>7. PICK path \in [1 .. n -> States] :
        /\ path[1] = rows[r].change.after /\ path[n] = snapshot[i]
        /\ \A j \in 1 .. n - 1 : Edge(i, path[j], path[j + 1])
  BY <1>6
<1>8. Len(path) = n /\ n \in 1 .. MaxEvents
  BY <1>4, SnapshotsAssumption
<1>9. ASSUME NEW j \in 1 .. n - 1
      PROVE  \E e \in About(i) : /\ rows[e].change.before = path[j]
                                 /\ rows[e].change.after = path[j + 1]
  <2>1. Edge(i, path[j], path[j + 1])
    BY <1>7
  <2>2. PICK e \in DOMAIN rows :
          rows[e].change = [item |-> i, before |-> path[j], after |-> path[j + 1]]
    BY <2>1 DEF Edge
  <2> QED BY <2>2 DEF About
<1> QED BY <1>7, <1>8, <1>9

\* While one worker works and nothing fails, the newest row about a file or an account
\* ends in the stored state, or every later change repeated one that has a row.
THEOREM NewestRowIsCurrent == SnapshotSpec => []NewestRowCurrent
<1>1. SnapshotInit => OneAtATime /\ Founded /\ Continued
  <2> SUFFICES ASSUME SnapshotInit PROVE OneAtATime /\ Founded /\ Continued
    OBVIOUS
  <2>1. /\ \A w \in Workers : step[w] = "idle" /\ todo[w] = {}
        /\ silent = {} /\ stored = FALSE /\ blind = {} /\ rows = <<>>
    BY DEF SnapshotInit
  <2>2. Due = {}
    BY <2>1 DEF Due
  <2> QED BY <2>1, <2>2 DEF OneAtATime, Busy, Founded, Anchored, HasLooked, HasRead, BlindRead,
                            BaselineOnce, Continued, SnapshotInit
<1> QED BY <1>1, InitWarranted, CorrelatedKept, WarrantedKept, OneAtATimeKept, FoundedKept,
           ContinuedKept, NewestLeads, SnapshotTypes, PTL DEF SnapshotSpec

=============================================================================
