-------------------------- MODULE AuditTailProofs --------------------------
(***************************************************************************)
(* Proofs about AuditTail: types, that the stored offset never gets ahead  *)
(* of the lines that were read, and that no line is reported twice.        *)
(***************************************************************************)
EXTENDS AuditTail, TLAPS

-----------------------------------------------------------------------------
\* The parts of AuditTypeOK that an action disturbs as one.
LogOK ==
  /\ written \in Seq(AuditLines)
  /\ start \in 0 .. Len(written)
  /\ inode \in Inodes

StoreOK ==
  /\ audit_state \in Position \cup {NoState}
  /\ records \subseteq [id : {l.id : l \in AuditLines}, lines : SUBSET Lines]
  /\ passed \subseteq Lines /\ dropped \subseteq Lines

TailOK ==
  /\ at \in [Workers -> {"idle", "stat", "open", "save", "ingest"}]
  /\ state \in [Workers -> Position \cup {NoState}]
  /\ stat \in [Workers -> Position \cup {NoState}]
  /\ new_state \in [Workers -> Position \cup {NoState}]
  /\ batch \in [Workers -> SUBSET Lines]
  /\ \A w \in Workers :
       /\ at[w] = "open" => state[w] # NoState /\ stat[w] # NoState
       /\ at[w] = "save" => new_state[w] # NoState

CountsOK ==
  /\ Len(written) + moves + drops <= MaxLog
  /\ moves \in 0 .. MaxLog /\ drops \in 0 .. MaxLog

FlagsOK == reset \in BOOLEAN /\ torn \in BOOLEAN /\ crowded \in BOOLEAN

\* They are AuditTypeOK.
LEMMA TypeParts == AuditTypeOK <=> LogOK /\ StoreOK /\ TailOK /\ CountsOK /\ FlagsOK
  BY Zenon DEF AuditTypeOK, LogOK, StoreOK, TailOK, CountsOK, FlagsOK

\* What every step keeps or makes of the flags.
LEMMA FlagTypes == FlagsOK /\ [AuditNext]_auditVars => FlagsOK'
<1> SUFFICES ASSUME FlagsOK, [AuditNext]_auditVars PROVE FlagsOK'
  OBVIOUS
<1>1. reset' \in BOOLEAN
  BY DEF FlagsOK, AuditNext, AuditWrite, Rotate, Truncate, BeginTail, Tail1, Stat, Open,
         Unreadable, SaveState, IngestGroup, FinishTail, AbortTail, auditVars, logVars
<1>2. torn' \in BOOLEAN
  BY DEF FlagsOK, AuditNext, AuditWrite, Rotate, Truncate, BeginTail, Tail1, Stat, Open,
         Unreadable, SaveState, IngestGroup, FinishTail, AbortTail, auditVars, logVars
<1>3. crowded' \in BOOLEAN
  BY DEF FlagsOK, AuditNext, AuditWrite, Rotate, Truncate, BeginTail, Tail1, Stat, Open,
         Unreadable, SaveState, IngestGroup, FinishTail, AbortTail, auditVars, logVars
<1> QED BY <1>1, <1>2, <1>3 DEF FlagsOK

\* A worker's part of what LeaveTail does.
LEMMA LeaveTypes ==
  ASSUME TailOK, NEW w \in Workers, LeaveTail(w), UNCHANGED written
  PROVE  TailOK'
  BY DEF TailOK, LeaveTail, Position, Lines

\* The size of the log, and a position in it.
LEMMA HereTypes ==
  ASSUME LogOK
  PROVE  Size \in Nat /\ [inode |-> inode, offset |-> Size] \in Position
  BY DEF LogOK, Size, Position

\* Where a worker seeks to.
LEMMA SeekTypes ==
  ASSUME TailOK, NEW w \in Workers, at[w] = "open"
  PROVE  /\ state[w] \in Position /\ stat[w] \in Position
         /\ SeekTo(w) \in Nat
         /\ state[w].inode = stat[w].inode => SeekTo(w) <= state[w].offset
         /\ state[w].inode # stat[w].inode => SeekTo(w) = 0
<1>1. state[w] \in Position /\ stat[w] \in Position
  BY DEF TailOK
<1> QED BY <1>1 DEF SeekTo, Min2, Position

\* Type correctness is kept by every step.
LEMMA NextTypes == AuditTypeOK /\ [AuditNext]_auditVars => AuditTypeOK'
<1> SUFFICES ASSUME LogOK, StoreOK, TailOK, CountsOK, FlagsOK, [AuditNext]_auditVars
             PROVE  LogOK' /\ StoreOK' /\ TailOK' /\ CountsOK'
  BY FlagTypes, Zenon DEF AuditTypeOK, LogOK, StoreOK, TailOK, CountsOK, FlagsOK
<1> DEFINE Goal == LogOK' /\ StoreOK' /\ TailOK' /\ CountsOK'
<1>1. Len(written) \in Nat /\ moves \in Nat /\ drops \in Nat /\ MaxLog \in Nat
  BY AuditTailAssumption DEF LogOK, CountsOK
<1>2. ASSUME NEW l \in AuditLines, AuditWrite(l) PROVE Goal
  <2>1. /\ written' = Append(written, l) /\ written' \in Seq(AuditLines)
        /\ Len(written') = Len(written) + 1
    BY <1>2 DEF AuditWrite, LogOK
  <2>2. Lines \subseteq Lines'
    BY <2>1, <1>1 DEF Lines
  <2>3. LogOK' /\ CountsOK'
    BY <1>1, <1>2, <2>1 DEF AuditWrite, LogOK, CountsOK, MoreLog
  <2>4. StoreOK'
    BY <1>2, <2>2 DEF AuditWrite, StoreOK, Position
  <2>5. TailOK'
    BY <1>2, <2>2 DEF AuditWrite, TailOK, Position, pollVars
  <2> QED BY <2>3, <2>4, <2>5
<1>3. ASSUME NEW i \in Inodes, Rotate(i) PROVE Goal
  <2>1. LogOK' /\ CountsOK'
    BY <1>1, <1>3 DEF Rotate, LogOK, CountsOK, MoreLog
  <2>2. StoreOK' /\ TailOK'
    BY <1>3 DEF Rotate, StoreOK, TailOK, Position, Lines, pollVars
  <2> QED BY <2>1, <2>2
<1>4. CASE Truncate
  <2>1. LogOK' /\ CountsOK'
    BY <1>1, <1>4 DEF Truncate, LogOK, CountsOK, MoreLog
  <2>2. StoreOK' /\ TailOK'
    BY <1>4 DEF Truncate, StoreOK, TailOK, Position, Lines, pollVars
  <2> QED BY <2>1, <2>2
<1>5. ASSUME UNCHANGED <<logVars, drops>> PROVE LogOK' /\ CountsOK' /\ Lines' = Lines
  BY <1>5 DEF LogOK, CountsOK, logVars, Lines
<1>6. ASSUME NEW w \in Workers, BeginTail(w) PROVE Goal
  <2>1. StoreOK'
    BY <1>6 DEF BeginTail, StoreOK, Position, Lines, logVars
  <2>2. TailOK'
    BY <1>6 DEF BeginTail, TailOK, StoreOK, Position, Lines, logVars
  <2> QED BY <1>5, <1>6, <2>1, <2>2 DEF BeginTail
<1>7. ASSUME NEW w \in Workers, Stat(w) PROVE Goal
  <2>1. StoreOK'
    BY <1>7 DEF Stat, StoreOK, Position, Lines, logVars
  <2>2. TailOK'
    <3> DEFINE here == [inode |-> inode, offset |-> Size]
    <3>1. here \in Position /\ here # NoState
      BY HereTypes, AuditTailAssumption DEF Position
    <3>2. Lines' = Lines /\ batch' = batch /\ state' = state
      BY <1>7 DEF Stat, Lines, logVars
    <3>3. CASE state[w] = NoState
      <4>1. /\ at' = [at EXCEPT ![w] = "save"] /\ new_state' = [new_state EXCEPT ![w] = here]
            /\ stat' = stat
        BY <1>7, <3>3 DEF Stat
      <4> HIDE DEF here
      <4> QED BY <3>1, <3>2, <4>1 DEF TailOK
    <3>4. CASE state[w] # NoState
      <4>1. /\ at' = [at EXCEPT ![w] = "open"] /\ stat' = [stat EXCEPT ![w] = here]
            /\ new_state' = new_state
        BY <1>7, <3>4 DEF Stat
      <4> HIDE DEF here
      <4> QED BY <3>1, <3>2, <3>4, <4>1 DEF TailOK
    <3> QED BY <3>3, <3>4
  <2> QED BY <1>5, <1>7, <2>1, <2>2 DEF Stat
<1>8. ASSUME NEW w \in Workers, Open(w) PROVE Goal
  <2>1. StoreOK'
    BY <1>8 DEF Open, StoreOK, Position, Lines, logVars
  <2>2. TailOK'
    <3> DEFINE p == [inode |-> stat[w].inode,
                     offset |-> IF SeekTo(w) > Size THEN SeekTo(w) ELSE Size]
    <3>1. p \in Position /\ p # NoState
      BY <1>8, SeekTypes, HereTypes, AuditTailAssumption DEF Open, Position
    <3>2. /\ new_state' = [new_state EXCEPT ![w] = p]
          /\ state' = [state EXCEPT ![w] = NoState] /\ stat' = [stat EXCEPT ![w] = NoState]
          /\ at' = [at EXCEPT ![w] = "save"]
          /\ Lines' = Lines
      BY <1>8 DEF Open, logVars, Lines
    <3>3. batch' \in [Workers -> SUBSET Lines]
      BY <1>8 DEF Open, TailOK
    <3> HIDE DEF p
    <3> QED BY <3>1, <3>2, <3>3 DEF TailOK
  <2> QED BY <1>5, <1>8, <2>1, <2>2 DEF Open
<1>9. ASSUME NEW w \in Workers, Unreadable(w) \/ FinishTail(w) PROVE Goal
  <2>1. StoreOK'
    BY <1>9 DEF Unreadable, FinishTail, StoreOK, Position, Lines, logVars
  <2>2. LeaveTail(w) /\ UNCHANGED <<logVars, drops>>
    BY <1>9 DEF Unreadable, FinishTail
  <2> QED BY <1>5, <2>1, <2>2, LeaveTypes DEF logVars
<1>10. ASSUME NEW w \in Workers, SaveState(w) PROVE Goal
  <2>1. StoreOK'
    BY <1>10 DEF SaveState, StoreOK, TailOK, Position, Lines, logVars
  <2>2. TailOK'
    BY <1>10 DEF SaveState, TailOK, Position, Lines, logVars
  <2> QED BY <1>5, <1>10, <2>1, <2>2 DEF SaveState
<1>11. ASSUME NEW w \in Workers, IngestGroup(w) PROVE Goal
  <2>1. PICK n \in batch[w] :
          LET group == Group(w, written[n].id)
          IN  /\ records' = IF \E m \in group : Telling(m)
                              THEN records \cup {[id |-> written[n].id, lines |-> group]}
                              ELSE records
              /\ batch' = [batch EXCEPT ![w] = @ \ group]
    BY <1>11 DEF IngestGroup
  <2>2. n \in Lines /\ written[n] \in AuditLines /\ Group(w, written[n].id) \subseteq Lines
    BY DEF TailOK, LogOK, Lines, Group
  <2>3. Lines' = Lines
    BY <1>11 DEF IngestGroup, logVars, Lines
  <2>4. records' \subseteq [id : {l.id : l \in AuditLines}, lines : SUBSET Lines]
    BY <2>1, <2>2 DEF StoreOK
  <2>5. StoreOK'
    BY <1>11, <2>3, <2>4 DEF IngestGroup, StoreOK, Position
  <2>6. TailOK'
    BY <1>11, <2>1, <2>3 DEF IngestGroup, TailOK, Position
  <2> QED BY <1>5, <1>11, <2>5, <2>6 DEF IngestGroup
<1>12. ASSUME NEW w \in Workers, AbortTail(w) PROVE Goal
  <2>1. LogOK' /\ CountsOK'
    BY <1>1, <1>12 DEF AbortTail, LogOK, CountsOK, MoreLog, logVars
  <2>2. dropped' \subseteq Lines
    BY <1>12 DEF AbortTail, StoreOK, TailOK
  <2>3. StoreOK'
    BY <1>12, <2>2 DEF AbortTail, StoreOK, Position, Lines, logVars
  <2> QED BY <1>12, <2>1, <2>3, LeaveTypes DEF AbortTail, logVars
<1>13. CASE UNCHANGED auditVars
  BY <1>5, <1>13 DEF auditVars, logVars, StoreOK, TailOK, pollVars, Position
<1> QED
  BY <1>2, <1>3, <1>4, <1>6, <1>7, <1>8, <1>9, <1>10, <1>11, <1>12, <1>13
     DEF AuditNext, Tail1

\* What the log, the store and the workers hold is well typed, however many
\* workers there are.
THEOREM AuditTypes == AuditSpec => []AuditTypeOK
<1>1. AuditInit => AuditTypeOK
  <2> SUFFICES ASSUME AuditInit PROVE AuditTypeOK
    OBVIOUS
  <2>1. LogOK /\ StoreOK /\ CountsOK
    BY AuditTailAssumption DEF AuditInit, LogOK, StoreOK, CountsOK, Lines
  <2>2. TailOK
    BY DEF AuditInit, TailOK
  <2>3. FlagsOK
    BY DEF AuditInit, FlagsOK
  <2> QED BY <2>1, <2>2, <2>3, TypeParts
<1> QED BY <1>1, NextTypes, PTL DEF AuditSpec

-----------------------------------------------------------------------------
\* A position p that lines B follow: it lies in its file, and every line up to it
\* that makes an event is covered or in B.
Good(p, B) ==
  (p # NoState /\ p.inode = inode) =>
    /\ p.offset <= Size
    /\ \A n \in Lines :
         (Telling(n) /\ start < n /\ n <= start + p.offset) => Covered(n) \/ n \in B

\* What OffsetAccounted rests on: a position that a worker has read and one that it
\* is about to store are as good as the stored one, the latter with its batch.
Sound ==
  ~reset =>
    /\ Good(audit_state, {})
    /\ \A w \in Workers :
         /\ Good(state[w], {})
         /\ at[w] = "save" => Good(new_state[w], batch[w])

\* The positions that a new file must not be mistaken for.
InPlay == {audit_state} \cup {state[w] : w \in Workers} \cup {new_state[w] : w \in Workers}

\* Only a rotation to a file that nobody remembers, and auditd, touch the log.
LEMMA LogKept ==
  ASSUME AuditTypeOK, [AuditNext]_auditVars, ~reset',
         NEW p \in InPlay, p # NoState, p.inode = inode'
  PROVE  /\ ~reset /\ inode' = inode /\ start' = start
         /\ \/ written' = written
            \/ \E l \in AuditLines : written' = Append(written, l)
<1>1. ASSUME NEW i \in Inodes, Rotate(i) PROVE FALSE
  <2>1. i \in Remembered
    BY <1>1 DEF Rotate, Remembered, InPlay
  <2> QED BY <1>1, <2>1 DEF Rotate
<1>2. CASE Truncate
  BY <1>2 DEF Truncate
<1>3. CASE UNCHANGED logVars
  BY <1>3 DEF logVars
<1>4. ASSUME NEW l \in AuditLines, AuditWrite(l)
      PROVE  UNCHANGED <<inode, start, reset>> /\ written' = Append(written, l)
  BY <1>4 DEF AuditWrite
<1>5. \/ \E i \in Inodes : Rotate(i)
      \/ Truncate
      \/ UNCHANGED logVars
      \/ \E l \in AuditLines : AuditWrite(l)
  BY DEF AuditNext, BeginTail, Tail1, Stat, Open, Unreadable, SaveState, IngestGroup,
         FinishTail, AbortTail, auditVars
<1> QED BY <1>1, <1>2, <1>3, <1>4, <1>5

\* A line that is covered stays so.
LEMMA CoveredKept ==
  ASSUME AuditTypeOK, [AuditNext]_auditVars, NEW n \in Lines, Telling(n), Covered(n)
  PROVE  Covered(n)'
<1> USE DEF Covered
<1>1. ASSUME NEW w \in Workers, IngestGroup(w) PROVE Covered(n)'
  <2>1. PICK m \in batch[w] :
          LET group == Group(w, written[m].id)
          IN  /\ records' = IF \E k \in group : Telling(k)
                              THEN records \cup {[id |-> written[m].id, lines |-> group]}
                              ELSE records
              /\ batch' = [batch EXCEPT ![w] = @ \ group]
    BY <1>1 DEF IngestGroup
  <2>2. /\ at' = at /\ passed' = passed /\ dropped' = dropped
        /\ batch \in [Workers -> SUBSET Lines]
    BY <1>1 DEF IngestGroup, AuditTypeOK
  <2>3. CASE n \in Group(w, written[m].id)
    <3>1. [id |-> written[m].id, lines |-> Group(w, written[m].id)] \in records'
      BY <2>1, <2>3
    <3> QED BY <2>3, <3>1
  <2>4. CASE n \notin Group(w, written[m].id)
    <3>1. records \subseteq records'
      BY <2>1
    <3>2. ASSUME NEW v \in Workers, n \in batch[v] PROVE n \in batch'[v]
      BY <2>1, <2>2, <2>4, <3>2
    <3> QED BY <2>2, <3>1, <3>2
  <2> QED BY <2>3, <2>4
<1>2. ASSUME NEW w \in Workers, AbortTail(w) PROVE Covered(n)'
  BY <1>2 DEF AbortTail, LeaveTail, AuditTypeOK
<1>3. ASSUME NEW w \in Workers, Unreadable(w) \/ FinishTail(w) PROVE Covered(n)'
  BY <1>3 DEF Unreadable, FinishTail, LeaveTail, AuditTypeOK
<1>4. ASSUME NEW w \in Workers, Stat(w) PROVE Covered(n)'
  BY <1>4 DEF Stat, AuditTypeOK
<1>5. ASSUME NEW w \in Workers, Open(w) PROVE Covered(n)'
  BY <1>5 DEF Open, AuditTypeOK
<1>6. ASSUME NEW w \in Workers, BeginTail(w) \/ SaveState(w) PROVE Covered(n)'
  BY <1>6 DEF BeginTail, SaveState, AuditTypeOK
<1>7. CASE UNCHANGED <<records, at, batch, passed, dropped>>
  BY <1>7
<1>8. \/ UNCHANGED <<records, at, batch, passed, dropped>>
      \/ \E w \in Workers : BeginTail(w) \/ Tail1(w) \/ AbortTail(w)
  BY DEF AuditNext, AuditWrite, Rotate, Truncate, auditVars, pollVars
<1> QED BY <1>1, <1>2, <1>3, <1>4, <1>5, <1>6, <1>7, <1>8 DEF Tail1

\* A position in play stays good, with the lines that follow it.
LEMMA GoodKept ==
  ASSUME AuditTypeOK, [AuditNext]_auditVars, ~reset', NEW p \in InPlay, NEW B, Good(p, B)
  PROVE  Good(p, B)'
<1> SUFFICES ASSUME p # NoState, p.inode = inode'
             PROVE  /\ p.offset <= Size'
                    /\ \A n \in Lines' :
                         (Telling(n)' /\ start' < n /\ n <= start' + p.offset)
                           => Covered(n)' \/ n \in B
  BY DEF Good
<1>1. /\ inode' = inode /\ start' = start
      /\ \/ written' = written
         \/ \E l \in AuditLines : written' = Append(written, l)
  BY LogKept
<1>2. p \in Position
  BY DEF InPlay, AuditTypeOK
<1>3. /\ p.offset \in Nat /\ p.offset <= Size /\ start \in Nat
      /\ written \in Seq(AuditLines) /\ Len(written) \in Nat
  BY <1>1, <1>2 DEF Good, Position, AuditTypeOK
<1>4. /\ Len(written') \in Nat /\ Len(written) <= Len(written')
      /\ \A n \in Lines : written'[n] = written[n]
  BY <1>1, <1>3 DEF Lines
<1>5. p.offset <= Size'
  BY <1>1, <1>3, <1>4 DEF Size
<1>6. ASSUME NEW n \in Lines', Telling(n)', start' < n, n <= start' + p.offset, n \notin B
      PROVE  Covered(n)'
  <2>1. n \in Lines /\ start < n /\ n <= start + p.offset
    BY <1>1, <1>3, <1>4, <1>6 DEF Lines, Size
  <2>2. Telling(n)
    BY <1>4, <1>6, <2>1 DEF Telling
  <2>3. Covered(n)
    BY <1>1, <1>6, <2>1, <2>2 DEF Good
  <2> QED BY <2>1, <2>2, <2>3, CoveredKept
<1> QED BY <1>5, <1>6

\* The end of the log is a good position once all that lies there is passed or read.
LEMMA EndGood ==
  ASSUME AuditTypeOK, NEW w \in Workers, Open(w),
         Good(state[w], {})
  PROVE  Good(new_state[w], batch[w])'
<1> DEFINE p == [inode |-> stat[w].inode,
                 offset |-> IF SeekTo(w) > Size THEN SeekTo(w) ELSE Size]
<1>1. /\ new_state'[w] = p /\ batch'[w] = {n \in Lines : n > start + SeekTo(w)}
      /\ written' = written /\ start' = start /\ inode' = inode
      /\ at' = [at EXCEPT ![w] = "save"] /\ batch' = [batch EXCEPT ![w] = batch'[w]]
      /\ UNCHANGED <<records, passed, dropped>>
  BY DEF Open, logVars, AuditTypeOK
<1>2. /\ Size \in Nat /\ start \in Nat /\ SeekTo(w) \in Nat
      /\ state[w] \in Position /\ state[w].offset \in Nat
      /\ state[w].inode = stat[w].inode => SeekTo(w) <= state[w].offset
      /\ state[w].inode # stat[w].inode => SeekTo(w) = 0
      /\ state[w] # NoState
  <2>1. LogOK /\ TailOK /\ at[w] = "open"
    BY TypeParts DEF Open
  <2>2. state[w] # NoState
    BY <2>1 DEF TailOK
  <2> QED BY <2>1, <2>2, HereTypes, SeekTypes DEF LogOK, Position
<1>3. SUFFICES ASSUME stat[w].inode = inode
               PROVE  /\ p.offset <= Size
                      /\ \A n \in Lines :
                           (Telling(n) /\ start < n /\ n <= start + p.offset)
                             => Covered(n)' \/ n \in batch'[w]
  BY <1>1 DEF Good, Size, Lines, Telling
<1>4. SeekTo(w) <= Size
  BY <1>2, <1>3 DEF Good
<1>5. ASSUME NEW n \in Lines, Telling(n), start < n, n \notin batch'[w]
      PROVE  Covered(n)'
  <2>1. n <= start + SeekTo(w) /\ n \in Nat
    BY <1>1, <1>2, <1>5 DEF Lines
  <2>2. state[w].inode = inode /\ n <= start + state[w].offset
    BY <1>2, <1>3, <1>5, <2>1
  <2>3. Covered(n)
    BY <1>2, <1>5, <2>2 DEF Good
  <2> QED BY <1>1, <2>3 DEF Covered, Open, AuditTypeOK
<1> QED BY <1>1, <1>2, <1>4, <1>5

\* Sound is kept by every step.
LEMMA SoundKept == AuditTypeOK /\ Sound /\ [AuditNext]_auditVars => Sound'
<1> SUFFICES ASSUME AuditTypeOK, Sound, [AuditNext]_auditVars, ~reset'
             PROVE  /\ Good(audit_state, {})'
                    /\ \A w \in Workers :
                         /\ Good(state[w], {})'
                         /\ at'[w] = "save" => Good(new_state[w], batch[w])'
  BY DEF Sound
<1>1. ~reset
  BY DEF AuditNext, AuditWrite, Rotate, Truncate, BeginTail, Tail1, Stat, Open, Unreadable,
         SaveState, IngestGroup, FinishTail, AbortTail, auditVars, logVars
<1>2. /\ Good(audit_state, {})
      /\ \A w \in Workers : /\ Good(state[w], {})
                            /\ at[w] = "save" => Good(new_state[w], batch[w])
  BY <1>1 DEF Sound
<1>3. ASSUME NEW p, NEW B, p \in InPlay, Good(p, B) PROVE Good(p, B)'
  BY <1>3, GoodKept
<1>4. Good(audit_state, {})'
  <2>1. CASE \E w \in Workers : SaveState(w)
    <3>1. PICK w \in Workers : SaveState(w)
      BY <2>1
    <3>2. PICK p, B : p = new_state[w] /\ B = batch[w]
      OBVIOUS
    <3>3. Good(p, B)' /\ audit_state' = p
      BY <1>2, <1>3, <3>1, <3>2 DEF SaveState, InPlay
    <3>4. \A n \in B : Covered(n)'
      BY <3>1, <3>2 DEF SaveState, Covered, AuditTypeOK
    <3> QED BY <3>3, <3>4 DEF Good
  <2>2. CASE ~\E w \in Workers : SaveState(w)
    <3>1. audit_state' = audit_state
      BY <2>2 DEF AuditNext, AuditWrite, Rotate, Truncate, BeginTail, Tail1, Stat, Open,
                  Unreadable, IngestGroup, FinishTail, AbortTail, auditVars
    <3>2. PICK p : p = audit_state
      OBVIOUS
    <3>3. Good(p, {})'
      BY <1>2, <1>3, <3>2 DEF InPlay
    <3> QED BY <3>1, <3>2, <3>3 DEF Good
  <2> QED BY <2>1, <2>2
<1>5. ASSUME NEW w \in Workers PROVE Good(state[w], {})'
  <2>1. state'[w] \in {state[w], audit_state, NoState}
    BY DEF AuditNext, AuditWrite, Rotate, Truncate, BeginTail, Tail1, Stat, Open, Unreadable,
           SaveState, IngestGroup, FinishTail, AbortTail, LeaveTail, auditVars, pollVars,
           AuditTypeOK
  <2>2. CASE state'[w] = NoState
    BY <2>2 DEF Good
  <2>3. CASE state'[w] # NoState
    <3>1. PICK p : p = state'[w]
      OBVIOUS
    <3>2. p \in InPlay /\ Good(p, {})
      BY <1>2, <2>1, <2>3, <3>1 DEF InPlay
    <3>3. Good(p, {})'
      BY <1>3, <3>2
    <3> QED BY <3>1, <3>3 DEF Good
  <2> QED BY <2>2, <2>3
<1>6. ASSUME NEW w \in Workers, at'[w] = "save" PROVE Good(new_state[w], batch[w])'
  <2>1. CASE Open(w)
    BY <1>2, <2>1, EndGood
  <2>2. CASE Stat(w)
    <3>1. /\ new_state'[w] = [inode |-> inode, offset |-> Size]
          /\ passed' = passed \cup {n \in Lines : n > start}
          /\ written' = written /\ start' = start /\ inode' = inode
      BY <1>6, <2>2 DEF Stat, logVars, AuditTypeOK
    <3>2. \A n \in Lines : n > start => Covered(n)'
      BY <3>1 DEF Covered
    <3>3. Size \in Nat /\ start \in Nat
      BY DEF AuditTypeOK, Size
    <3> QED BY <3>1, <3>2, <3>3 DEF Good, Size, Lines
  <2>3. CASE ~Open(w) /\ ~Stat(w)
    <3>1. at[w] = "save" /\ new_state'[w] = new_state[w] /\ batch'[w] = batch[w]
      BY <1>6, <2>3
         DEF AuditNext, AuditWrite, Rotate, Truncate, BeginTail, Tail1, Stat, Open, Unreadable,
             SaveState, IngestGroup, FinishTail, AbortTail, LeaveTail, auditVars, pollVars,
             AuditTypeOK
    <3>2. PICK p, B : p = new_state[w] /\ B = batch[w]
      OBVIOUS
    <3>3. Good(p, B)'
      BY <1>2, <1>3, <3>1, <3>2 DEF InPlay
    <3> QED BY <3>1, <3>2, <3>3 DEF Good
  <2> QED BY <2>1, <2>2, <2>3
<1> QED BY <1>4, <1>5, <1>6

\* The stored offset never gets ahead of what was read, however many workers poll at
\* the same time, whatever fails and wherever the rotations fall.
THEOREM OffsetIsAccounted == AuditSpec => []OffsetAccounted
<1>1. AuditInit => Sound
  BY DEF AuditInit, Sound, Good
<1>2. AuditTypeOK /\ Sound => OffsetAccounted
  BY DEF AuditTypeOK, Sound, Good, OffsetAccounted
<1> QED BY <1>1, <1>2, SoundKept, AuditTypes, PTL DEF AuditSpec

-----------------------------------------------------------------------------
\* Line n lies before position p, or in a file that is gone.
Below(p, n) == n <= start \/ (p # NoState /\ p.inode = inode /\ n <= start + p.offset)

OneBusy == \A v, w \in Workers : at[v] # "idle" /\ at[w] # "idle" => v = w

\* What a worker goes by before it has read.
Steady ==
  \A w \in Workers :
    /\ at[w] \in {"idle", "stat", "open"} => batch[w] = {}
    /\ at[w] \in {"stat", "open"} => state[w] = audit_state
    /\ at[w] = "open" /\ state[w].inode = stat[w].inode => state[w].offset <= stat[w].offset

\* The rows, and what is to become rows, lie before the stored position; before it
\* is stored, before the new one.
Reached ==
  /\ \A r \in records : \A n \in r.lines : Below(audit_state, n)
  /\ \A w \in Workers : at[w] = "ingest" => \A n \in batch[w] : Below(audit_state, n)
  /\ \A w \in Workers : at[w] = "save" =>
       /\ \A n \in batch[w] : Below(new_state[w], n)
       /\ \A r \in records : \A n \in r.lines : Below(new_state[w], n)

\* No line is in two rows, or in a row and still to become one.
Apart ==
  /\ \A r, s \in records : r.lines \cap s.lines # {} => r = s
  /\ \A r \in records, w \in Workers : r.lines \cap batch[w] = {}

\* What ReportedOnce rests on.
Orderly == (~crowded /\ ~torn /\ ~reset) => OneBusy /\ Steady /\ Reached /\ Apart

\* Behind a position in play stays what was behind it.
LEMMA BelowKept ==
  ASSUME AuditTypeOK, [AuditNext]_auditVars, ~reset', NEW p \in InPlay, NEW n \in Lines,
         Below(p, n)
  PROVE  Below(p, n)'
<1>1. start \in Nat /\ Len(written) \in Nat /\ n <= Len(written) /\ n \in Nat
  BY DEF AuditTypeOK, Lines
<1>2. CASE \E i \in Inodes : Rotate(i)
  BY <1>1, <1>2 DEF Rotate, Below
<1>3. CASE ~\E i \in Inodes : Rotate(i)
  <2>1. inode' = inode /\ start' = start
    BY <1>3 DEF AuditNext, AuditWrite, Truncate, BeginTail, Tail1, Stat, Open, Unreadable,
                SaveState, IngestGroup, FinishTail, AbortTail, auditVars, logVars
  <2> QED BY <2>1 DEF Below
<1> QED BY <1>2, <1>3

\* What surrounds the workers leaves them orderly.
LEMMA OrderlyLog ==
  ASSUME AuditTypeOK, [AuditNext]_auditVars, ~reset', OneBusy, Steady, Reached, Apart,
         UNCHANGED <<audit_state, records, at, pollVars>>
  PROVE  (OneBusy /\ Steady /\ Reached /\ Apart)'
<1>1. (OneBusy /\ Steady /\ Apart)'
  BY DEF OneBusy, Steady, Apart, pollVars
<1>2. ASSUME NEW p \in InPlay, NEW n \in Lines, Below(p, n) PROVE Below(p, n)'
  BY <1>2, BelowKept
<1>3. Reached'
  <2>1. ASSUME NEW r \in records, NEW n \in r.lines PROVE Below(audit_state, n)'
    <3>1. PICK p : p = audit_state
      OBVIOUS
    <3>2. Below(p, n)'
      BY <1>2, <3>1 DEF Reached, InPlay, AuditTypeOK
    <3> QED BY <3>1, <3>2 DEF Below
  <2>2. ASSUME NEW w \in Workers, at[w] = "ingest", NEW n \in batch[w]
        PROVE  Below(audit_state, n)'
    <3>1. PICK p : p = audit_state
      OBVIOUS
    <3>2. Below(p, n)'
      BY <1>2, <2>2, <3>1 DEF Reached, InPlay, AuditTypeOK
    <3> QED BY <3>1, <3>2 DEF Below
  <2>3. ASSUME NEW w \in Workers, at[w] = "save", NEW n \in Lines, Below(new_state[w], n)
        PROVE  Below(new_state[w], n)'
    <3>1. PICK p : p = new_state[w]
      OBVIOUS
    <3>2. Below(p, n)'
      BY <1>2, <2>3, <3>1 DEF InPlay
    <3> QED BY <3>1, <3>2 DEF Below, pollVars
  <2>4. /\ \A r \in records : r.lines \subseteq Lines
        /\ \A w \in Workers : batch[w] \subseteq Lines
    BY DEF AuditTypeOK
  <2> QED BY <2>1, <2>2, <2>3, <2>4 DEF Reached, pollVars
<1> QED BY <1>1, <1>3

\* A poll that begins is alone and goes by the stored position.
LEMMA OrderlyBegin ==
  ASSUME AuditTypeOK, OneBusy, Steady, Reached, Apart,
         NEW w \in Workers, BeginTail(w), ~crowded'
  PROVE  (OneBusy /\ Steady /\ Reached /\ Apart)'
<1>1. /\ at' = [at EXCEPT ![w] = "stat"] /\ state' = [state EXCEPT ![w] = audit_state]
      /\ \A v \in Workers : at[v] = "idle"
      /\ UNCHANGED <<written, start, inode, audit_state, records, stat, new_state, batch>>
  BY DEF BeginTail, logVars
<1>2. OneBusy' /\ Apart'
  BY <1>1 DEF OneBusy, Apart, AuditTypeOK
<1>3. Steady'
  BY <1>1 DEF Steady, AuditTypeOK
<1>4. Reached'
  BY <1>1 DEF Reached, Below, AuditTypeOK
<1> QED BY <1>2, <1>3, <1>4

\* stat finds no less than what the stored position of the file says.
LEMMA OrderlyStat ==
  ASSUME AuditTypeOK, ~reset, Sound, OneBusy, Steady, Reached, Apart,
         NEW w \in Workers, Stat(w)
  PROVE  (OneBusy /\ Steady /\ Reached /\ Apart)'
<1>1. /\ at[w] = "stat" /\ batch[w] = {} /\ state[w] = audit_state
      /\ UNCHANGED <<written, start, inode, audit_state, records, state, batch>>
  BY DEF Stat, Steady, logVars
<1>2. /\ Size \in Nat /\ start \in Nat /\ Len(written) \in Nat /\ Size = Len(written) - start
      /\ \A r \in records : r.lines \subseteq Lines
  BY DEF AuditTypeOK, Size
<1>3. Apart'
  BY <1>1 DEF Apart
<1>4. CASE state[w] = NoState
  <2>1. /\ at' = [at EXCEPT ![w] = "save"] /\ stat' = stat
        /\ new_state' = [new_state EXCEPT ![w] = [inode |-> inode, offset |-> Size]]
    BY <1>4 DEF Stat
  <2>2. OneBusy'
    BY <1>1, <2>1 DEF OneBusy, AuditTypeOK
  <2>3. Steady'
    BY <1>1, <2>1 DEF Steady, AuditTypeOK
  <2>4. \A v \in Workers \ {w} : new_state'[v] = new_state[v] /\ at'[v] = at[v]
    BY <2>1 DEF AuditTypeOK
  <2>5. at'[w] = "save" /\ new_state'[w] = [inode |-> inode, offset |-> Size]
    BY <2>1 DEF AuditTypeOK
  <2>6. ASSUME NEW n \in Lines PROVE Below(new_state[w], n)'
    BY <1>1, <1>2, <2>5, AuditTailAssumption DEF Below, Lines, AuditTypeOK
  <2>7. \A r \in records : \A n \in r.lines : Below(new_state[w], n)'
    BY <1>2, <2>6
  <2>8. Reached'
    BY <1>1, <2>4, <2>5, <2>7 DEF Reached, Below
  <2> QED BY <1>3, <2>2, <2>3, <2>8
<1>5. CASE state[w] # NoState
  <2>1. /\ at' = [at EXCEPT ![w] = "open"] /\ new_state' = new_state
        /\ stat' = [stat EXCEPT ![w] = [inode |-> inode, offset |-> Size]]
    BY <1>5 DEF Stat
  <2>2. OneBusy'
    BY <1>1, <2>1 DEF OneBusy, AuditTypeOK
  <2>3. state[w].inode = inode => state[w].offset <= Size
    BY <1>5 DEF Sound, Good
  <2>4. Steady'
    BY <1>1, <2>1, <2>3 DEF Steady, AuditTypeOK
  <2>5. Reached'
    BY <1>1, <2>1 DEF Reached, Below, AuditTypeOK
  <2> QED BY <1>3, <2>2, <2>4, <2>5
<1> QED BY <1>4, <1>5

\* Only lines beyond the stored position are read.
LEMMA OrderlyOpen ==
  ASSUME AuditTypeOK, OneBusy, Steady, Reached, Apart, NEW w \in Workers, Open(w), ~torn'
  PROVE  (OneBusy /\ Steady /\ Reached /\ Apart)'
<1>1. /\ at[w] = "open" /\ state[w] = audit_state /\ stat[w].inode = inode
      /\ UNCHANGED <<written, start, inode, audit_state, records>>
      /\ at' = [at EXCEPT ![w] = "save"]
      /\ batch' = [batch EXCEPT ![w] = {n \in Lines : n > start + SeekTo(w)}]
      /\ state' = [state EXCEPT ![w] = NoState] /\ stat' = [stat EXCEPT ![w] = NoState]
  BY DEF Open, Steady, logVars
<1>2. PICK o : new_state' = [new_state EXCEPT ![w] = [inode |-> inode, offset |-> o]]
               /\ o = IF SeekTo(w) > Size THEN SeekTo(w) ELSE Size
  BY <1>1 DEF Open
<1>3. /\ SeekTo(w) \in Nat /\ Size \in Nat /\ start \in Nat /\ Len(written) \in Nat
      /\ Size = Len(written) - start /\ state[w] \in Position /\ stat[w] \in Position
      /\ \A r \in records : r.lines \subseteq Lines
  <2>1. TailOK /\ LogOK
    BY TypeParts
  <2> QED BY <1>1, <2>1, HereTypes, SeekTypes DEF LogOK, AuditTypeOK, Size
<1>4. state[w].inode = inode => SeekTo(w) = state[w].offset
  BY <1>1, <1>3 DEF Steady, SeekTo, Min2, Position
<1>5. ASSUME NEW r \in records PROVE r.lines \cap batch'[w] = {}
  <2>1. ASSUME NEW n \in r.lines, n > start + SeekTo(w) PROVE FALSE
    <3>1. Below(state[w], n) /\ n \in Nat
      BY <1>1, <1>3 DEF Reached, Lines
    <3> QED BY <1>3, <1>4, <2>1, <3>1 DEF Below, Position
  <2> QED BY <1>1, <2>1 DEF AuditTypeOK
<1>6. Apart'
  <2>1. ASSUME NEW v \in Workers, v # w PROVE batch'[v] = batch[v]
    BY <1>1, <2>1 DEF AuditTypeOK
  <2> QED BY <1>1, <1>5, <2>1 DEF Apart
<1>7. OneBusy'
  BY <1>1 DEF OneBusy, AuditTypeOK
<1>8. Steady'
  BY <1>1 DEF Steady, AuditTypeOK
<1>9. Reached'
  <2>1. \A v \in Workers \ {w} :
          new_state'[v] = new_state[v] /\ at'[v] = at[v] /\ batch'[v] = batch[v]
    BY <1>1, <1>2 DEF AuditTypeOK
  <2>2. /\ at'[w] = "save" /\ new_state'[w] = [inode |-> inode, offset |-> o]
        /\ batch'[w] \subseteq Lines
    BY <1>1, <1>2 DEF AuditTypeOK
  <2>3. ASSUME NEW n \in Lines PROVE Below(new_state[w], n)'
    <3>1. o \in Nat /\ n <= start + o
      BY <1>2, <1>3 DEF Lines
    <3>2. [inode |-> inode, offset |-> o] # NoState
      BY <3>1, AuditTailAssumption DEF AuditTypeOK
    <3> QED BY <1>1, <2>2, <3>1, <3>2 DEF Below
  <2>4. /\ \A r \in records : \A n \in r.lines : Below(new_state[w], n)'
        /\ \A n \in batch'[w] : Below(new_state[w], n)'
    BY <1>3, <2>2, <2>3
  <2> QED BY <1>1, <2>1, <2>2, <2>4 DEF Reached, Below
<1> QED BY <1>6, <1>7, <1>8, <1>9

\* The new position takes the place of the stored one.
LEMMA OrderlySave ==
  ASSUME AuditTypeOK, OneBusy, Steady, Reached, Apart, NEW w \in Workers, SaveState(w)
  PROVE  (OneBusy /\ Steady /\ Reached /\ Apart)'
<1>1. /\ at[w] = "save" /\ at' = [at EXCEPT ![w] = "ingest"]
      /\ audit_state' = new_state[w] /\ new_state' = [new_state EXCEPT ![w] = NoState]
      /\ UNCHANGED <<written, start, inode, records, state, stat, batch>>
      /\ \A v \in Workers \ {w} : at[v] = "idle"
  BY DEF SaveState, logVars, OneBusy
<1>2. OneBusy' /\ Apart'
  BY <1>1 DEF OneBusy, Apart, AuditTypeOK
<1>3. Steady'
  BY <1>1 DEF Steady, AuditTypeOK
<1>4. Reached'
  BY <1>1 DEF Reached, Below, AuditTypeOK
<1> QED BY <1>2, <1>3, <1>4

\* A group leaves the batch for a row of its own.
LEMMA OrderlyIngest ==
  ASSUME AuditTypeOK, OneBusy, Steady, Reached, Apart, NEW w \in Workers, IngestGroup(w)
  PROVE  (OneBusy /\ Steady /\ Reached /\ Apart)'
<1>1. PICK k \in batch[w] :
        LET group == Group(w, written[k].id)
        IN  /\ records' = IF \E m \in group : Telling(m)
                            THEN records \cup {[id |-> written[k].id, lines |-> group]}
                            ELSE records
            /\ batch' = [batch EXCEPT ![w] = @ \ group]
  BY DEF IngestGroup
<1>2. /\ at[w] = "ingest"
      /\ UNCHANGED <<written, start, inode, audit_state, at, state, stat, new_state>>
  BY DEF IngestGroup, logVars
<1>3. PICK G, r : /\ G \subseteq batch[w] /\ r.lines = G
                  /\ records' \subseteq records \cup {r}
                  /\ batch' = [batch EXCEPT ![w] = @ \ G]
  <2> DEFINE G == Group(w, written[k].id)
             r == [id |-> written[k].id, lines |-> G]
  <2>1. G \subseteq batch[w] /\ r.lines = G
    BY DEF Group
  <2> QED BY <1>1, <2>1
<1>4. \A v \in Workers : batch'[v] \subseteq batch[v]
  BY <1>3 DEF AuditTypeOK
<1>5. batch'[w] \cap G = {}
  BY <1>3 DEF AuditTypeOK
<1>6. \A v \in Workers \ {w} : at[v] = "idle" /\ batch[v] = {}
  BY <1>2 DEF OneBusy, Steady
<1>7. Apart'
  <2>1. \A s \in records : s.lines \cap r.lines = {}
    BY <1>3 DEF Apart
  <2>2. ASSUME NEW s \in records', NEW t \in records', s.lines \cap t.lines # {} PROVE s = t
    BY <1>3, <2>1, <2>2 DEF Apart
  <2>3. ASSUME NEW s \in records', NEW v \in Workers PROVE s.lines \cap batch'[v] = {}
    <3>1. CASE s \in records
      BY <1>4, <3>1 DEF Apart
    <3>2. CASE s = r
      BY <1>3, <1>4, <1>5, <1>6, <3>2
    <3> QED BY <1>3, <3>1, <3>2
  <2> QED BY <2>2, <2>3 DEF Apart
<1>8. OneBusy' /\ Steady'
  BY <1>2, <1>4 DEF OneBusy, Steady
<1>9. Reached'
  <2>1. \A n \in r.lines : Below(audit_state, n)
    BY <1>2, <1>3 DEF Reached
  <2>2. \A v \in Workers : at[v] = "save" => FALSE
    BY <1>2, <1>6
  <2> QED BY <1>2, <1>3, <1>4, <2>1, <2>2 DEF Reached, Below
<1> QED BY <1>7, <1>8, <1>9

\* A worker that leaves takes its batch with it.
LEMMA OrderlyLeave ==
  ASSUME AuditTypeOK, OneBusy, Steady, Reached, Apart, NEW w \in Workers, LeaveTail(w),
         UNCHANGED <<written, start, inode, audit_state, records>>
  PROVE  (OneBusy /\ Steady /\ Reached /\ Apart)'
<1>1. /\ \A v \in Workers \ {w} : /\ at'[v] = at[v] /\ state'[v] = state[v]
                                  /\ stat'[v] = stat[v] /\ new_state'[v] = new_state[v]
                                  /\ batch'[v] = batch[v]
      /\ at'[w] = "idle" /\ batch'[w] = {}
  BY DEF LeaveTail, AuditTypeOK
<1>2. OneBusy'
  BY <1>1 DEF OneBusy
<1>3. Apart'
  BY <1>1 DEF Apart
<1>4. Steady'
  BY <1>1 DEF Steady
<1>5. Reached'
  BY <1>1 DEF Reached, Below
<1> QED BY <1>2, <1>3, <1>4, <1>5

\* Orderly is kept by every step.
LEMMA OrderlyKept ==
  AuditTypeOK /\ Sound /\ Orderly /\ [AuditNext]_auditVars => Orderly'
<1> SUFFICES ASSUME AuditTypeOK, Sound, Orderly, [AuditNext]_auditVars,
                    ~crowded', ~torn', ~reset'
             PROVE  (OneBusy /\ Steady /\ Reached /\ Apart)'
  BY DEF Orderly
<1>1. ~reset
  BY DEF AuditNext, AuditWrite, Rotate, Truncate, BeginTail, Tail1, Stat, Open, Unreadable,
         SaveState, IngestGroup, FinishTail, AbortTail, auditVars, logVars
<1>2. ~torn
  BY DEF AuditNext, AuditWrite, Rotate, Truncate, BeginTail, Tail1, Stat, Open, Unreadable,
         SaveState, IngestGroup, FinishTail, AbortTail, auditVars, logVars
<1>3. ~crowded
  BY DEF AuditNext, AuditWrite, Rotate, Truncate, BeginTail, Tail1, Stat, Open, Unreadable,
         SaveState, IngestGroup, FinishTail, AbortTail, auditVars, logVars
<1>4. OneBusy /\ Steady /\ Reached /\ Apart
  BY <1>1, <1>2, <1>3 DEF Orderly
<1>5. CASE UNCHANGED <<audit_state, records, at, pollVars>>
  BY <1>4, <1>5, OrderlyLog
<1>6. ASSUME NEW w \in Workers, BeginTail(w) PROVE (OneBusy /\ Steady /\ Reached /\ Apart)'
  BY <1>4, <1>6, OrderlyBegin
<1>7. ASSUME NEW w \in Workers, Stat(w) PROVE (OneBusy /\ Steady /\ Reached /\ Apart)'
  BY <1>1, <1>4, <1>7, OrderlyStat
<1>8. ASSUME NEW w \in Workers, Open(w) PROVE (OneBusy /\ Steady /\ Reached /\ Apart)'
  BY <1>4, <1>8, OrderlyOpen
<1>9. ASSUME NEW w \in Workers, SaveState(w) PROVE (OneBusy /\ Steady /\ Reached /\ Apart)'
  BY <1>4, <1>9, OrderlySave
<1>10. ASSUME NEW w \in Workers, IngestGroup(w) PROVE (OneBusy /\ Steady /\ Reached /\ Apart)'
  BY <1>4, <1>10, OrderlyIngest
<1>11. ASSUME NEW w \in Workers, Unreadable(w) \/ FinishTail(w) \/ AbortTail(w)
       PROVE  (OneBusy /\ Steady /\ Reached /\ Apart)'
  <2>1. LeaveTail(w) /\ UNCHANGED <<written, start, inode, audit_state, records>>
    BY <1>11 DEF Unreadable, FinishTail, AbortTail, logVars
  <2> QED BY <1>4, <2>1, OrderlyLeave
<1>12. \/ UNCHANGED <<audit_state, records, at, pollVars>>
       \/ \E w \in Workers : BeginTail(w) \/ Tail1(w) \/ AbortTail(w)
  BY DEF AuditNext, AuditWrite, Rotate, Truncate, auditVars
<1> QED
  BY <1>5, <1>6, <1>7, <1>8, <1>9, <1>10, <1>11, <1>12 DEF Tail1

\* While workers poll one after the other and no rotation falls between stat and
\* open, no line is in two rows: failing polls, restarts and rotations never make
\* JevGuard report a record twice.
THEOREM ReportedOnlyOnce == AuditSpec => []ReportedOnce
<1>1. AuditInit => Sound /\ Orderly
  BY DEF AuditInit, Sound, Good, Orderly, OneBusy, Steady, Reached, Apart
<1>2. Orderly => ReportedOnce
  BY DEF Orderly, Apart, ReportedOnce
<1> QED BY <1>1, <1>2, SoundKept, OrderlyKept, AuditTypes, PTL DEF AuditSpec

=============================================================================
