------------------------------ MODULE MCIngest ------------------------------
(***************************************************************************)
(* Small instances of Ingest: one process, or the server and a jevguard    *)
(* collect-once next to it.                                                *)
(***************************************************************************)
EXTENDS Ingest, TLC

CONSTANTS loop, once, server, command

MCServiceOf == [w \in Workers |-> IF w = loop THEN server ELSE command]

Login(event_type, subject) ==
  [event_type |-> event_type, subject |-> subject, port |-> NoPort]

Packet(subject, port) ==
  [event_type |-> "firewall_packet_blocked", subject |-> subject, port |-> port]

\* A packet may come without source or port.
MCRecords ==
  {Login(t, x) : t \in SshTypes \cup {"other"}, x \in Subjects}
    \cup {Packet(x, p) : x \in Subjects, p \in Ports}
    \cup {Packet(NoSource, NoPort)}

\* EventsOf is SelectSeq.
ASSUME EventsOfAssumption ==
  \A n \in 0 .. 3 : \A lines \in [1 .. n -> Records] :
    EventsOf(lines) = {SelectSeq(lines, IsEvent)}

\* One kind of event in either journal.
FailureRecords ==
  {Login("ssh_login_failed", x) : x \in Subjects} \cup {Packet(NoSource, NoPort)}

LoginRecords == {Login(t, x) : t \in SshTypes, x \in Subjects}

=============================================================================
