------------------------------ MODULE Archive -------------------------------
(***************************************************************************)
(* What the hourly record promises: for every hour and axis a sequence of  *)
(* seconds, to which the seconds are added in turn.  Only the hour whose   *)
(* first second is at hand, or into which the program is started, is       *)
(* emptied; an hour is announced when its axes leave it.  The clock may    *)
(* stand still or go back, so that an hour may begin again.  Nothing is    *)
(* said of headers, of the calls that write a file or of the order of the  *)
(* axes in a block.  Once a file could not be opened nothing is promised.  *)
(***************************************************************************)
EXTENDS Integers, Sequences

CONSTANTS
    AxisNames, LastAxis,    \* the axes, and the one that announces
    Length                  \* seconds of an hour

VARIABLES
    now,        \* the second at hand
    current,    \* the hour each axis is recorded in, or None
    record,     \* the seconds recorded, by hour and axis
    announced,  \* hours
    again,      \* hours that began when they had been announced
    damaged     \* a file could not be opened

rvars == <<now, current, record, announced, again, damaged>>

None == -1
HourOf(t) == t \div Length

Init ==
    /\ now \in Nat
    /\ current = [a \in AxisNames |-> None]
    /\ \A h \in DOMAIN record : \A a \in AxisNames : record[h][a] = <<>>
    /\ announced = {}
    /\ again = {}
    /\ damaged = FALSE

-----------------------------------------------------------------------------
(* The next second comes.                                                  *)
Advance ==
    /\ now' \in Nat
    /\ UNCHANGED <<current, record, announced, again, damaged>>

(* An axis begins its file of this hour; the last one comes after all      *)
(* others and announces the files of the hour they were in, which is this  *)
(* one if its first second has come twice.                                 *)
Begin(a) ==
    /\ current[a] = None \/ now % Length = 0
    /\ a = LastAxis => \A b \in AxisNames \ {a} : current[b] = HourOf(now)
    /\ current' = [current EXCEPT ![a] = HourOf(now)]
    /\ record' = [record EXCEPT ![HourOf(now)][a] = <<>>]
    /\ announced' = IF a = LastAxis /\ current[a] # None
                    THEN announced \cup {current[a]} ELSE announced
    /\ again' = IF HourOf(now) \in announced' THEN again \cup {HourOf(now)} ELSE again
    /\ UNCHANGED <<now, damaged>>

Add(a) ==
    /\ current[a] # None
    /\ record' = [record EXCEPT ![current[a]][a] = Append(@, now)]
    /\ UNCHANGED <<now, current, announced, again, damaged>>

(* The program ends and is started later.                                  *)
Restart ==
    /\ now' >= now
    /\ current' = [a \in AxisNames |-> None]
    /\ UNCHANGED <<record, announced, again, damaged>>

Next ==
    \/ Advance
    \/ \E a \in AxisNames : Begin(a) \/ Add(a)
    \/ Restart
    \/ damaged'

Safety == Init /\ [][Next]_rvars

-----------------------------------------------------------------------------
(* What is announced is complete: nothing is recorded in an announced hour *)
(* afterwards, unless that hour has begun again.                           *)
KeepsAnnounced == ~damaged' => \A h \in announced \ again' : record'[h] = record[h]
AnnouncedIsFinal == [][KeepsAnnounced]_rvars

=============================================================================
