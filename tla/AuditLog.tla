------------------------------ MODULE AuditLog ------------------------------
(***************************************************************************)
(* The audit log of internal/audit/logger.go: which file a record goes to. *)
(*                                                                         *)
(* Log holds the mutex from start to end, so a call is one action.  A file *)
(* audit_DAY.log or audit_DAY_SEQ.log is named by its day and sequence     *)
(* number, 0 for the first of a day.  Of a file only the size is kept, in  *)
(* units of which a record has MaxRecord at most.  The logger remembers    *)
(* the file it writes to (current, whose sequence number is                *)
(* Logger.sequence) and nothing else: a restarted gateway begins at the    *)
(* first file of the day again.                                            *)
(***************************************************************************)
EXTENDS Naturals, Absent

CONSTANTS
    Cap,         \* Logger.maxSize
    MaxRecord,   \* bound: size of a record
    LastDay,     \* bound: days that pass
    MaxLog,      \* bound: calls of Log
    MaxRestart   \* bound: restarts of the gateway

ASSUME AuditAssumption ==
    /\ Cap \in Nat \ {0}
    /\ MaxRecord \in Nat \ {0}
    /\ LastDay \in Nat
    /\ MaxLog \in Nat
    /\ MaxRestart \in Nat
    /\ Nil \notin [day : Nat, seq : Nat]

VARIABLES
    file,       \* size of each file, 0 of one that does not exist
    current,    \* Logger.current, Nil for ""
    day,        \* today
    logged,     \* calls of Log so far
    restarts    \* restarts so far

vars == <<file, current, day, logged, restarts>>

FileName == [day : 0..LastDay, seq : 0..MaxLog]

TypeOK ==
    /\ file \in [FileName -> Nat]
    /\ current \in FileName \cup {Nil}
    /\ current # Nil => current.seq < logged
    /\ day \in 0..LastDay
    /\ logged \in 0..MaxLog
    /\ restarts \in 0..MaxRestart

Init ==
    /\ file = [f \in FileName |-> 0]
    /\ current = Nil
    /\ day = 0
    /\ logged = 0
    /\ restarts = 0

-----------------------------------------------------------------------------

First(d)   == [day |-> d, seq |-> 0]
NextSeq(f) == [f EXCEPT !.seq = @ + 1]

\* The file in use, or the day's first one when there is none or the date
\* has changed.
Active == IF current = Nil \/ current.day # day THEN First(day) ELSE current

\* Mutant: the size of the day's first file is looked at, as in the "stale base
\* name" that the source warns of, and the number stays what it was.
RotatedByBase(f) == IF file[First(f.day)] >= Cap THEN NextSeq(First(f.day)) ELSE f

Rotated(f) == IF file[f] >= Cap THEN NextSeq(f) ELSE f

\* The record is written, or its beginning when the write is cut short, or
\* nothing, when the file does not open; the logger stays with the file it
\* chose.
Log ==
    /\ logged < MaxLog
    /\ logged' = logged + 1
    /\ current' = Rotated(Active)
    /\ \E n \in 0..MaxRecord : file' = [file EXCEPT ![current'] = @ + n]
    /\ UNCHANGED <<day, restarts>>

Midnight ==
    /\ day < LastDay
    /\ day' = day + 1
    /\ UNCHANGED <<file, current, logged, restarts>>

Restart ==
    /\ restarts < MaxRestart
    /\ restarts' = restarts + 1
    /\ current' = Nil
    /\ UNCHANGED <<file, day, logged>>

Next == Log \/ Midnight \/ Restart

Spec == Init /\ [][Next]_vars

-----------------------------------------------------------------------------

\* By how much files may grow past the cap in n runs of the gateway.
Excess(n) == n * MaxRecord

\* A file grows past the cap by less than a record for every run of the
\* gateway: the file that a rotation turns to is not looked at before it is
\* written to, but a process turns to a file only once.
SizeBounded == \A f \in FileName : file[f] < Cap + Excess(restarts + 1)

\* A file with a sequence number is begun only when the one before it is full,
\* on any day and however often the gateway has been restarted.
RotatedOnlyWhenFull ==
    \A f \in FileName : f.seq < MaxLog /\ file[NextSeq(f)] > 0 => file[f] >= Cap

\* Rotation comes neither late nor early: the limits of both kinds hold for
\* every file, over any number of restarts and days.
FilesFilled == SizeBounded /\ RotatedOnlyWhenFull

\* What makes it inductive: the file in use was turned to from a full one.
CurrentFollowsFull == \A f \in FileName : current = NextSeq(f) => file[f] >= Cap

\* What makes SizeBounded inductive: a file of today that the process has not
\* turned to yet has had a write less, and tomorrow's are empty.
Ahead(f) == f.day = day /\ (current = Nil \/ current.day # day \/ current.seq < f.seq)

RoomAhead ==
    \A f \in FileName :
        /\ Ahead(f) => file[f] < Cap + Excess(restarts)
        /\ f.day > day => file[f] = 0

WrittenByLog == logged = 0 => \A f \in FileName : file[f] = 0

CurrentNotAhead == current # Nil => current.day <= day
=============================================================================
