-------------------------------- MODULE LogFile --------------------------------
(***************************************************************************)
(* CLogFile (Log.h, Log.cpp), one of the four log files of oLog, to its    *)
(* end.  Each operation holds m_cs from its first statement to its return, *)
(* so it is one step, whichever thread calls it: OutPutString by any       *)
(* thread that works with the database, Close by the console handler       *)
(* (xe_mysql.cpp) on a thread of its own and by the destructor.            *)
(*                                                                         *)
(* oLog is a static object: it is destroyed in steps when main has         *)
(* returned, while the workers that Stop did not wait for, and the         *)
(* handler, go on.                                                         *)
(*                                                                         *)
(* A line is buffered by stdio until fflush or fclose.  Close leaves       *)
(* m_pFile pointing to the closed FILE; what a later use of it does is     *)
(* undefined: the program ends there, or goes on without that line.        *)
(***************************************************************************)
EXTENDS Integers

CONSTANTS
  MonthLength, \* days after which wDay repeats
  MaxDays,     \* bound: days the program runs
  TickLimit,   \* 2^32: where GetTickCount wraps
  Interval,    \* m_dwInterval
  MaxSilence   \* ticks from one line to the next, at most

\* The wrap of GetTickCount may fall between two lines, but not a whole turn.
ASSUME LogFileAssumption ==
  /\ MonthLength \in Nat \ {0} /\ MaxDays \in Nat
  /\ TickLimit \in Nat /\ Interval \in Nat /\ MaxSilence \in Nat
  /\ Interval + MaxSilence < TickLimit

Day == 0..MaxDays
NoFile == [day |-> 0, state |-> "null"]
None == -1

VARIABLES
  day,          \* the date of GetSystemTime
  clock,        \* GetTickCount
  silence,      \* ticks since the last call of OutPutString
  m_xDate,      \* the date of Open
  m_pFile,      \* the FILE: the day in its name, and "open", "closed" or "null"
  m_dwLastTime,
  oldest,       \* ticks since the oldest line in the FILE's buffer, or None
  last,         \* the last line: its date, and where it went
  handled,      \* the console handler has called Close
  misused,      \* a closed FILE, or a freed CLogFile, has been used
  life          \* how far the program has come

fileVars == <<m_xDate, m_pFile, m_dwLastTime, oldest>>
vars == <<day, clock, silence, fileVars, last, handled, misused, life>>

\* "up": main runs.  ~oLog has closed the file ("closed"), freed the CLogFile
\* and cleared its pointer to it ("null"), and left mSingleton NULL ("gone");
\* or the process has ended.
Life == {"up", "closed", "null", "gone", "ended"}
Runs == life # "ended"

\* oLog points to the CLogFile, which is there.
Reachable == life \in {"up", "closed"}

wDay(d) == d % MonthLength
File(d) == [day |-> d, state |-> "open"]

\* What GetTickCount() - m_dwLastTime is in 32 bits.
Elapsed == IF clock >= m_dwLastTime THEN clock - m_dwLastTime
                                    ELSE clock - m_dwLastTime + TickLimit

\* fopen(..., "a") for the file of date d may fail.
Opened(d) == m_pFile' \in {File(d), NoFile}

\* A line of today that went to the file of day d, the first of its date there
\* or not; `repeats': Open was on the same day of a month.
Line(d, where) ==
  [on |-> day, file |-> d, where |-> where, first |-> last.on # day,
   repeats |-> wDay(day) = wDay(m_xDate)]

\* oLog's constructor has called Open, before the program's threads exist.
Init ==
  /\ day = 0 /\ clock \in 0..(TickLimit - 1) /\ silence = 0
  /\ m_xDate = 0 /\ m_pFile \in {File(0), NoFile}
  /\ m_dwLastTime = clock /\ oldest = None
  /\ last = [on |-> 0, file |-> 0, where |-> "file", first |-> FALSE, repeats |-> TRUE]
  /\ handled = FALSE /\ misused = FALSE /\ life = "up"

-----------------------------------------------------------------------------
(* Time *)

\* Mutant: a wider clock.
Tick_NoWrap ==
  /\ Runs /\ silence < MaxSilence
  /\ clock' = clock + 1 /\ silence' = silence + 1
  /\ oldest' = IF oldest = None THEN None ELSE oldest + 1
  /\ UNCHANGED <<day, m_xDate, m_pFile, m_dwLastTime, last, handled, misused, life>>

\* A longer silence than MaxSilence allows would hide a turn of the clock from
\* the subtraction; a program that logs each query does not keep it that long.
Tick ==
  /\ Runs /\ silence < MaxSilence
  /\ clock' = IF clock + 1 = TickLimit THEN 0 ELSE clock + 1
  /\ silence' = silence + 1
  /\ oldest' = IF oldest = None THEN None ELSE oldest + 1
  /\ UNCHANGED <<day, m_xDate, m_pFile, m_dwLastTime, last, handled, misused, life>>

Midnight ==
  /\ Runs /\ day < MaxDays
  /\ day' = day + 1
  /\ UNCHANGED <<clock, silence, fileVars, last, handled, misused, life>>

-----------------------------------------------------------------------------
(* The operations *)

Used == misused' = (misused \/ m_pFile.state = "closed")

\* Open again: the file at hand is closed first, which saves its lines.
Open ==
  /\ life = "up" /\ Used
  /\ m_xDate' = day /\ Opened(day)
  /\ m_dwLastTime' = IF m_pFile'.state = "open" THEN clock ELSE m_dwLastTime
  /\ oldest' = None
  /\ UNCHANGED <<day, clock, silence, last, handled, life>>

FFlush ==
  /\ life = "up" /\ m_pFile.state # "null" /\ Used
  /\ m_dwLastTime' = clock /\ oldest' = None
  /\ UNCHANGED <<day, clock, silence, m_xDate, m_pFile, last, handled, life>>

\* After a failed fopen every line is dropped, and so it is once oLog has
\* cleared its pointer.
Dropped ==
  /\ m_pFile.state = "null" /\ (Reachable \/ life = "null")
  /\ last' = Line(0, "dropped") /\ silence' = 0
  /\ UNCHANGED <<day, clock, fileVars, handled, misused, life>>

\* Mutants: the file is replaced only when the day of the month is later; the
\* pointer is replaced only by a FILE.
Cut_ComparesLess ==
  /\ wDay(day) # wDay(m_xDate)
  /\ IF wDay(day) > wDay(m_xDate) THEN Opened(day) ELSE UNCHANGED m_pFile
  /\ m_dwLastTime' = clock /\ oldest' = None
  /\ UNCHANGED m_xDate

Cut_KeepsClosed ==
  /\ wDay(day) # wDay(m_xDate)
  /\ m_pFile' \in {File(day), [m_pFile EXCEPT !.state = "closed"]}
  /\ m_dwLastTime' = clock /\ oldest' = None
  /\ UNCHANGED m_xDate

\* The date is not that of Open: the file, with the line in it, is closed and
\* that of today opened.  m_xDate stays, so this happens at every line of every
\* later day, and never on the same day of another month.
Cut ==
  /\ wDay(day) # wDay(m_xDate)
  /\ Opened(day)
  /\ m_dwLastTime' = clock /\ oldest' = None
  /\ UNCHANGED m_xDate

\* Mutant: the clock is compared with the time of the next flush.
Overdue_Compares == clock > (m_dwLastTime + Interval) % TickLimit

\* GetTickCount() - m_dwLastTime > m_dwInterval, in 32 bits.
Overdue == Elapsed > Interval

Flush ==
  /\ wDay(day) = wDay(m_xDate) /\ Overdue
  /\ m_dwLastTime' = clock /\ oldest' = None
  /\ UNCHANGED <<m_xDate, m_pFile>>

Buffer ==
  /\ wDay(day) = wDay(m_xDate) /\ ~Overdue
  /\ oldest' = IF oldest = None /\ m_pFile.state = "open" THEN 0 ELSE oldest
  /\ UNCHANGED <<m_xDate, m_pFile, m_dwLastTime>>

\* OutPutString: the line goes to the file at hand, which may then be cut.  A
\* line for a closed FILE is gone.
OutPutString ==
  /\ Reachable /\ m_pFile.state # "null" /\ Used
  /\ last' = IF m_pFile.state = "open" THEN Line(m_pFile.day, "file") ELSE Line(0, "closed")
  /\ silence' = 0
  /\ Cut \/ Flush \/ Buffer
  /\ UNCHANGED <<day, clock, handled, life>>

\* Close: flushed and closed, but m_pFile keeps its value.
Close ==
  /\ Used
  /\ m_pFile' = IF m_pFile.state = "null" THEN m_pFile ELSE [m_pFile EXCEPT !.state = "closed"]
  /\ oldest' = None
  /\ UNCHANGED <<m_xDate, m_dwLastTime>>

\* CTRL_CLOSE_EVENT: oLog::Close on the handler's thread, then the system
\* ends the process.
CtrlHandler ==
  /\ ~handled /\ handled' = TRUE
  /\ (Reachable /\ Close) \/ (life = "null" /\ UNCHANGED <<fileVars, misused>>)
  /\ UNCHANGED <<day, clock, silence, last, life>>

\* main returns, and ~oLog deletes the CLogFile, which closes the file again ...
Exit ==
  /\ life = "up" /\ Close
  /\ life' = "closed"
  /\ UNCHANGED <<day, clock, silence, last, handled>>

\* ... frees it and clears the pointer; a FILE that a late line opened is left
\* to the C runtime.  ~Singleton clears mSingleton.
Teardown ==
  /\ \/ life = "closed" /\ life' = "null" /\ m_pFile' = NoFile /\ oldest' = None
     \/ life = "null" /\ life' = "gone" /\ UNCHANGED <<m_pFile, oldest>>
  /\ UNCHANGED <<day, clock, silence, m_xDate, m_dwLastTime, last, handled, misused>>

\* A thread that read the pointer before that, and waited for m_cs or for the
\* processor, works on the freed CLogFile.
UseFreed ==
  /\ life \in {"null", "gone"}
  /\ misused' = TRUE
  /\ UNCHANGED <<day, clock, silence, fileVars, last, handled, life>>

\* The process ends: when the destructors are done, after the handler, in a
\* crash, or because a thread asks for the log that is gone, where getSingleton
\* asserts that there is one.
End ==
  /\ Runs /\ life' = "ended"
  /\ UNCHANGED <<day, clock, silence, fileVars, last, handled, misused>>

Next ==
  \/ Tick \/ Midnight \/ Open \/ FFlush \/ Dropped \/ OutPutString
  \/ CtrlHandler \/ Exit \/ Teardown \/ UseFreed \/ End

Spec == Init /\ [][Next]_vars

-----------------------------------------------------------------------------
(* Properties *)

TypeOK ==
  /\ day \in Day /\ m_xDate \in Day
  /\ clock \in 0..(TickLimit - 1) /\ m_dwLastTime \in 0..(TickLimit - 1)
  /\ silence \in 0..MaxSilence
  /\ m_pFile \in [day : Day, state : {"open", "closed", "null"}]
  /\ oldest \in Nat \cup {None}
  /\ last \in [on : Day, file : Day, where : {"file", "dropped", "closed"},
               first : BOOLEAN, repeats : BOOLEAN]
  /\ handled \in BOOLEAN /\ misused \in BOOLEAN /\ life \in Life

\* A line that is written goes to the file of its date, with two exceptions:
\* the first line after midnight, which still goes to the file of the line
\* before, and all lines of a day with the number of the day of Open in another
\* month, on which the files are not cut.
LineInItsDay ==
  last.where = "file" => last.file = last.on \/ last.first \/ last.repeats

\* Each line is on the disk by the first line that follows it by more than the
\* flush interval, also across the wrap of GetTickCount: after a line, what is
\* still buffered is no older than the interval.
FlushedInTime == silence = 0 => oldest <= Interval

\* While main runs and the console handler has not closed the log, no closed
\* FILE is written to or closed again, whatever is cut, opened again or fails
\* to open.  After that the code does both: Close leaves m_pFile set, and the
\* threads that log, and the destructor, take it for an open FILE.
NoUseAfterClose == misused => handled \/ life # "up"

=============================================================================
