----------------------------- MODULE LogFileProofs -----------------------------
(***************************************************************************)
(* Proofs about LogFile for any width of GetTickCount, any flush interval, *)
(* any length of a month and any number of days.                           *)
(***************************************************************************)
EXTENDS LogFile, TLAPS

\* A file that a line has gone to today is the file of today, or one that is
\* not cut today.
TodaysFile ==
  /\ last.on <= day
  /\ m_pFile.state = "open" /\ last.on = day
       => m_pFile.day = day \/ wDay(day) = wDay(m_xDate)

\* Only the destructor's Close and the handler's leave a closed FILE behind.
ClosedByHandler ==
  /\ life = "up" /\ m_pFile.state = "closed" => handled
  /\ misused => handled \/ life # "up"

\* The oldest line in the buffer came after the last flush, and that was no
\* longer ago, at the last line, than the interval: the subtraction in 32 bits
\* is the true difference.
BufferYoung ==
  /\ oldest # None => m_pFile.state = "open"
  /\ m_pFile.state = "open" => oldest <= Elapsed /\ Elapsed <= Interval + silence

IInv == TypeOK /\ TodaysFile /\ ClosedByHandler /\ BufferYoung

ClockRange == 0..(TickLimit - 1)
FileType == [day : Day, state : {"open", "closed", "null"}]

\* Elapsed is a time of the clock, and nothing right after a flush.
LEMMA ElapsedRange ==
  ASSUME TypeOK
  PROVE  /\ Elapsed \in ClockRange
         /\ m_dwLastTime = clock => Elapsed = 0
BY LogFileAssumption DEF TypeOK, Elapsed, ClockRange

\* One tick more, across the wrap as anywhere else.
LEMMA ElapsedTick ==
  ASSUME TypeOK, Tick, Elapsed + 1 < TickLimit
  PROVE  Elapsed' = Elapsed + 1
<1>1. /\ clock \in 0..(TickLimit - 1) /\ m_dwLastTime \in 0..(TickLimit - 1)
      /\ TickLimit \in Nat /\ m_dwLastTime' = m_dwLastTime
      /\ clock' = IF clock + 1 = TickLimit THEN 0 ELSE clock + 1
  BY LogFileAssumption DEF TypeOK, Tick
<1>2. CASE clock + 1 = TickLimit
  BY <1>1, <1>2 DEF Elapsed
<1>3. CASE clock + 1 # TickLimit
  BY <1>1, <1>3 DEF Elapsed
<1> QED
  BY <1>2, <1>3

LEMMA InitIInv == Init => IInv
<1> SUFFICES ASSUME Init PROVE IInv
  OBVIOUS
<1> USE LogFileAssumption DEF Init
<1>1. TypeOK
  <2>1. 0 \in Day
    BY DEF Day
  <2>2. m_pFile \in [day : Day, state : {"open", "closed", "null"}]
    BY <2>1 DEF File, NoFile
  <2>3. last \in [on : Day, file : Day, where : {"file", "dropped", "closed"},
                  first : BOOLEAN, repeats : BOOLEAN]
    <3>1. last = [on |-> 0, file |-> 0, where |-> "file", first |-> FALSE, repeats |-> TRUE]
      OBVIOUS
    <3> HIDE DEF Init
    <3> QED
      BY <2>1, <3>1
  <2>4. silence \in 0..MaxSilence /\ oldest \in Nat \cup {None}
    OBVIOUS
  <2>5. handled \in BOOLEAN /\ misused \in BOOLEAN /\ life \in Life
    BY Zenon DEF Life
  <2> QED
    BY <2>1, <2>2, <2>3, <2>4, <2>5 DEF TypeOK
<1>2. TodaysFile /\ ClosedByHandler
  BY DEF TodaysFile, ClosedByHandler, File, NoFile
<1>3. BufferYoung
  BY DEF BufferYoung, Elapsed, None, File, NoFile
<1> QED
  BY <1>1, <1>2, <1>3 DEF IInv

-----------------------------------------------------------------------------
(* The steps *)

LEMMA TickIInv == ASSUME IInv, Tick PROVE IInv'
<1> USE LogFileAssumption DEF IInv
<1>1. TypeOK'
  BY DEF Tick, TypeOK, None
<1>2. TodaysFile' /\ ClosedByHandler'
  BY DEF Tick, TodaysFile, ClosedByHandler
<1>3. BufferYoung'
  <2>1. m_pFile' = m_pFile /\ silence' = silence + 1 /\ silence < MaxSilence
        /\ oldest' = (IF oldest = None THEN None ELSE oldest + 1)
    BY DEF Tick
  <2>2. ASSUME m_pFile.state = "open" PROVE Elapsed' = Elapsed + 1
    <3>1. Elapsed <= Interval + silence /\ Elapsed \in ClockRange
      BY <2>2, ElapsedRange DEF BufferYoung
    <3>2. Elapsed + 1 < TickLimit
      BY <2>1, <3>1 DEF TypeOK, ClockRange
    <3> QED
      BY <3>2, ElapsedTick
  <2>3. Elapsed \in ClockRange /\ oldest \in Nat \cup {None} /\ silence \in Nat
    BY ElapsedRange DEF TypeOK
  <2> HIDE DEF TypeOK
  <2> QED
    BY <2>1, <2>2, <2>3 DEF BufferYoung, None, ClockRange
<1> QED
  BY <1>1, <1>2, <1>3

\* A step that leaves an open file only right after a flush or an fopen.
LEMMA FreshBuffer ==
  ASSUME TypeOK, clock' = clock, silence' = silence \/ silence' = 0, oldest' = None,
         m_pFile'.state = "open" => m_dwLastTime' = clock
  PROVE  BufferYoung'
<1>1. clock \in Nat /\ silence \in Nat /\ Interval \in Nat
  BY LogFileAssumption DEF TypeOK
<1>2. m_pFile'.state = "open" => Elapsed' = 0
  BY <1>1 DEF Elapsed
<1>3. None \in Int /\ None <= 0
  BY DEF None
<1>4. 0 <= Interval + silence' /\ oldest' <= 0
  BY <1>1, <1>3
<1>5. (oldest # None => m_pFile.state = "open")'
  BY DEF None
<1>6. (m_pFile.state = "open" => oldest <= Elapsed /\ Elapsed <= Interval + silence)'
  BY <1>2, <1>4
<1> QED
  BY <1>5, <1>6 DEF BufferYoung

LEMMA OpenIInv == ASSUME IInv, Open PROVE IInv'
<1> USE LogFileAssumption DEF IInv
<1>1. m_pFile' \in {File(day), NoFile} /\ File(day).state = "open" /\ File(day).day = day
      /\ NoFile.state = "null" /\ File(day) \in FileType /\ NoFile \in FileType
  BY DEF Open, Opened, File, NoFile, TypeOK, FileType, Day
<1>2. TypeOK'
  BY <1>1 DEF Open, Used, TypeOK, None, FileType
<1>3. TodaysFile' /\ ClosedByHandler'
  BY <1>1 DEF Open, Used, TodaysFile, ClosedByHandler
<1>4. BufferYoung'
  BY FreshBuffer DEF Open
<1> QED
  BY <1>2, <1>3, <1>4

LEMMA FFlushIInv == ASSUME IInv, FFlush PROVE IInv'
<1> USE LogFileAssumption DEF IInv
<1>1. TypeOK'
  BY DEF FFlush, Used, TypeOK, None
<1>2. TodaysFile' /\ ClosedByHandler'
  BY DEF FFlush, Used, TodaysFile, ClosedByHandler
<1>3. BufferYoung'
  BY FreshBuffer DEF FFlush
<1> QED
  BY <1>1, <1>2, <1>3

\* What OutPutString records of a line.
LEMMA LineType ==
  ASSUME TypeOK, NEW d \in Day, NEW where \in {"file", "dropped", "closed"}
  PROVE  /\ Line(d, where) \in [on : Day, file : Day, where : {"file", "dropped", "closed"},
                                first : BOOLEAN, repeats : BOOLEAN]
         /\ Line(d, where).on = day
BY DEF TypeOK, Line

LEMMA DroppedIInv == ASSUME IInv, Dropped PROVE IInv'
<1> USE LogFileAssumption DEF IInv
<1>1. 0 \in Day
  BY DEF Day
<1>2. TypeOK' /\ last'.on = day
  <2>1. last' = Line(0, "dropped")
    BY DEF Dropped
  <2>2. UNCHANGED <<day, clock, m_xDate, m_pFile, m_dwLastTime, oldest, handled, misused, life>>
        /\ silence' = 0
    BY DEF Dropped, fileVars
  <2> QED
    BY <1>1, <2>1, <2>2, LineType DEF TypeOK
<1>3. TodaysFile' /\ ClosedByHandler'
  BY <1>2 DEF Dropped, fileVars, TodaysFile, ClosedByHandler, TypeOK, Day
<1>4. BufferYoung'
  BY DEF Dropped, fileVars, BufferYoung, TypeOK, None
<1> QED
  BY <1>2, <1>3, <1>4

LEMMA OutPutStringIInv == ASSUME IInv, OutPutString PROVE IInv'
<1> USE LogFileAssumption DEF IInv
<1>1. last'.on = day /\ last' \in [on : Day, file : Day, where : {"file", "dropped", "closed"},
                                   first : BOOLEAN, repeats : BOOLEAN]
  <2>1. 0 \in Day /\ m_pFile.day \in Day
    BY DEF Day, TypeOK
  <2>2. last' = Line(m_pFile.day, "file") \/ last' = Line(0, "closed")
    BY DEF OutPutString
  <2> QED
    BY <2>1, <2>2, LineType
<1>2. /\ m_pFile.state # "null" /\ silence' = 0
      /\ misused' = (misused \/ m_pFile.state = "closed")
      /\ UNCHANGED <<day, clock, handled, life, m_xDate>>
  BY DEF OutPutString, Used, Cut, Flush, Buffer
<1>3. CASE Cut
  <2>1. m_pFile' \in {File(day), NoFile} /\ File(day).state = "open" /\ File(day).day = day
        /\ NoFile.state = "null" /\ File(day) \in FileType /\ NoFile \in FileType
    BY <1>3 DEF Cut, Opened, File, NoFile, TypeOK, FileType, Day
  <2>2. TypeOK'
    BY <1>1, <1>2, <1>3, <2>1 DEF Cut, TypeOK, None, FileType
  <2>3. TodaysFile' /\ ClosedByHandler'
    BY <1>1, <1>2, <2>1 DEF TodaysFile, ClosedByHandler, TypeOK, Day
  <2>4. BufferYoung'
    BY <1>2, <1>3, FreshBuffer DEF Cut
  <2> QED
    BY <2>2, <2>3, <2>4
<1>4. CASE Flush
  <2>1. TypeOK'
    BY <1>1, <1>2, <1>4 DEF Flush, TypeOK, None
  <2>2. TodaysFile' /\ ClosedByHandler'
    BY <1>1, <1>2, <1>4 DEF Flush, TodaysFile, ClosedByHandler, TypeOK, Day
  <2>3. BufferYoung'
    BY <1>2, <1>4, FreshBuffer DEF Flush
  <2> QED
    BY <2>1, <2>2, <2>3
<1>5. CASE Buffer
  <2>1. TypeOK'
    BY <1>1, <1>2, <1>5 DEF Buffer, TypeOK, None
  <2>2. TodaysFile' /\ ClosedByHandler'
    BY <1>1, <1>2, <1>5 DEF Buffer, TodaysFile, ClosedByHandler, TypeOK, Day
  <2>3. BufferYoung'
    <3>1. Elapsed' = Elapsed /\ Elapsed <= Interval /\ Elapsed \in ClockRange
      BY <1>2, <1>5, ElapsedRange DEF Buffer, Overdue, Elapsed, TypeOK, ClockRange
    <3>2. m_pFile' = m_pFile
          /\ oldest' = (IF oldest = None /\ m_pFile.state = "open" THEN 0 ELSE oldest)
      BY <1>5 DEF Buffer
    <3> QED
      BY <1>2, <3>1, <3>2 DEF BufferYoung, ClockRange, None
  <2> QED
    BY <2>1, <2>2, <2>3
<1> QED
  BY <1>3, <1>4, <1>5 DEF OutPutString

\* The handler's Close and the destructor's.
LEMMA CloseIInv ==
  ASSUME IInv, CtrlHandler \/ Exit, Close PROVE IInv'
<1> USE LogFileAssumption DEF IInv
<1>1. /\ m_pFile' = m_pFile \/ m_pFile' = [m_pFile EXCEPT !.state = "closed"]
      /\ m_pFile' \in FileType /\ m_pFile'.state # "open"
  BY DEF CtrlHandler, Exit, Close, TypeOK, FileType
<1>2. /\ UNCHANGED <<day, clock, silence, last, m_xDate, m_dwLastTime>>
      /\ misused' = (misused \/ m_pFile.state = "closed") /\ oldest' = None
  BY DEF CtrlHandler, Exit, Close, Used
<1>3. (handled' /\ life' = life) \/ (handled' = handled /\ life' = "closed")
  BY DEF CtrlHandler, Exit
<1>4. TypeOK'
  <2>1. handled' \in BOOLEAN /\ life' \in Life
    BY DEF CtrlHandler, Exit, TypeOK, Life
  <2> QED
    BY <1>1, <1>2, <2>1 DEF TypeOK, FileType, None
<1>5. TodaysFile' /\ ClosedByHandler'
  BY <1>1, <1>2, <1>3 DEF TodaysFile, ClosedByHandler
<1>6. BufferYoung'
  BY <1>1, <1>2, FreshBuffer
<1> QED
  BY <1>4, <1>5, <1>6

LEMMA NextIInv == IInv /\ [Next]_vars => IInv'
<1> SUFFICES ASSUME IInv, [Next]_vars PROVE IInv'
  OBVIOUS
<1>1. CASE Midnight
  <2>1. TypeOK'
    BY <1>1, LogFileAssumption DEF Midnight, fileVars, IInv, TypeOK, Day
  <2>2. TodaysFile' /\ ClosedByHandler' /\ BufferYoung'
    BY <1>1 DEF Midnight, fileVars, IInv, TypeOK, Day, TodaysFile, ClosedByHandler,
                BufferYoung, Elapsed
  <2> QED
    BY <2>1, <2>2 DEF IInv
<1>2. CASE \/ Teardown \/ UseFreed \/ End \/ UNCHANGED vars
           \/ CtrlHandler /\ UNCHANGED <<fileVars, misused>>
  <2>1. /\ UNCHANGED <<day, clock, silence, m_xDate, m_dwLastTime, last>>
        /\ UNCHANGED <<m_pFile, oldest>> \/ (m_pFile' = NoFile /\ oldest' = None /\ life' # "up")
        /\ (misused' = misused /\ (handled => handled')) \/ (misused' /\ life' # "up")
        /\ life' = "up" => life = "up"
    BY <1>2 DEF Teardown, UseFreed, End, CtrlHandler, vars, fileVars
  <2>2. handled' \in BOOLEAN /\ misused' \in BOOLEAN /\ life' \in Life
    BY <1>2 DEF Teardown, UseFreed, End, CtrlHandler, vars, IInv, TypeOK, Life
  <2>3. TypeOK'
    <3>1. NoFile \in FileType
      BY LogFileAssumption DEF NoFile, FileType, Day
    <3> QED
      BY <2>1, <2>2, <3>1 DEF IInv, TypeOK, FileType
  <2>4. TodaysFile' /\ BufferYoung'
    BY <2>1 DEF IInv, TodaysFile, BufferYoung, Elapsed, NoFile
  <2>5. ClosedByHandler'
    BY <1>2, <2>1 DEF Teardown, UseFreed, End, CtrlHandler, vars, IInv, ClosedByHandler
  <2> QED
    BY <2>3, <2>4, <2>5 DEF IInv
<1>3. CASE Exit \/ (CtrlHandler /\ Close)
  BY <1>3, CloseIInv DEF Exit
<1> QED
  BY <1>1, <1>2, <1>3, TickIInv, OpenIInv, FFlushIInv, DroppedIInv, OutPutStringIInv
     DEF Next, CtrlHandler

THEOREM Inductive == Spec => []IInv
BY InitIInv, NextIInv, PTL DEF Spec

-----------------------------------------------------------------------------
(* The properties *)

\* Every variable keeps its type.
THEOREM TypeCorrect == Spec => []TypeOK
BY Inductive, PTL DEF IInv

\* A line that is written goes to the file of its date, but for the first
\* after midnight and for the days that repeat the number of Open's.
THEOREM RightFile == Spec => []LineInItsDay
<1>1. Init => LineInItsDay
  BY DEF Init, LineInItsDay
<1>2. IInv /\ LineInItsDay /\ [Next]_vars => LineInItsDay'
  <2> SUFFICES ASSUME IInv, LineInItsDay, [Next]_vars PROVE LineInItsDay'
    OBVIOUS
  <2>1. CASE last' = last
    BY <2>1 DEF LineInItsDay
  <2>2. CASE OutPutString
    <3>1. CASE m_pFile.state = "open"
      <4>1. last' = Line(m_pFile.day, "file")
        BY <2>2, <3>1 DEF OutPutString
      <4>2. /\ last'.file = m_pFile.day /\ last'.on = day /\ last'.first = (last.on # day)
            /\ last'.repeats = (wDay(day) = wDay(m_xDate))
        BY <4>1 DEF Line
      <4> QED
        BY <3>1, <4>2 DEF LineInItsDay, IInv, TodaysFile
    <3>2. CASE m_pFile.state # "open"
      BY <2>2, <3>2 DEF OutPutString, Line, LineInItsDay
    <3> QED
      BY <3>1, <3>2
  <2>3. CASE Dropped
    BY <2>3 DEF Dropped, Line, LineInItsDay
  <2> QED
    BY <2>1, <2>2, <2>3 DEF Next, vars, Tick, Midnight, Open, FFlush, CtrlHandler, Exit,
                                   Teardown, UseFreed, End
<1> QED
  BY <1>1, <1>2, Inductive, PTL DEF Spec

\* After a line nothing in the buffer is older than the flush interval, also
\* across the wrap of GetTickCount.
THEOREM InTime == Spec => []FlushedInTime
<1>1. IInv => FlushedInTime
  <2> SUFFICES ASSUME IInv, silence = 0 PROVE oldest <= Interval
    BY DEF FlushedInTime
  <2>1. CASE oldest = None
    BY <2>1, LogFileAssumption DEF None
  <2>2. CASE oldest # None
    <3>1. oldest <= Elapsed /\ Elapsed <= Interval + 0
      BY <2>2 DEF IInv, BufferYoung
    <3>2. oldest \in Int /\ Elapsed \in Int /\ Interval \in Int
      BY ElapsedRange, LogFileAssumption DEF IInv, TypeOK, None, ClockRange
    <3> QED
      BY <3>1, <3>2
  <2> QED
    BY <2>1, <2>2
<1> QED
  BY <1>1, Inductive, PTL

\* While main runs a closed FILE is used only after the console handler closed it.
THEOREM ClosedUnused == Spec => []NoUseAfterClose
<1>1. IInv => NoUseAfterClose
  BY DEF IInv, ClosedByHandler, NoUseAfterClose
<1> QED
  BY <1>1, Inductive, PTL

=============================================================================
