----------------------------- MODULE RequestLog -----------------------------
(***************************************************************************)
(* The user log of the requests of one runtime: the store of every request *)
(* (logstore.go) with its pooled tail buffer and its log file              *)
(* (pkg/userlog), the map of stores and the dispatchers that split the     *)
(* runtime's stdout and stderr into lines (log_dispatcher.go), and the     *)
(* part of InvokeFunction that opens, waits for and closes the log         *)
(* (client.go, request.go).                                                *)
(*                                                                         *)
(* A byte stream is a sequence of symbols <<kind, q>>; q is the request    *)
(* whose execution printed it. Lengths and capacities count symbols.       *)
(***************************************************************************)
EXTENDS Naturals, Integers, Sequences, FiniteSets, SequencesExt

CONSTANTS
    Requests,       \* invocations of the runtime, numbered as they start
    NoRequest,
    Streams,        \* log connections of the runtime: stdout, stderr
    Modes,          \* subset of {"common", "concurrent"}: ConcurrentMode
    LogTypes,       \* subset of {"none", "tail", "file"}: no log; IsLogTail only,
                    \* or a log file that cannot be created; plain or json log file
    Printed(_, _),  \* kinds of the symbols an execution prints: stream, mode
    Buffers,        \* the tail buffers that exist
    NoBuffer,
    BufferLength,   \* bufferLength of a dispatcher (64 KB in the code)
    TailLength,     \* defaultUserLogLength (4 KB)
    FileCapacity    \* maxUserLogSize (6 MB)

ASSUME RequestLogAssumption ==
    /\ Requests \subseteq Nat /\ NoRequest \notin Requests /\ NoBuffer \notin Buffers
    /\ IsFiniteSet(Requests) /\ IsFiniteSet(Streams) /\ IsFiniteSet(Buffers)
    /\ Cardinality(Buffers) >= Cardinality(Requests)
    /\ Modes \subseteq {"common", "concurrent"}
    /\ LogTypes \subseteq {"none", "tail", "file"}
    /\ BufferLength \in Nat \ {0} /\ TailLength \in Nat /\ FileCapacity \in Nat
    /\ \A s \in Streams, m \in Modes : Printed(s, m) \in Seq({"text", "id", "tab", "nl", "zero"})
    /\ "faas" \notin Streams    \* the source of the controller's own lines

VARIABLES
    mode,           \* ConcurrentMode of the runtime
    logType,        \* LogType of its function
    lmap,           \* logStatStoreMap: lastReqID and the keys of storeMap
    store,          \* the kunLogStatStore of every request
    contents,       \* what every tail buffer holds
    bufPool,        \* logBufPool
    conn,           \* symbols on the connection of every stream
    disp,           \* the dispatcher of every stream
    call            \* the goroutine of InvokeFunction of every request

lvars == <<mode, logType, lmap, store, contents, bufPool, conn, disp, call>>

Symbols == {"text", "id", "tab", "nl", "zero", "START", "END", "REPORT"} \X Requests

\* done: flagOutdone and flagErrdone; forced: some flag was set by LogDone or Close;
\* timer: the timer of waitLogDone is running; tail: what Close returned; clean:
\* nothing of an earlier request was on its way when the store was made (forced and
\* clean are only read by the properties).
Stores == [buffer : Buffers \cup {NoBuffer}, remain : Int,
           done : SUBSET Streams, waitg : Int, closed : BOOLEAN, forced : BOOLEAN,
           timer : BOOLEAN, open : BOOLEAN, capacity : Int,
           file : Seq([rid : Requests, src : Streams \cup {"faas"}, msg : Seq(Symbols)]),
           tail : Seq(Symbols), clean : BOOLEAN]

\* buf: buffered symbols; i: the position the scan has reached; lastln, lastTab: the
\* last newline and tab, 0 for none; tabs: lnTabCnt; ls: the store; data, eof: the
\* arguments of WriteStdLog; stale: the line has lost its beginning to a read that was
\* discarded, or began with tabs of an earlier scan (only read by the properties).
Dispatchers == [pc : {"read", "scan", "eof", "append", "file"}, buf : Seq(Symbols),
                i : Nat, lastln : Nat, lastTab : Nat, tabs : Nat, zeros : Nat,
                ls : Requests \cup {NoRequest}, data : Seq(Symbols), eof : BOOLEAN,
                stale : BOOLEAN]

\* The types of the variables.
LogTypeOK ==
    /\ mode \in Modes /\ logType \in LogTypes
    /\ lmap \in [last : Requests \cup {NoRequest}, stores : SUBSET Requests]
    /\ store \in [Requests -> Stores]
    /\ contents \in [Buffers -> Seq(Symbols)]
    /\ bufPool \subseteq Buffers
    /\ conn \in [Streams -> Seq(Symbols)]
    /\ disp \in [Streams -> Dispatchers]
    /\ call \in [Requests -> [pc : {"new", "start", "run", "report", "wait", "write",
                                    "close", "stop", "done"}, ran : BOOLEAN]]

NoStore == [buffer |-> NoBuffer, remain |-> 0,
            done |-> {}, waitg |-> Cardinality(Streams), closed |-> FALSE,
            forced |-> FALSE, timer |-> FALSE, open |-> FALSE, capacity |-> 0,
            file |-> << >>, tail |-> << >>, clean |-> FALSE]

Reading(buf, tabs, stale) ==
    [pc |-> "read", buf |-> buf, i |-> 0, lastln |-> 0, lastTab |-> 0, tabs |-> tabs,
     zeros |-> 0, ls |-> NoRequest, data |-> << >>, eof |-> FALSE, stale |-> stale]

LogInit ==
    /\ mode \in Modes /\ logType \in LogTypes
    /\ lmap = [last |-> NoRequest, stores |-> {}]
    /\ store = [q \in Requests |-> NoStore]
    /\ contents = [b \in Buffers |-> << >>]
    /\ bufPool = Buffers
    /\ conn = [s \in Streams |-> << >>]
    /\ disp = [s \in Streams |-> Reading(<< >>, 0, FALSE)]
    /\ call = [q \in Requests |-> [pc |-> "new", ran |-> FALSE]]

-----------------------------------------------------------------------------
(* kunLogStatStore *)

\* setFlagLocked for one or both of the done flags.
setFlagLocked(st, flags) ==
    [st EXCEPT !.done = @ \cup flags, !.waitg = @ - Cardinality(flags \ st.done)]

\* LogDone(true): what was not done is done now.
LogDone(st) == [setFlagLocked(st, Streams) EXCEPT !.forced = @ \/ st.done # Streams]

\* appendLogbuf: what it writes, cut to what remains unless forced. A cut that does
\* not end a line gets a newline.
Appended(st, data, force) ==
    LET to == IF force \/ Len(data) <= st.remain THEN Len(data) ELSE st.remain
        cut == SubSeq(data, 1, to)
    IN  IF st.buffer = NoBuffer \/ to <= 0 THEN << >>
        ELSE IF to < Len(data) /\ Last(cut)[1] # "nl"
             THEN Append(cut, <<"nl", Last(cut)[2]>>) ELSE cut

appendLogbuf(q, data, force) ==
    LET w == Appended(store[q], data, force)
    IN  /\ contents' = IF w = << >> THEN contents
                       ELSE [contents EXCEPT ![store[q].buffer] = @ \o w]
        /\ store' = [store EXCEPT ![q].remain = @ - Len(w)]

\* The record a line becomes; of its fields those that tell requests apart.
Record(q, src, msg) == [rid |-> q, src |-> src, msg |-> msg]

\* The records plainLogFile and JSONLogFile make of a buffer: one per non-empty line.
Records(q, src, data) ==
    LET IsEnd(i) == i = Len(data) + 1 \/ data[i][1] = "nl"
        starts == {i \in DOMAIN data : ~IsEnd(i) /\ (i = 1 \/ IsEnd(i - 1))}
        StartOf(n) == CHOOSE i \in starts : Cardinality({j \in starts : j <= i}) = n
        EndOf(i) == Min({j \in i..(Len(data) + 1) : IsEnd(j)})
    IN  [n \in 1..Cardinality(starts) |->
           Record(q, src, SubSeq(data, StartOf(n), EndOf(StartOf(n)) - 1))]

\* What Write returns: one more than the length when the last line has no newline.
Written(data) == IF Last(data)[1] = "nl" THEN Len(data) ELSE Len(data) + 1

\* Write of a log file; nothing when it is closed or over its capacity.
FileWrite(st, q, src, data) ==
    IF ~st.open \/ st.capacity <= 0 THEN st
    ELSE [st EXCEPT !.file = @ \o Records(q, src, data), !.capacity = @ - Written(data)]

\* Symbols of q are on their way to a store.
OnTheWay(q) ==
    \/ ~call[q].ran
    \/ \E s \in Streams :
         \/ \E i \in DOMAIN conn[s] : conn[s][i][2] = q
         \/ \E i \in (disp[s].lastln + 1)..Len(disp[s].buf) : disp[s].buf[i][2] = q
         \/ disp[s].pc # "read" /\ disp[s].ls = q

\* No request before q has symbols on their way.
Clean(q) == \A r \in Requests \ {q} : call[r].pc = "new" \/ ~OnTheWay(r)

-----------------------------------------------------------------------------
(* InvokeFunction: the log of one request *)

\* getLast
LastStore == IF lmap.last \in lmap.stores THEN lmap.last ELSE NoRequest

\* logBufPool.Get; which buffer it is makes no difference.
Get == CHOOSE b \in bufPool : TRUE

\* getUserLogPath and CreateLogWriter: whether the store gets a log file.
getUserLogPath == logType = "file"

\* newLogStatStore: a store with a buffer of the pool.
newLogStatStore(q) ==
    [NoStore EXCEPT !.buffer = Get, !.remain = TailLength, !.open = getUserLogPath,
                    !.capacity = FileCapacity, !.clean = Clean(q)]

\* StartRecvLog: the store is entered in the runtime's map, as the last one.
StartRecvLog(q) == lmap' = [last |-> q, stores |-> lmap.stores \cup {q}]

\* startRecvLog: the store takes a buffer from the pool and resets it. One request at
\* a time, unless the runtime is concurrent.
startRecvLog(q) ==
    /\ call[q].pc = "new"
    /\ mode = "concurrent" \/ \A r \in Requests : call[r].pc \in {"new", "done"}
    /\ \A r \in Requests : r < q => call[r].pc # "new"
    /\ bufPool' = bufPool \ {Get}
    /\ contents' = [contents EXCEPT ![Get] = << >>]
    /\ store' = [store EXCEPT ![q] = newLogStatStore(q)]
    /\ StartRecvLog(q)
    /\ call' = [call EXCEPT ![q].pc = "start"]
    /\ UNCHANGED <<mode, logType, conn, disp>>

\* WriteFunctionLog: forced into the tail, then into the file.
WriteFunctionLog(q, data) ==
    LET w == Appended(store[q], data, TRUE)
    IN  /\ contents' = [contents EXCEPT ![store[q].buffer] = @ \o w]
        /\ store' = [store EXCEPT ![q] =
                        FileWrite([store[q] EXCEPT !.remain = @ - Len(w)], q, "faas", data)]

\* InvokeStart
InvokeStart(q) ==
    /\ call[q].pc = "start"
    /\ WriteFunctionLog(q, <<<<"START", q>>, <<"nl", q>>>>)
    /\ call' = [call EXCEPT ![q].pc = "run"]
    /\ UNCHANGED <<mode, logType, lmap, bufPool, conn, disp>>

\* The process executes the request: what it prints is on the connections, to be read
\* at any time; after the function's timeout it may still come.
Execute(q) ==
    /\ call[q].pc \notin {"new", "start"} /\ ~call[q].ran
    /\ conn' = [s \in Streams |-> conn[s] \o [i \in DOMAIN Printed(s, mode) |->
                                                <<Printed(s, mode)[i], q>>]]
    /\ call' = [call EXCEPT ![q].ran = TRUE]
    /\ UNCHANGED <<mode, logType, lmap, store, contents, bufPool, disp>>

\* SyncChannel or the timer of the function wakes the client.
Awake(q) ==
    /\ call[q].pc = "run"
    /\ call' = [call EXCEPT ![q].pc = "report"]
    /\ UNCHANGED <<mode, logType, lmap, store, contents, bufPool, conn, disp>>

\* InvokeReportDone and waitLogDone: with a user log the client waits for the end
\* markers, and a timer sets them after 10 ms; otherwise they are set at once.
InvokeReportDone(q) ==
    /\ call[q].pc = "report"
    /\ IF mode = "common" /\ logType # "none"
       THEN /\ store' = [store EXCEPT ![q].timer = @ \/ store[q].done # Streams]
            /\ call' = [call EXCEPT ![q].pc = "wait"]
       ELSE /\ store' = [store EXCEPT ![q] = LogDone(@)]
            /\ call' = [call EXCEPT ![q].pc = "write"]
    /\ UNCHANGED <<mode, logType, lmap, contents, bufPool, conn, disp>>

\* Mutant: no timer ends the wait.
LogTimerNever(q) == FALSE /\ UNCHANGED lvars /\ q \in Requests

\* The timer's goroutine outlives the wait.
LogTimer(q) ==
    /\ store[q].timer
    /\ store' = [store EXCEPT ![q] = [LogDone(@) EXCEPT !.timer = FALSE]]
    /\ UNCHANGED <<mode, logType, lmap, contents, bufPool, conn, disp, call>>

\* WaitGroup.Wait returns.
WaitReturns(q) ==
    /\ call[q].pc = "wait" /\ store[q].waitg = 0
    /\ call' = [call EXCEPT ![q].pc = "write"]
    /\ UNCHANGED <<mode, logType, lmap, store, contents, bufPool, conn, disp>>

\* The END and REPORT lines.
WriteReport(q) ==
    /\ call[q].pc = "write"
    /\ WriteFunctionLog(q, <<<<"END", q>>, <<"nl", q>>, <<"REPORT", q>>>>)
    /\ call' = [call EXCEPT ![q].pc = "close"]
    /\ UNCHANGED <<mode, logType, lmap, bufPool, conn, disp>>

\* Mutant: LogData does not clear logbuf.
CloseKeepsBuffer(q) ==
    /\ call[q].pc = "close"
    /\ store' = [store EXCEPT ![q] = [LogDone(@) EXCEPT !.closed = TRUE,
                                        !.tail = contents[store[q].buffer]]]
    /\ bufPool' = bufPool \cup {store[q].buffer}
    /\ contents' = [contents EXCEPT ![store[q].buffer] = << >>]
    /\ call' = [call EXCEPT ![q].pc = "stop"]
    /\ UNCHANGED <<mode, logType, lmap, conn, disp>>

\* LogData: the tail is taken out of the buffer, which goes back to the pool.
LogData(q) ==
    /\ bufPool' = bufPool \cup {store[q].buffer}
    /\ contents' = [contents EXCEPT ![store[q].buffer] = << >>]

\* Close, the part under the mutex.
Close(q) ==
    /\ call[q].pc = "close"
    /\ store' = [store EXCEPT ![q] = [LogDone(@) EXCEPT !.closed = TRUE,
                                        !.tail = contents[store[q].buffer],
                                        !.buffer = NoBuffer]]
    /\ LogData(q)
    /\ call' = [call EXCEPT ![q].pc = "stop"]
    /\ UNCHANGED <<mode, logType, lmap, conn, disp>>

\* del forgets the last request, whichever it is.
Forget(q) == lmap' = [last |-> NoRequest, stores |-> lmap.stores \ {q}]

\* The rest of Close, the log file, and StopRecvLog.
StopRecvLog(q) ==
    /\ call[q].pc = "stop"
    /\ store' = [store EXCEPT ![q].open = FALSE]
    /\ Forget(q)
    /\ call' = [call EXCEPT ![q].pc = "done"]
    /\ UNCHANGED <<mode, logType, contents, bufPool, conn, disp>>

-----------------------------------------------------------------------------
(* stdLogDispatcher.Read *)

\* Read from the connection. Without a store of the last request everything is
\* discarded; the count of tabs is not reset.
ReadConn(s, n) ==
    LET d == disp[s]
        data == d.buf \o SubSeq(conn[s], 1, n)
    IN
    /\ d.pc = "read"
    /\ n <= Len(conn[s]) /\ Len(d.buf) + n <= BufferLength
    /\ conn' = [conn EXCEPT ![s] = SubSeq(@, n + 1, Len(@))]
    /\ disp' = [disp EXCEPT ![s] =
                 IF LastStore = NoRequest
                 THEN Reading(<< >>, d.tabs, Last(data)[1] \notin {"nl", "zero"})
                 ELSE [Reading(data, d.tabs, d.stale \/ d.tabs # 0)
                         EXCEPT !.pc = "scan", !.ls = LastStore]]
    /\ UNCHANGED <<mode, logType, lmap, store, contents, bufPool, call>>

\* After WriteStdLog returned n: all of it written, or i goes to lastln + n.
Resume(d, n) ==
    IF n = Len(d.data)
    THEN [d EXCEPT !.pc = "scan", !.lastln = d.i, !.tabs = 0, !.lastTab = 0,
                   !.stale = FALSE]
    ELSE [d EXCEPT !.pc = "scan", !.i = d.lastln + n]

\* WriteStdLog begins: a closed store is an error, and the data are dropped.
Writing(d, data, eof) ==
    LET e == [d EXCEPT !.data = data, !.eof = eof]
    IN  IF store[d.ls].closed THEN Resume(e, Len(data))
        ELSE [e EXCEPT !.pc = IF eof THEN "eof" ELSE "append"]

\* The end marker is taken out of the buffer.
AtZero(d, k) ==
    Writing([d EXCEPT !.i = k - 1, !.zeros = @ + 1, !.buf = RemoveAt(@, k)],
            SubSeq(d.buf, d.lastln + 1, k - 1), TRUE)

AtLine(d, k) == Writing([d EXCEPT !.i = k], SubSeq(d.buf, d.lastln + 1, k), FALSE)

\* Mutant: the field before the first tab is taken for the request ID.
AtTabFirst(d, k) ==
    LET field == SubSeq(d.buf, d.lastTab + 1, k - 1)
        owner == {q \in lmap.stores : field = <<<<"id", q>>>>}
    IN  [d EXCEPT !.i = k, !.tabs = @ + 1, !.lastTab = k,
           !.ls = IF d.tabs = 0 /\ owner # {} THEN CHOOSE q \in owner : TRUE ELSE @]

\* The second tab of a line ends the request ID, which selects the store.
AtTab(d, k) ==
    LET field == SubSeq(d.buf, d.lastTab + 1, k - 1)
        owner == {q \in lmap.stores : field = <<<<"id", q>>>>}
    IN  [d EXCEPT !.i = k, !.tabs = @ + 1, !.lastTab = k,
           !.ls = IF d.tabs = 1 /\ owner # {} THEN CHOOSE q \in owner : TRUE ELSE @]

\* The loop over the buffer goes to its next special byte.
ScanTo(s, k) ==
    LET d == disp[s] IN
    /\ d.pc = "scan" /\ k > d.i
    /\ d.buf[k][1] \in {"zero", "nl", "tab"}
    /\ \A j \in (d.i + 1)..(k - 1) : d.buf[j][1] \notin {"zero", "nl", "tab"}
    /\ disp' = [disp EXCEPT ![s] = CASE d.buf[k][1] = "zero" -> AtZero(d, k)
                                     [] d.buf[k][1] = "nl" -> AtLine(d, k)
                                     [] d.buf[k][1] = "tab" -> AtTab(d, k)]
    /\ UNCHANGED <<mode, logType, lmap, store, contents, bufPool, conn, call>>

\* Mutant: a line that is not complete is thrown away.
ScanEndsForgets(s) ==
    /\ disp[s].pc = "scan"
    /\ \A j \in (disp[s].i + 1)..Len(disp[s].buf) :
         disp[s].buf[j][1] \notin {"zero", "nl", "tab"}
    /\ disp' = [disp EXCEPT ![s] = Reading(<< >>, 0, FALSE)]
    /\ UNCHANGED <<mode, logType, lmap, store, contents, bufPool, conn, call>>

\* The loop is over. A full buffer without a line is written as one, with a newline
\* of its own; a line that is not complete stays in the buffer.
ScanEnds(s) ==
    LET d == disp[s]
        whole == [d EXCEPT !.i = Len(d.buf) + 1,
                           !.buf = Append(@, <<"nl", Last(@)[2]>>)]
    IN
    /\ d.pc = "scan"
    /\ \A j \in (d.i + 1)..Len(d.buf) : d.buf[j][1] \notin {"zero", "nl", "tab"}
    /\ disp' = [disp EXCEPT ![s] =
                 CASE d.zeros > 0 \/ d.lastln > 0 ->
                        Reading(SubSeq(d.buf, d.lastln + 1, Len(d.buf)), 0, d.stale)
                   [] d.zeros = 0 /\ d.lastln = 0 /\ Len(d.buf) < BufferLength ->
                        Reading(d.buf, d.tabs, d.stale)
                   [] d.zeros = 0 /\ d.lastln = 0 /\ Len(d.buf) >= BufferLength ->
                        Writing(whole, whole.buf, FALSE)]
    /\ UNCHANGED <<mode, logType, lmap, store, contents, bufPool, conn, call>>

\* outLogDone and errLogDone: the stream is done before its last data are stored.
WriteEOF(s) ==
    LET d == disp[s] IN
    /\ d.pc = "eof"
    /\ store' = [store EXCEPT ![d.ls] = setFlagLocked(@, {s})]
    /\ disp' = [disp EXCEPT ![s] = IF d.data = << >> THEN Resume(d, 0)
                                   ELSE [d EXCEPT !.pc = "append"]]
    /\ UNCHANGED <<mode, logType, lmap, contents, bufPool, conn, call>>

\* appendLogbuf of WriteStdLog; it looks at the buffer again under the mutex.
WriteTail(s) ==
    /\ disp[s].pc = "append"
    /\ appendLogbuf(disp[s].ls, disp[s].data, FALSE)
    /\ disp' = [disp EXCEPT ![s].pc = "file"]
    /\ UNCHANGED <<mode, logType, lmap, bufPool, conn, call>>

\* The write to the log file. An error, like a complete write, ends the line.
WriteFile(s) ==
    LET d == disp[s]
        st == store[d.ls]
        n == IF st.open /\ st.capacity > 0 THEN Written(d.data) ELSE Len(d.data)
    IN
    /\ d.pc = "file"
    /\ store' = [store EXCEPT ![d.ls] = FileWrite(@, d.ls, s, d.data)]
    /\ disp' = [disp EXCEPT ![s] = Resume(d, n)]
    /\ UNCHANGED <<mode, logType, lmap, contents, bufPool, conn, call>>

-----------------------------------------------------------------------------

CallStep(q) ==
    \/ startRecvLog(q) \/ InvokeStart(q) \/ Awake(q) \/ InvokeReportDone(q)
    \/ WaitReturns(q) \/ WriteReport(q) \/ Close(q) \/ StopRecvLog(q)

DispatcherStep(s) ==
    \/ \E n \in 1..BufferLength : ReadConn(s, n)
    \/ \E k \in 1..Len(disp[s].buf) : ScanTo(s, k)
    \/ ScanEnds(s) \/ WriteEOF(s) \/ WriteTail(s) \/ WriteFile(s)

LogNext ==
    \/ \E q \in Requests : CallStep(q) \/ Execute(q) \/ LogTimer(q)
    \/ \E s \in Streams : DispatcherStep(s)

\* Of the goroutines of a request, its caller and its timer, one that can run does;
\* nothing is assumed of the process that prints, nor of the dispatchers that wait
\* for it.
LogSpec ==
    /\ LogInit /\ [][LogNext]_lvars
    /\ \A q \in Requests : WF_lvars(CallStep(q) \/ LogTimer(q))

-----------------------------------------------------------------------------
(* Properties *)

\* The wait for the log of q was ended by end markers, and what earlier requests
\* printed had been read before it began.
OwnMarkers(q) == store[q].closed /\ store[q].clean /\ ~store[q].forced

\* What the log file of q has of a stream, and what q printed to it but for the ends of
\* lines and the end marker.
Logged(q, s) ==
    FlattenSeq([i \in DOMAIN store[q].file |->
                  IF store[q].file[i].src = s THEN store[q].file[i].msg ELSE << >>])
Text(x) ==
    FlattenSeq([i \in DOMAIN x |-> IF x[i][1] \in {"nl", "zero"} THEN << >> ELSE <<x[i]>>])
PrintedBy(q, s) == Text([i \in DOMAIN Printed(s, mode) |-> <<Printed(s, mode)[i], q>>])

\* A process that serves one request at a time ends its output with a newline, where there
\* is any, and one end marker, on both streams.
MarkForm ==
    "common" \in Modes =>
        \A s \in Streams :
            LET p == Printed(s, "common") IN
            /\ p # << >>
            /\ \A i \in 1..Len(p) : p[i] = "zero" <=> i = Len(p)
            /\ Len(p) > 1 => p[Len(p) - 1] = "nl"

\* The log file of a request whose end markers came in time, and that its limit did not
\* cut, holds exactly what the request printed, in order, once it is closed: however the
\* streams are cut into reads, no line is lost, split off, repeated or taken from another
\* request.
LogComplete ==
    \A q \in Requests :
        mode = "common" /\ OwnMarkers(q) /\ store[q].file # << >> /\ store[q].capacity > 0 =>
            \A s \in Streams : Logged(q, s) = PrintedBy(q, s)

\* Every line of a process that tells requests apart names its request between its
\* first two tabs, which is how AtTab finds it; a process whose lines carry no ID prints
\* what it likes. The buffer of a dispatcher has room for the ID of a line.
IdForm(p) ==
    /\ p # << >> => p[Len(p)] = "nl"
    /\ \A i \in 1..Len(p) :
         /\ p[i] # "zero"
         /\ p[i] = "id" => /\ i \in 2..(Len(p) - 1) /\ p[i - 1] = "tab" /\ p[i + 1] = "tab"
                           /\ i = 2 \/ p[i - 2] = "nl"
NoIds(p) == \A i \in 1..Len(p) : p[i] # "id"
LineForm ==
    /\ BufferLength >= 3
    /\ \A s \in Streams, m \in Modes : NoIds(Printed(s, m)) \/ IdForm(Printed(s, m))

\* In a concurrent runtime a line with the ID of an open request is written to the
\* log of that request, whichever was started last, unless a read cut the line
\* after a tab, which is then counted twice, or its beginning was discarded.
LinesFindOwner ==
    \A s \in Streams : \A q \in lmap.stores :
        disp[s].pc = "append" /\ ~disp[s].stale /\ Contains(disp[s].data, <<"id", q>>)
            => disp[s].ls = q

\* A tail buffer has one owner: it is in the pool, and empty, or it belongs to one
\* open store, although late writers still hold stores that are closed.
BufferOwned ==
    /\ \A q, r \in Requests :
         store[q].buffer # NoBuffer =>
            /\ store[q].buffer \notin bufPool
            /\ q # r => store[q].buffer # store[r].buffer
    /\ \A b \in bufPool : contents[b] = << >>

\* The tail is bounded by its length, one newline and the START, END and REPORT lines
\* (two, two and one symbol), which are written even when it is full.
TailBounded ==
    /\ \A b \in Buffers : Len(contents[b]) <= TailLength + 6
    /\ \A q \in Requests : Len(store[q].tail) <= TailLength + 6

\* Every done flag was counted once: WaitGroup.Done never makes the counter negative
\* (a panic) although dispatchers, the timer and Close set the flags.
WaitGroupExact ==
    \A q \in Requests : store[q].waitg = Cardinality(Streams \ store[q].done)

\* The stores stay sound although dispatchers, timers and Close work on them at once and
\* Close returns the tail buffer to the pool under late writers.
LogStoresSound == LogTypeOK /\ BufferOwned /\ TailBounded /\ WaitGroupExact

\* What is printed reaches the log of the request that printed it, in both modes of the
\* runtime and wherever Read cuts the streams.
LogsRight == LogComplete /\ LinesFindOwner

\* A request that is answered or timed out closes its log and leaves the map,
\* whatever the process prints.
LogsClose == \A q \in Requests : call[q].pc = "report" ~> call[q].pc = "done"
=============================================================================
