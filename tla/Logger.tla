-------------------------------- MODULE Logger -------------------------------
(***************************************************************************)
(* Asynchronous logging: the thread that runs the program starts the       *)
(* logger thread, registers a LogFrontend with it, logs, and stops it at   *)
(* the end (logger.cc, log_frontend.cc, log.hh).  The two threads share    *)
(* the queue of the frontend, its eventfd, and the io_uring of the         *)
(* logger's dispatcher, in which RegisterThread puts a read without any    *)
(* synchronisation with the thread that submits the ring.                  *)
(***************************************************************************)
EXTENDS SpscQueue

CONSTANT MaxEntries   \* bound on the calls of LOG_*

VARIABLES main,      \* the program's thread
          logged,    \* calls of LOG_* so far
          loop,      \* the logger thread in DispatcherImpl::Run
          finishing, \* is_finishing_
          sqes,      \* prepared, not yet submitted
          armed,     \* reads the kernel holds: of the dispatcher, of the frontend
          cqes,      \* completions that are not handled yet
          eventfds,  \* eventfds with a value to read
          missed,    \* the first submit came too early for the frontend's read
          failed     \* a read of the frontend's eventfd failed

threads == <<main, loop, finishing>>
ring == <<sqes, armed, cqes, eventfds, missed, failed>>
logvars == <<queue, threads, ring, logged>>

LogInit ==
    /\ QueueInit
    /\ main = "start" /\ logged = 0 /\ loop = "none" /\ finishing = FALSE
    /\ sqes = <<"dispatcher">> /\ armed = {} /\ cqes = <<>> /\ eventfds = {}
    /\ missed = FALSE /\ failed = FALSE

-----------------------------------------------------------------------------
(* The program's thread.                                                   *)

Run ==
    /\ main = "start" /\ main' = "get_sqe" /\ loop' = "submit"
    /\ UNCHANGED <<queue, finishing, ring, logged>>

\* PrepareRead of the frontend's constructor, from the wrong thread: the entry
\* enters the ring before it says what it is, and the ring may be submitted at
\* any point.  Writes to an entry that was submitted change nothing.
Fill(from, to) == [i \in DOMAIN sqes |-> IF sqes[i] = from THEN to ELSE sqes[i]]

GetSqe ==
    /\ main = "get_sqe" /\ main' = "set_data"
    /\ sqes' = Append(sqes, "blank")
    /\ UNCHANGED <<queue, logged, loop, finishing, armed, cqes, eventfds, missed, failed>>

SetData ==
    /\ main = "set_data" /\ main' = "prep_read"
    /\ sqes' = Fill("blank", "tagged")
    /\ UNCHANGED <<queue, logged, loop, finishing, armed, cqes, eventfds, missed, failed>>

PrepRead ==
    /\ main = "prep_read" /\ main' = "ready"
    /\ sqes' = Fill("tagged", "frontend")
    /\ UNCHANGED <<queue, logged, loop, finishing, armed, cqes, eventfds, missed, failed>>

\* log_impl without a frontend, or with arguments that do not fit an entry.
LogToStderr ==
    /\ main \in {"start", "ready", "stopped"} /\ writing = "idle"
    /\ logged < MaxEntries /\ logged' = logged + 1
    /\ UNCHANGED <<queue, threads, ring>>

\* LogFrontend::Log: emplace, then write the eventfd.
Log ==
    /\ main = "ready" /\ logged < MaxEntries /\ logged' = logged + 1
    /\ \E e \in Entry : Emplace(e)
    /\ UNCHANGED <<threads, ring>>

LogWaits == Reload /\ UNCHANGED <<logged, threads, ring>>
LogConstructs == Construct /\ UNCHANGED <<logged, threads, ring>>

LogPublishes ==
    /\ Publish
    /\ main' = "wake"
    /\ UNCHANGED <<logged, loop, finishing, ring>>

Wake ==
    /\ main = "wake" /\ main' = "ready"
    /\ eventfds' = eventfds \cup {"frontend"}
    /\ UNCHANGED <<queue, logged, loop, finishing, sqes, armed, cqes, missed, failed>>

Stop ==
    /\ main = "ready" /\ writing = "idle" /\ main' = "joining"
    /\ eventfds' = eventfds \cup {"dispatcher"}
    /\ UNCHANGED <<queue, logged, loop, finishing, sqes, armed, cqes, missed, failed>>

Join ==
    /\ main = "joining" /\ loop = "exited" /\ main' = "stopped"
    /\ UNCHANGED <<queue, logged, loop, finishing, ring>>

-----------------------------------------------------------------------------
(* The kernel: an entry submitted before it was filled in is a no-op, which *)
(* completes for nobody or, once it is tagged, for the frontend.           *)

NoOps == SelectSeq(sqes, LAMBDA q : q \in {"blank", "tagged"})
Reads == {q \in {"dispatcher", "frontend"} : \E i \in DOMAIN sqes : sqes[i] = q}

ReadCompletes(r) ==
    /\ r \in armed /\ r \in eventfds
    /\ armed' = armed \ {r} /\ eventfds' = eventfds \ {r}
    /\ cqes' = Append(cqes, r)
    /\ UNCHANGED <<queue, logged, threads, sqes, missed, failed>>

ReadFails ==
    /\ "frontend" \in armed /\ armed' = armed \ {"frontend"}
    /\ cqes' = Append(cqes, "failed") /\ failed' = TRUE
    /\ UNCHANGED <<queue, logged, threads, sqes, eventfds, missed>>

-----------------------------------------------------------------------------
(* The logger thread: DispatcherImpl::Run and LogFrontend::HandleCompletion. *)

Submit ==
    /\ loop = "submit" /\ loop' = "wait"
    /\ sqes' = <<>> /\ armed' = armed \cup Reads
    /\ cqes' = cqes \o NoOps
    /\ missed' = (missed \/ /\ "dispatcher" \in Reads
                            /\ \A i \in DOMAIN sqes : sqes[i] \in {"dispatcher", "blank"})
    /\ UNCHANGED <<queue, logged, main, finishing, eventfds, failed>>

HandleCompletion ==
    /\ loop \in {"wait", "handle"} /\ cqes # <<>>
    /\ cqes' = Tail(cqes)
    /\ finishing' = (finishing \/ Head(cqes) = "dispatcher")
    /\ loop' = IF Head(cqes) \in {"tagged", "frontend"} THEN "drain" ELSE "handle"
    /\ UNCHANGED <<queue, logged, main, sqes, armed, eventfds, missed, failed>>

AllHandled ==
    /\ loop = "handle" /\ cqes = <<>>
    /\ loop' = IF finishing THEN "exited" ELSE "submit"
    /\ UNCHANGED <<queue, logged, main, finishing, ring>>

\* One turn of the loop that prints what front() returns.
Drain ==
    /\ loop = "drain"
    /\ FrontCached \/ FrontFinds \/ Take \/ GiveBack
    /\ UNCHANGED <<logged, threads, ring>>

\* Mutant: the frontend is not listened to again.
DrainedForGood ==
    /\ loop = "drain" /\ FrontEmpty
    /\ loop' = "handle"
    /\ UNCHANGED <<logged, main, finishing, ring>>

\* front() finds nothing: the read is prepared again.
Drained ==
    /\ loop = "drain" /\ FrontEmpty
    /\ sqes' = Append(sqes, "frontend")
    /\ loop' = "handle"
    /\ UNCHANGED <<logged, main, finishing, armed, cqes, eventfds, missed, failed>>

-----------------------------------------------------------------------------
MainStep ==
    \/ Run \/ GetSqe \/ SetData \/ PrepRead \/ LogWaits \/ LogConstructs \/ LogPublishes
    \/ Wake \/ Join
Kernel == ReadCompletes("dispatcher") \/ ReadCompletes("frontend")
LoggerStep == Submit \/ HandleCompletion \/ AllHandled \/ Drain \/ Drained

LogNext == MainStep \/ Log \/ LogToStderr \/ Stop \/ Kernel \/ ReadFails \/ LoggerStep

\* Both threads are scheduled, and a read of a readable eventfd completes.  The
\* program need not log, nor stop; a thread that spins in emplace keeps running.
LogSpec ==
    /\ LogInit /\ [][LogNext]_logvars
    /\ WF_logvars(MainStep) /\ WF_logvars(LoggerStep) /\ WF_logvars(Kernel)

-----------------------------------------------------------------------------
\* The logger listens to the frontend: its first submit took the read that
\* RegisterThread prepared, no read failed, and the program has not called Stop.
Listening == ~missed /\ ~failed /\ main \notin {"joining", "stopped"}

\* Every entry that LogFrontend::Log was given is printed while the logger
\* listens, whatever the order of emplace, of the write to the eventfd, of the
\* draining loop and of the new read: no wake-up is lost between the last front()
\* and the read that is armed after it, and a call that finds the queue full
\* returns.  When the registration came too late nothing empties the queue, and
\* the program's only thread spins in emplace for ever.
EveryEntryPrinted ==
    \A n \in 1 .. MaxEntries :
        Len(pushed) + (IF writing = "idle" THEN 0 ELSE 1) >= n
          ~> (Len(popped) >= n \/ ~Listening)
=============================================================================
