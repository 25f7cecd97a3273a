------------------------------- MODULE LogWorker -------------------------------
(***************************************************************************)
(* The log of the GUI: LogWorker of crates/hwall-app/src/logging.rs, a     *)
(* thread that writes the samples it is sent over a bounded channel, and   *)
(* its use by the main loop (crates/hwall-gui/src/main.rs and session.rs). *)
(*                                                                         *)
(* A sample is its number; the rows of a sample, their format and the      *)
(* log's path are left out.                                                *)
(***************************************************************************)
EXTENDS Naturals, Sequences, FiniteSets

CONSTANTS
    LogCapacity, \* commands that the channel holds
    MaxSamples,  \* bound: samples
    MaxLogs      \* bound: logs started

ASSUME LogAssumption == {LogCapacity, MaxSamples, MaxLogs} \subseteq Nat \ {0}

LogStop == 0

VARIABLES
    logger,   \* the main loop's side: whether it logs, or waits in stop()
    logQueue, \* the channel's commands: numbers of samples, or LogStop
    logThread,\* the thread hwall-logger
    logFile,  \* the samples in the file
    accepted, \* the samples that log_rows accepted for this file
    logError, \* an error waits in the channel back
    logCount  \* samples taken and logs started so far

logVars == <<logger, logQueue, logThread, logFile, accepted, logError, logCount>>

LogTypeOK ==
    /\ logger \in [at : {"idle", "logging", "sending stop", "joining"},
                   notice : {"none", "started", "stopped", "busy", "error"}]
    /\ logQueue \in Seq(0 .. MaxSamples) /\ Len(logQueue) <= LogCapacity
    /\ logThread \in {"none", "opening", "running", "failed", "ended"}
    /\ {logFile, accepted} \subseteq Seq(1 .. MaxSamples)
    /\ logError \in BOOLEAN
    /\ logCount \in [samples : 0 .. MaxSamples, logs : 0 .. MaxLogs]

LogInit ==
    /\ logger = [at |-> "idle", notice |-> "none"]
    /\ logQueue = <<>> /\ logFile = <<>> /\ accepted = <<>>
    /\ logThread = "none" /\ logError = FALSE
    /\ logCount = [samples |-> 0, logs |-> 0]

LogAlive == logThread \in {"opening", "running"}

-----------------------------------------------------------------------------
(* The main loop *)

(* start_logging of an idle session, and the sample that toggle_logging    *)
(* writes at once; the directory or the thread may not be to be made.      *)
StartLogging ==
    /\ logger.at = "idle"
    /\ logCount.logs < MaxLogs /\ logCount.samples < MaxSamples
    /\ \/ /\ logger' = [at |-> "logging", notice |-> "started"]
          /\ logThread' = "opening"
          /\ logCount' = [samples |-> logCount.samples + 1, logs |-> logCount.logs + 1]
          /\ logQueue' = <<logCount.samples + 1>>
          /\ accepted' = <<logCount.samples + 1>>
          /\ logFile' = <<>> /\ logError' = FALSE
       \/ /\ logger' = [logger EXCEPT !.notice = "error"]
          /\ UNCHANGED <<logQueue, logThread, logFile, accepted, logError, logCount>>

(* A mutant: a full channel loses its oldest sample.                       *)
AcceptPushingOut(number) ==
    /\ LogAlive
    /\ logQueue' = Append(IF Len(logQueue) < LogCapacity THEN logQueue ELSE Tail(logQueue),
                          number)

(* try_send of a sample                                                    *)
Accept(number) ==
    /\ LogAlive
    /\ Len(logQueue) < LogCapacity
    /\ logQueue' = Append(logQueue, number)

(* write_log_sample, for every applied telemetry sample                    *)
LogSample ==
    /\ logger.at = "logging"
    /\ logCount.samples < MaxSamples
    /\ logCount' = [logCount EXCEPT !.samples = @ + 1]
    /\ \/ /\ Accept(logCount'.samples)
          /\ accepted' = Append(accepted, logCount'.samples)
          /\ UNCHANGED logger
       \/ /\ ~LogAlive \/ Len(logQueue) = LogCapacity
          /\ logger' = [logger EXCEPT !.notice = "busy"]
          /\ UNCHANGED <<logQueue, accepted>>
    /\ UNCHANGED <<logThread, logFile, logError>>

(* process_session_tick finds the error that ended the thread.             *)
FindLogError ==
    /\ logger.at = "logging" /\ logError
    /\ logError' = FALSE
    /\ logger' = [at |-> "sending stop", notice |-> "error"]
    /\ UNCHANGED <<logQueue, logThread, logFile, accepted, logCount>>

(* The user, by the toolbar or the tray, or the end of the session.        *)
StopLogging ==
    /\ logger.at = "logging"
    /\ logger' = [at |-> "sending stop", notice |-> "stopped"]
    /\ UNCHANGED <<logQueue, logThread, logFile, accepted, logError, logCount>>

(* LogWorker::stop waits for room in the channel ...                       *)
SendLogStop ==
    /\ logger.at = "sending stop"
    /\ \/ LogAlive /\ Len(logQueue) < LogCapacity /\ logQueue' = Append(logQueue, LogStop)
       \/ ~LogAlive /\ UNCHANGED logQueue
    /\ logger' = [logger EXCEPT !.at = "joining"]
    /\ UNCHANGED <<logThread, logFile, accepted, logError, logCount>>

(* ... and for the thread to end.                                          *)
JoinLogThread ==
    /\ logger.at = "joining"
    /\ ~LogAlive
    /\ logger' = [logger EXCEPT !.at = "idle"]
    /\ UNCHANGED <<logQueue, logThread, logFile, accepted, logError, logCount>>

-----------------------------------------------------------------------------
(* The thread *)

LogThreadFails ==
    /\ logThread' = "failed"
    /\ logError' = TRUE
    /\ logQueue' = <<>>
    /\ UNCHANGED <<logger, logFile, accepted, logCount>>

OpenLog ==
    /\ logThread = "opening"
    /\ \/ /\ logThread' = "running"
          /\ UNCHANGED <<logger, logQueue, logFile, accepted, logError, logCount>>
       \/ LogThreadFails

(* write_sample and flush                                                  *)
WriteSample ==
    /\ logThread = "running"
    /\ logQueue # <<>> /\ Head(logQueue) # LogStop
    /\ \/ /\ logFile' = Append(logFile, Head(logQueue))
          /\ logQueue' = Tail(logQueue)
          /\ UNCHANGED <<logger, logThread, accepted, logError, logCount>>
       \/ LogThreadFails

EndLog ==
    /\ logThread = "running"
    /\ logQueue # <<>> /\ Head(logQueue) = LogStop
    /\ logQueue' = <<>>
    /\ logThread' = "ended"
    /\ UNCHANGED <<logger, logFile, accepted, logError, logCount>>

LogThreadNext == OpenLog \/ WriteSample \/ EndLog

LogNext ==
    \/ StartLogging \/ LogSample \/ FindLogError \/ StopLogging
    \/ SendLogStop \/ JoinLogThread
    \/ LogThreadNext

(* The main loop comes back to the tick, and the thread goes on writing.   *)
LogFairness ==
    /\ WF_logVars(FindLogError) /\ WF_logVars(SendLogStop) /\ WF_logVars(JoinLogThread)
    /\ WF_logVars(LogThreadNext)

LogSpec == LogInit /\ [][LogNext]_logVars /\ LogFairness

-----------------------------------------------------------------------------
(* Properties *)

(* The file has the accepted samples in their order and leaves out none of *)
(* them in between; when logging has stopped without an error, it has them *)
(* all.                                                                    *)
LogComplete ==
    /\ logFile = SubSeq(accepted, 1, Len(logFile))
    /\ logger.at = "idle" /\ logThread # "failed" => logFile = accepted

(* A log that cannot be written does not seem to go on: it is stopped; and *)
(* stopping a log, which the main loop waits for, comes to an end.         *)
LogEnds ==
    /\ (logThread = "failed") ~> (logger.at = "idle")
    /\ (logger.at \in {"sending stop", "joining"}) ~> (logger.at \in {"idle", "logging"})
=============================================================================
